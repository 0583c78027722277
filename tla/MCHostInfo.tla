----------------------------- MODULE MCHostInfo -----------------------------
(* Instance of HostInfo for TLC: all three providers, in main's order.     *)
EXTENDS HostInfo, Registration

AllProviders == <<"system", "ipinfo", "file">>

ASSUME Registered == AllProviders = ProvidersOf("host_info", Flag)
=============================================================================
