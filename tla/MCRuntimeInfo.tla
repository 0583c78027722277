---------------------------- MODULE MCRuntimeInfo ----------------------------
(* Instance of RuntimeInfo for TLC: any of the two runtimes, both, none.   *)
EXTENDS RuntimeInfo, Registration

AllNodes == {<< >>, <<"Kubernetes">>, <<"Docker">>, <<"Kubernetes", "Docker">>}

ASSUME Registered == AllNodes = AnyOf("runtime_info")
=============================================================================
