--------------------------- MODULE CollectorRunner ---------------------------
(***************************************************************************)
(* The goroutine of an AsyncCollectorRunner (common.go): it calls its      *)
(* providers one after the other, in the order main appended them, sleeps, *)
(* and begins again.  A module that INSTANCEs this one has the states of   *)
(* the providers: a provider is entered in "call" and ends with Return.    *)
(***************************************************************************)
EXTENDS Naturals, Sequences

VARIABLES
  providers,  \* c.Providers, which main fills before it starts the runner
  pc,         \* "off", "call", "rest", or a place inside a provider
  at          \* the position in providers

Init == pc = "off" /\ at = 1

(* Faulty: the providers are called once, outside the loop.                *)
BeginOnce ==
  /\ pc = "off"
  /\ pc' = IF providers = << >> THEN "rest" ELSE "call"
  /\ at' = 1
  /\ UNCHANGED providers

(* Start, and later the end of time.Sleep.                                 *)
BeginCycle ==
  /\ pc \in {"off", "rest"}
  /\ pc' = IF providers = << >> THEN "rest" ELSE "call"
  /\ at' = 1
  /\ UNCHANGED providers

At(p) == providers[at] = p

Calls(p) == pc = "call" /\ At(p)

(* Faulty: the first provider that returns ends the cycle.                 *)
ReturnToRest == pc' = "rest" /\ UNCHANGED <<providers, at>>

(* Faulty: one provider too many.                                          *)
ReturnPastEnd ==
  /\ IF at <= Len(providers)
     THEN pc' = "call" /\ at' = at + 1
     ELSE pc' = "rest" /\ UNCHANGED at
  /\ UNCHANGED providers

Return ==
  /\ IF at < Len(providers)
     THEN pc' = "call" /\ at' = at + 1
     ELSE pc' = "rest" /\ UNCHANGED at
  /\ UNCHANGED providers
=============================================================================
