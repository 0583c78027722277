---------------------------- MODULE StringFields ----------------------------
(***************************************************************************)
(* The string fields of a collector (OrchInfoCollector and the like), as   *)
(* goroutines that do not synchronise see them.  A Go string is two words, *)
(* its length and its pointer; an assignment stores them one at a time,    *)
(* and nothing orders one goroutine's stores for another: the exporter is  *)
(* also built for arm64 and arm/v7, which reorder them.                    *)
(*                                                                         *)
(* A load is one step here: what a reader gets that is interrupted between *)
(* the two words, it also gets from a field that is half stored.           *)
(***************************************************************************)
CONSTANTS
  Field,  \* the names of the fields
  Half,   \* the words of a string, "len" and "ptr", or "len" for both
  Empty,  \* the empty string
  Torn    \* a length and a pointer of two different strings

VARIABLE mem

Word == Field \X Half

Init == mem = [w \in Word |-> Empty]

(* The stores of the assignments of a record of fields, still to be made.  *)
Assign(r) == {<<<<f, h>>, r[f]>> : f \in DOMAIN r, h \in Half}

Store(s) == mem' = [mem EXCEPT ![s[1]] = s[2]]

(* What a reader gets.  The pointer of a string of length 0 is not used.   *)
Load(f) ==
  IF mem[<<f, "len">>] \in {Empty, mem[<<f, "ptr">>]} THEN mem[<<f, "len">>] ELSE Torn

(* Reading a string with a length but no memory behind it is a fault.      *)
Dangling(f) == mem[<<f, "len">>] # Empty /\ mem[<<f, "ptr">>] = Empty

(* The fields of r have the values of r, in both words.                    *)
Holds(r) == \A f \in DOMAIN r, h \in Half : mem[<<f, h>>] = r[f]
=============================================================================
