----------------------------- MODULE NameValue -----------------------------
(***************************************************************************)
(* The parser of "name=value" lists.  The code has it four times: for the  *)
(* flags --static-host-label and --info-props (whose result is the metric  *)
(* info), for the lines of /etc/machine-labels and for Docker's labels.    *)
(* An entry is the sequence of its tokens, what strings.Split leaves       *)
(* between the "="; one that is not of two tokens is reported and skipped. *)
(***************************************************************************)
EXTENDS Integers, SequencesExt

CONSTANTS
  Name,   \* names that may occur
  Absent  \* no value

(* The loop: a map, or a set of attributes, written entry by entry.        *)
Parse(entries) ==
  FoldLeft(LAMBDA map, e :
             IF Len(e) = 2 THEN [map EXCEPT ![e[1]] = e[2]] ELSE map,
           [k \in Name |-> Absent], entries)

(* What it comes to: of the entries of two tokens, the last of each name.  *)
LastOfEachName(entries, map) ==
  \A k \in Name :
    LET its == {n \in DOMAIN entries : Len(entries[n]) = 2 /\ entries[n][1] = k}
    IN  IF its = {} THEN map[k] = Absent
        ELSE \E n \in its : map[k] = entries[n][2] /\ \A m \in its : m <= n
=============================================================================
