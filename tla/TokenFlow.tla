----------------------------- MODULE TokenFlow -----------------------------
(***************************************************************************)
(* What a command-line parser promises about the tokens it is given,       *)
(* whatever options and commands the application declares: they are read   *)
(* from left to right, each is given one role for good, the roles form a   *)
(* sentence of the grammar                                                 *)
(*                                                                         *)
(*    ( option [value] | command )*  [ refused ]                           *)
(*    ( positional | separator )*                                          *)
(*                                                                         *)
(* an option given too often is refused and ends the options, and a parse  *)
(* succeeds only once the whole line has been read.                        *)
(***************************************************************************)
EXTENDS Integers

VARIABLES
  size,     \* number of tokens on the line
  role,     \* position -> the role given to that token
  verdict   \* "running", "ok" or "error"

Role == {"option", "value", "command", "refused", "separator", "positional"}

WellFormed(r) ==
  /\ \A i \in DOMAIN r : r[i] = "value" => i > 1 /\ r[i - 1] = "option"
  /\ \A i, j \in DOMAIN r :
       i < j => /\ r[i] = "unread" => r[j] = "unread"
                /\ r[i] \in {"refused", "positional", "separator"} =>
                     r[j] \in {"positional", "separator", "unread"}

Init ==
  /\ size \in Nat
  /\ role = [i \in 1 .. size |-> "unread"]
  /\ verdict = "running"

Kept(r, s) == \A i \in DOMAIN r : r[i] # "unread" => s[i] = r[i]

(* One token is read between r and s, or an option and its value.          *)
OneMore(r, s) ==
  \E i \in DOMAIN r :
    \A j \in DOMAIN r :
      r[j] = "unread" /\ s[j] # "unread"
        <=> j = i \/ (j = i + 1 /\ s[i] = "option" /\ s[j] = "value")

Read ==
  /\ verdict = "running"
  /\ role' \in [1 .. size -> Role \cup {"unread"}]
  /\ WellFormed(role') /\ Kept(role, role') /\ OneMore(role, role')
  /\ verdict' \in {"running", "error"}
  /\ UNCHANGED size

Finish ==
  /\ verdict = "running"
  /\ \A i \in 1 .. size : role[i] # "unread"
  /\ verdict' = "ok"
  /\ UNCHANGED <<size, role>>

(* A parse may fail at any point, also in the step that reads a token.     *)
Fail ==
  /\ verdict = "running"
  /\ verdict' = "error"
  /\ UNCHANGED <<size, role>>

Next == Read \/ Finish \/ Fail

Spec == Init /\ [][Next]_<<size, role, verdict>>
=============================================================================
