------------------------------ MODULE PowerButton ------------------------------
(***************************************************************************)
(* What the Not-Aus button promises everybody at the login page: there is  *)
(* a button, with one password, or there is none; a submitted password is  *)
(* turned away during a cooldown or judged at one instant between its call *)
(* and its answer, by the button of that very instant; and the machine is  *)
(* switched off only by a caller that was authorised so and has not left.  *)
(* Module NotAus implements this with a file that is read after a delay, a *)
(* comparison later still, and a goroutine that outlives the request.      *)
(***************************************************************************)

CONSTANTS
  Callers,
  Passwords,     \* passwords a button may have
  Guesses,       \* what callers may submit
  Nothing        \* no button; nothing submitted

VARIABLES
  button,        \* its password, or Nothing
  tried,         \* what each caller has submitted
  judged,        \* "none", "asked", or the verdict
  machine        \* "on" or "off"

Verdict(g) ==
  IF button = Nothing THEN "not_armed" ELSE IF g = button THEN "authorized" ELSE "wrong"

Init ==
  /\ button = Nothing
  /\ tried = [c \in Callers |-> Nothing]
  /\ judged = [c \in Callers |-> "none"]
  /\ machine = "on"

Configure ==
  /\ button' \in Passwords \cup {Nothing}
  /\ UNCHANGED <<tried, judged, machine>>

Ask(c) ==
  /\ judged[c] = "none"
  /\ \E g \in Guesses : tried' = [tried EXCEPT ![c] = g]
  /\ judged' = [judged EXCEPT ![c] = "asked"]
  /\ UNCHANGED <<button, machine>>

TurnAway(c) ==
  /\ judged[c] = "asked"
  /\ judged' = [judged EXCEPT ![c] = "locked"]
  /\ UNCHANGED <<button, tried, machine>>

Judge(c) ==
  /\ judged[c] = "asked"
  /\ judged' = [judged EXCEPT ![c] = Verdict(tried[c])]
  /\ UNCHANGED <<button, tried, machine>>

(* A caller has its answer, or nothing came of an authorised one.          *)
Leave(c) ==
  /\ judged[c] \notin {"none", "asked"}
  /\ tried' = [tried EXCEPT ![c] = Nothing]
  /\ judged' = [judged EXCEPT ![c] = "none"]
  /\ UNCHANGED <<button, machine>>

(* The daemon stops, with or without the machine.                          *)
Forget ==
  /\ tried' = [c \in Callers |-> Nothing]
  /\ judged' = [c \in Callers |-> "none"]
  /\ UNCHANGED button

Stop == Forget /\ UNCHANGED machine
PowerOff(c) == judged[c] = "authorized" /\ machine' = "off" /\ Forget
PowerOn == machine' = "on" /\ UNCHANGED <<button, tried, judged>>

Next ==
  \/ \E c \in Callers : Ask(c) \/ TurnAway(c) \/ Judge(c) \/ Leave(c) \/ PowerOff(c)
  \/ Configure \/ Stop \/ PowerOn

Spec == Init /\ [][Next]_<<button, tried, judged, machine>>
================================================================================
