-------------------------- MODULE Versanderlaubnis --------------------------
(***************************************************************************)
(* What the mail outbox promises, without rows, workers or time.           *)
(*                                                                         *)
(* Every delivery of a mail uses up one permit.  A permit is granted by    *)
(* queueing the mail, by an administrator who repeats it, and by an SMTP   *)
(* exchange that ended in an error after the server had already taken the  *)
(* mail over (the sender cannot tell that from a failure).  A permit may   *)
(* lapse, it is never multiplied: not by retries, not by several workers,  *)
(* not by a crash.                                                         *)
(***************************************************************************)
EXTENDS Naturals

CONSTANT Mails      \* the rows of mail_outbox

VARIABLES
  erteilt,          \* permits granted so far, per mail
  erlaubt,          \* permits not used and not lapsed, per mail
  zugestellt        \* deliveries made, per mail

TypeOK ==
  /\ erteilt \in [Mails -> Nat]
  /\ erlaubt \in [Mails -> Nat]
  /\ zugestellt \in [Mails -> Nat]

Init ==
  /\ erteilt = [m \in Mails |-> 0]
  /\ erlaubt = [m \in Mails |-> 0]
  /\ zugestellt = [m \in Mails |-> 0]

\* Queueing a mail or repeating one by hand.
Erteilen(m) ==
  /\ erteilt' = [erteilt EXCEPT ![m] = @ + 1]
  /\ erlaubt' = [erlaubt EXCEPT ![m] = @ + 1]
  /\ UNCHANGED zugestellt

\* A delivery that the sender knows of.
Zustellen(m) ==
  /\ erlaubt[m] > 0
  /\ erlaubt' = [erlaubt EXCEPT ![m] = @ - 1]
  /\ zugestellt' = [zugestellt EXCEPT ![m] = @ + 1]
  /\ UNCHANGED erteilt

\* A delivery that the sender takes for a failure: a new permit comes with it.
ZustellenUnklar(m) ==
  /\ erlaubt[m] > 0
  /\ erteilt' = [erteilt EXCEPT ![m] = @ + 1]
  /\ zugestellt' = [zugestellt EXCEPT ![m] = @ + 1]
  /\ UNCHANGED erlaubt

\* Permits lapse: final failures, crashes, results of overtaken attempts.
Verfallen ==
  /\ erlaubt' \in [Mails -> Nat]
  /\ \A m \in Mails : erlaubt'[m] <= erlaubt[m]
  /\ UNCHANGED <<erteilt, zugestellt>>

Next ==
  \/ \E m \in Mails : Erteilen(m) \/ Zustellen(m) \/ ZustellenUnklar(m)
  \/ Verfallen

vars == <<erteilt, erlaubt, zugestellt>>

Spec == Init /\ [][Next]_vars

(***************************************************************************)
(* No mail is delivered more often than it was ordered.                    *)
(***************************************************************************)
Konto == \A m \in Mails : zugestellt[m] + erlaubt[m] <= erteilt[m]
=============================================================================
