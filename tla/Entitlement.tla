----------------------------- MODULE Entitlement -----------------------------
(***************************************************************************)
(* What the site promises about a card subscription, without requests,     *)
(* rows or workers: who signed an agreement gets access, and loses it some *)
(* time after the agreement ended, for good.  Billing implements this.     *)
(***************************************************************************)
CONSTANTS
  Agreements,  \* the agreements a provider can sign
  Resumes      \* whether an ended agreement may be billed again

VARIABLES
  provider,  \* agreement -> "none", "running" or "ended"
  access,    \* agreement -> "never", "open" or "closed"
  due        \* agreements whose end the provider still has to report

entitlement == <<provider, access, due>>

EntitlementInit ==
  /\ provider = [a \in Agreements |-> "none"]
  /\ access = [a \in Agreements |-> "never"]
  /\ due = {}

Sign(a) ==
  /\ provider[a] = "none"
  /\ provider' = [provider EXCEPT ![a] = "running"]
  /\ UNCHANGED <<access, due>>

\* The first and only time an agreement opens the pages.
Grant(a) ==
  /\ access[a] = "never"
  /\ provider[a] = "running"
  /\ access' = [access EXCEPT ![a] = "open"]
  /\ UNCHANGED <<provider, due>>

End(a) ==
  /\ provider[a] = "running"
  /\ provider' = [provider EXCEPT ![a] = "ended"]
  /\ due' = due \cup {a}
  /\ UNCHANGED access

Resume(a) ==
  /\ Resumes
  /\ provider[a] = "ended"
  /\ provider' = [provider EXCEPT ![a] = "running"]
  /\ UNCHANGED <<access, due>>

\* The report of the end may come again after it was acted upon.
Report(a) ==
  /\ a \in due
  /\ access' = IF access[a] = "open" THEN [access EXCEPT ![a] = "closed"] ELSE access
  /\ due' \in {due, due \ {a}}
  /\ UNCHANGED provider

EntitlementNext ==
  \E a \in Agreements : Sign(a) \/ Grant(a) \/ End(a) \/ Resume(a) \/ Report(a)

EntitlementSpec == EntitlementInit /\ [][EntitlementNext]_entitlement

FairEntitlementSpec ==
  EntitlementSpec /\ \A a \in Agreements : WF_entitlement(Report(a))
=============================================================================
