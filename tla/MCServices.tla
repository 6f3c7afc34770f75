----------------------------- MODULE MCServices -----------------------------
(***************************************************************************)
(* A small instance of four services of the backend for TLC: the crawl of  *)
(* the history, the console's sign-in, the index of the vault and the      *)
(* session with Perpl.  They share no state: a behaviour is that of one of *)
(* them, its subject, with the others at rest, so that one run looks at    *)
(* all four and no product of their states is built.                       *)
(***************************************************************************)
EXTENDS HistorySync, ConsoleAuth, VaultIndex, PerplSession, TLC

VARIABLE subject

servicesVars == <<subject, historyVars, authVars, indexVars, sessionVars>>

ShortFeeds == "account-history" :> 3 @@ "fills" :> 1

ServicesInit ==
    /\ subject \in {"history", "auth", "index", "session"}
    /\ HistoryInit /\ AuthInit /\ IndexInit /\ SessionInit
    /\ ownerOf \notin Managers
    /\ subject # "index" => chain = 0
    /\ subject # "session" => ~lateClose

(* Bound: the vault changes hands once in a behaviour, from an owner that  *)
(* is no manager to any address.                                           *)
OneHandover == ownerOf' = ownerOf \/ \A a \in Addresses : lostAt[a] = 0

Of(name) ==
    /\ subject = name /\ UNCHANGED subject
    /\ name # "history" => UNCHANGED historyVars
    /\ name # "auth"    => UNCHANGED authVars
    /\ name # "index"   => UNCHANGED indexVars
    /\ name # "session" => UNCHANGED sessionVars

ServicesNext ==
    \/ HistoryNext /\ Of("history")
    \/ AuthNext    /\ Of("auth") /\ OneHandover
    \/ IndexNext   /\ Of("index")
    \/ SessionNext /\ Of("session")

(* The fairness of each service's own specification.                       *)
ServicesSpec ==
    /\ ServicesInit /\ [][ServicesNext]_servicesVars
    /\ WF_servicesVars(HistoryWork /\ Of("history"))
    /\ WF_servicesVars(IndexCall /\ Of("index"))
    /\ WF_servicesVars(IndexWork /\ Of("index"))
    /\ \A sn \in Orders : WF_servicesVars(AckTimeout(sn) /\ Of("session"))
=============================================================================
