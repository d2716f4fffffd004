------------------------------- MODULE Drift -------------------------------
(***************************************************************************)
(* The drift detector (coordinator/drift.go) over the replicated store.    *)
(* The API's stream consumer stores the commits and tickets that the       *)
(* workers publish, in any order and again and again; a detector lists the *)
(* commits, then the tickets, and stores an alert for every commit that    *)
(* mentions no ticket and every stale ticket that no commit mentions.      *)
(* Losing the leadership cancels it in the middle of a pass.               *)
(*                                                                          *)
(* A ticket stays in progress.  Version and CreatedAt of a fact are read    *)
(* from the clock at the same moment (badger.go:35-36): ver stands for both. *)
(***************************************************************************)
EXTENDS ReplicatedStore

CONSTANTS
  Commits,     \* the keys "github.commit:..."
  Tickets,     \* the keys "linear.ticket:..."
  AlertOf,     \* [Commits \cup Tickets -> Keys]: the key of the alert on a fact
  Api,         \* the stream consumer
  Detectors,   \* the clients that run a Detector
  StaleAfter,  \* staleAfter, far more than the time of a pass
  MaxAges,     \* bound: how often staleAfter passes
  MaxPasses    \* bound: calls of detect

ASSUME DriftAssumption ==
  /\ Commits \cap Tickets = {} /\ Commits \cup Tickets \subseteq Keys
  /\ AlertOf \in [Commits \cup Tickets -> Keys \ (Commits \cup Tickets)]
  /\ Detectors \subseteq Clients /\ Api \in Clients \ Detectors
  /\ WritesTo[Api] = Commits \cup Tickets
  /\ \A d \in Detectors : WritesTo[d] = {AlertOf[x] : x \in Commits \cup Tickets}
  /\ MaxWrites > 0
  /\ StaleAfter \in Nat /\ MaxAges \in Nat /\ MaxPasses \in Nat

VARIABLES
  mentions,   \* the tickets whose ID occurs in a commit's message
  pass,       \* where every detector is in detect
  cancelled,  \* the detectors whose context is cancelled
  ages, passes,  \* the bounded events that happened so far
  early,      \* history: commits that were set before a ticket they mention
              \* was acknowledged
  old         \* history: tickets acknowledged at least staleAfter ago

driftVars == <<mentions, pass, cancelled, ages, passes, early, old>>
dvars     == <<vars, driftVars>>

(* at: "waiting" for the ticker, listing "commits" or "tickets", "raising"  *)
(* alerts.  found: the facts listed; todo: the facts to raise an alert on;  *)
(* known: the commits that were acknowledged before the pass; clean: the    *)
(* pass was not cancelled; begun: the time at which such a pass began.       *)
NoPass == [at |-> "waiting", found |-> [k \in Keys |-> NoFact], todo |-> {},
           known |-> {}, begun |-> 0, clean |-> FALSE]

Pass == [at : {"waiting", "commits", "tickets", "raising"}, found : [Keys -> Fact],
         todo : SUBSET (Commits \cup Tickets), known : SUBSET Commits, begun : Nat,
         clean : BOOLEAN]

DTypeOK ==
  /\ mentions \in [Commits -> SUBSET Tickets]
  /\ pass \in [Detectors -> Pass]
  /\ \A d \in Detectors : pass[d].at \in {"commits", "tickets"} => op[d].kind = "list"
  /\ \A d \in Detectors : pass[d].at = "waiting" => op[d] = Idle
  /\ cancelled \subseteq Detectors
  /\ ages \in 0..MaxAges /\ passes \in 0..MaxPasses
  /\ early \subseteq Commits /\ old \subseteq Tickets

DInit ==
  /\ Init
  /\ mentions \in [Commits -> SUBSET Tickets]
  /\ pass = [d \in Detectors |-> NoPass]
  /\ cancelled = {}
  /\ ages = 0 /\ passes = 0
  /\ early = {} /\ old = {}

-----------------------------------------------------------------------------
(* Ingestion: the workers' events reach the stream consumer in any order,   *)
(* and it calls Set for each, whatever became of the last one               *)

(* Commits and tickets are published at every poll, changed or not.         *)
StoreCommit ==
  /\ SetBegin(Api)
  /\ LET c == op'[Api].key IN
       /\ c \in Commits
       /\ early' = IF \A t \in mentions[c] : acked[t] = 0 THEN early \cup {c} ELSE early
  /\ UNCHANGED <<mentions, pass, cancelled, ages, passes, old>>

StoreTicket ==
  /\ SetBegin(Api)
  /\ op'[Api].key \in Tickets
  /\ UNCHANGED driftVars

ApiStep ==
  /\ SetAsks(Api) \/ SetReturns(Api)
  /\ UNCHANGED driftVars

-----------------------------------------------------------------------------
(* The detector *)

(* Faulty variant: the tickets are listed before the commits.               *)
ListedFirst_Tickets == Tickets

ListedFirst == Commits
ListedNext  == (Commits \cup Tickets) \ ListedFirst

NodesOnly == UNCHANGED <<disk, clock, up, writes, acked, late, counters>>

(* detect is called when the detector starts, and every two minutes.        *)
DetectBegin(d) ==
  /\ pass[d].at = "waiting" /\ d \notin cancelled
  /\ passes < MaxPasses
  /\ passes' = passes + 1
  /\ Begin(d, ListCall(ListedFirst))
  /\ pass' = [pass EXCEPT ![d] =
                [NoPass EXCEPT !.at = "commits", !.clean = TRUE, !.begun = clock,
                               !.known = {c \in Commits : acked[c] # 0}]]
  /\ NodesOnly
  /\ UNCHANGED <<mentions, cancelled, ages, early, old>>

Listed(d, at) == pass[d].at = at /\ op[d].todo = {}

(* A node that did not answer is passed over; List returns no error.        *)
CommitsListed(d) ==
  /\ Listed(d, "commits")
  /\ op' = [op EXCEPT ![d] = ListCall(ListedNext)]
  /\ pass' = [pass EXCEPT ![d].at = "tickets", ![d].found = op[d].found]
  /\ NodesOnly
  /\ UNCHANGED <<mentions, cancelled, ages, passes, early, old>>

Found(found, K) == {k \in K : found[k] # NoFact}

(* Faulty variant: an ID that no ticket has counts as a mention.            *)
Untracked_AnyMention(found) == {c \in Found(found, Commits) : mentions[c] = {}}

(* Pattern 1: commits that mention none of the tickets found.               *)
Untracked(found) ==
  {c \in Found(found, Commits) : mentions[c] \cap Found(found, Tickets) = {}}

(* Faulty variant: a ticket that is just staleAfter old is not reported.    *)
Stale_Older(found) ==
  {t \in Found(found, Tickets) :
     /\ clock - found[t].ver > StaleAfter
     /\ \A c \in Found(found, Commits) : t \notin mentions[c]}

(* Pattern 2: old tickets that none of the commits found mentions.          *)
Stale(found) ==
  {t \in Found(found, Tickets) :
     /\ clock - found[t].ver >= StaleAfter
     /\ \A c \in Found(found, Commits) : t \notin mentions[c]}

TicketsListed(d) ==
  /\ Listed(d, "tickets")
  /\ op' = [op EXCEPT ![d] = Idle]
  /\ LET found == [k \in Keys |-> IF k \in ListedNext THEN op[d].found[k]
                                                      ELSE pass[d].found[k]]
     IN  pass' = [pass EXCEPT ![d].at = "raising", ![d].found = NoPass.found,
                              ![d].todo = Untracked(found) \cup Stale(found)]
  /\ NodesOnly
  /\ UNCHANGED <<mentions, cancelled, ages, passes, early, old>>

(* Alerts are raised one by one, those on commits first.  All alerts are    *)
(* fact 1: they differ in DetectedAt only.                                  *)
RaiseBegin(d) ==
  /\ pass[d].at = "raising"
  /\ \E x \in pass[d].todo :
       /\ x \in Commits \/ pass[d].todo \cap Commits = {}
       /\ Begin(d, Call("set", AlertOf[x], 1, Targets(AlertOf[x])))
       /\ pass' = [pass EXCEPT ![d].todo = @ \ {x}]
  /\ NodesOnly
  /\ UNCHANGED <<mentions, cancelled, ages, passes, early, old>>

(* raise only prints that Set failed.                                       *)
RaiseReturns(d) ==
  /\ pass[d].at = "raising"
  /\ SetReturns(d)
  /\ UNCHANGED driftVars

(* Faulty variant: the last alert is left to itself.                        *)
DetectEnds_WithoutWaiting(d) ==
  /\ pass[d].at = "raising" /\ pass[d].todo = {}
  /\ pass' = [pass EXCEPT ![d].at = "waiting"]
  /\ UNCHANGED <<vars, mentions, cancelled, ages, passes, early, old>>

DetectEnds(d) ==
  /\ pass[d].at = "raising" /\ pass[d].todo = {} /\ op[d] = Idle
  /\ pass' = [pass EXCEPT ![d].at = "waiting"]
  /\ UNCHANGED <<vars, mentions, cancelled, ages, passes, early, old>>

(* Its requests to the nodes.                                               *)
DetectorAsks(d) ==
  /\ d \notin cancelled
  /\ SetAsks(d) \/ ListAsks(d)
  /\ UNCHANGED driftVars

(* The process lost the leadership or was told to stop.  (A detector that   *)
(* waits reaches no node any more.)                                         *)
Cancel(d) ==
  /\ d \notin cancelled /\ pass[d].at # "waiting"
  /\ cancelled' = cancelled \cup {d}
  /\ pass' = [pass EXCEPT ![d].clean = FALSE, ![d].begun = 0]
  /\ UNCHANGED <<vars, mentions, ages, passes, early, old>>

(* With a cancelled context requests fail before they are sent; detect goes *)
(* on with what it has.                                                     *)
FailsUnsent(d) ==
  /\ d \in cancelled
  /\ op[d] # Idle /\ op[d].todo # {}
  /\ op' = [op EXCEPT ![d].todo = {}, ![d].missed = TRUE,
                      ![d].errs = IF op[d].kind = "set" THEN @ + Cardinality(op[d].todo)
                                                        ELSE @]
  /\ NodesOnly
  /\ UNCHANGED driftVars

(* Run has returned, and the next leader starts a detector.                 *)
NextDetector(d) ==
  /\ d \in cancelled /\ pass[d].at = "waiting"
  /\ cancelled' = cancelled \ {d}
  /\ pass' = [pass EXCEPT ![d] = NoPass]
  /\ UNCHANGED <<vars, mentions, ages, passes, early, old>>

-----------------------------------------------------------------------------

(* staleAfter passes while nothing goes on.                                 *)
Age ==
  /\ ages < MaxAges
  /\ ages' = ages + 1
  /\ late = {} /\ \A c \in Clients : op[c] = Idle
  /\ \A d \in Detectors : pass[d].at = "waiting"
  /\ clock' = clock + StaleAfter
  /\ old' = old \cup {t \in Tickets : acked[t] # 0}
  /\ pass' = [d \in Detectors |-> NoPass]
  /\ UNCHANGED <<disk, up, op, writes, acked, late, counters>>
  /\ UNCHANGED <<mentions, cancelled, passes, early>>

NodeStep ==
  /\ ArriveLate \/ \E n \in Nodes : NodeCrash(n) \/ NodeRestart(n)
  /\ UNCHANGED driftVars

Detect(d) ==
  \/ DetectBegin(d) \/ CommitsListed(d) \/ TicketsListed(d)
  \/ RaiseBegin(d) \/ RaiseReturns(d) \/ DetectEnds(d)
  \/ DetectorAsks(d) \/ Cancel(d) \/ FailsUnsent(d) \/ NextDetector(d)

DNext ==
  \/ StoreCommit \/ StoreTicket \/ ApiStep
  \/ \E d \in Detectors : Detect(d)
  \/ Age
  \/ NodeStep

DSpec == DInit /\ [][DNext]_dvars

-----------------------------------------------------------------------------

AlertStored(x) == \E n \in Targets(AlertOf[x]) : disk[n][AlertOf[x]] # NoFact

(* A node crashed, a request failed or was applied late, but once only.      *)
OneFailure == crashes + faults + lates <= 1

(* A commit that was stored after a ticket it mentions was acknowledged is  *)
(* never reported as untracked, however the detector's lists overlap with   *)
(* what is being stored, though one failure may leave a fact on one node or  *)
(* a node out of a list, and although a detector that is cancelled goes on   *)
(* with empty lists: commits are listed before tickets (drift.go:42-43), and *)
(* a cancelled detector cannot store.                                        *)
NoFalseAlarm ==
  OneFailure => \A c \in Commits \ early : ~AlertStored(c)

(* The last pass ended, and was not cancelled.                              *)
Cleared(d) == OneFailure /\ pass[d].at = "waiting" /\ pass[d].clean

(* After a clean pass every commit that was acknowledged before it, and that *)
(* mentions no ticket known to any node, has an alert (drift.go:54-79): one   *)
(* alert of several is not dropped, and nothing removes it later.             *)
UntrackedRaised ==
  \A d \in Detectors : Cleared(d) =>
    \A c \in pass[d].known :
      (\A t \in mentions[c], n \in Nodes : disk[n][t] = NoFact) => AlertStored(c)

Unmentioned(t) == \A c \in Commits : t \notin mentions[c]

(* Every copy of t that a node has was staleAfter old when the pass began.   *)
Silent(d, t) == \A n \in Nodes : disk[n][t].ver + StaleAfter <= pass[d].begun

(* A ticket that was acknowledged staleAfter ago, and that the nodes have no *)
(* copy of that was younger than that when the pass began, has an alert      *)
(* after a clean pass, though one of its nodes may have missed it, and       *)
(* whatever is stored in the meantime (drift.go:84-101).                     *)
SilentTicketsRaised ==
  \A d \in Detectors : Cleared(d) =>
    \A t \in old : Unmentioned(t) /\ Silent(d, t) => AlertStored(t)

(* "stale in-progress tickets (7+ days)" (README.md:118): a ticket that has  *)
(* been in progress for staleAfter, without a commit that mentions it, has   *)
(* an alert after a clean pass.                                              *)
StaleTicketsRaised ==
  \A d \in Detectors : Cleared(d) =>
    \A t \in old : Unmentioned(t) => AlertStored(t)
=============================================================================
