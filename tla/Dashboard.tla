----------------------------- MODULE Dashboard -----------------------------
(***************************************************************************)
(* The web page (web/app/page.tsx), the API server that answers it         *)
(* (api/server.go, api/query.go) and the in-memory store behind that       *)
(* (store/kv.go, an instance of KVStore).  The page polls at an interval,   *)
(* whether or not earlier polls were answered, and asks one question at a   *)
(* time; the consumer in the API process stores facts meanwhile; the API    *)
(* process ends and is started again, with an empty store.                  *)
(*                                                                          *)
(* The facts of a key are numbered in the order in which they are set.      *)
(***************************************************************************)
EXTENDS KVStore

CONSTANTS
  Consumer,   \* the stream consumer in the API process
  Polls,      \* fetches of usePolling that may be under way at one time
  MaxAsks,    \* bound: questions asked in the query panel
  MaxFaults,  \* bound: requests or responses lost on the way
  MaxStops    \* bound: times the API process ends

Asks    == 1..MaxAsks       \* the fetch of every question
Fetches == Polls \cup Asks

ASSUME DashboardAssumption ==
  /\ Vals \subseteq Nat \ {NoVal}
  /\ MaxAsks \in Nat
  /\ Polls \cap Asks = {} /\ Consumer \notin Fetches
  /\ Clients = Fetches \cup {Consumer}
  /\ MaxFaults \in Nat /\ MaxStops \in Nat

VARIABLES
  apiUp,     \* the API process runs
  fetches,   \* the requests of the page
  page,      \* data of usePolling: the facts shown, Nothing for null
  loading,   \* the query panel waits for an answer
  answer,    \* the question whose answer is shown, 0 if none
  asked,     \* the questions asked so far
  pageRun,   \* history: the run of the API process that page came from
  faults, stops   \* the bounded events that happened so far

pageVars == <<page, loading, answer, asked, pageRun>>
counters == <<faults, stops>>
dvars    == <<vars, apiUp, fetches, pageVars, counters>>

(* at: "sent", "handled" by a handler, "modelled" by the language model,     *)
(* "answered" or "failed".  facts: what the handler listed; base: what the   *)
(* page showed when the poll was sent; run, baseRun: the runs of the API     *)
(* process that facts and base came from.                                    *)
NoFetch == [at |-> "none", facts |-> Nothing, run |-> 0, base |-> Nothing, baseRun |-> 0]
Fetch   == [NoFetch EXCEPT !.at = "sent", !.base = page, !.baseRun = pageRun]
Failed  == [NoFetch EXCEPT !.at = "failed"]

Contents == [Keys -> Vals \cup {NoVal}]

DTypeOK ==
  /\ data \in Contents /\ page \in Contents
  /\ fetches \in [Fetches -> [at : {"none", "sent", "handled", "modelled", "answered", "failed"},
                              facts : Contents, base : Contents,
                              run : 0..stops, baseRun : 0..stops]]
  /\ \A f \in Fetches : fetches[f].at = "handled" <=> calls[f] # Idle
  /\ asked \in 0..MaxAsks /\ answer \in 0..asked
  /\ faults \in 0..MaxFaults /\ stops \in 0..MaxStops

DInit ==
  /\ Init
  /\ apiUp = TRUE
  /\ fetches = [f \in Fetches |-> NoFetch]
  /\ page = Nothing
  /\ loading = FALSE /\ answer = 0 /\ asked = 0
  /\ pageRun = 0
  /\ faults = 0 /\ stops = 0

-----------------------------------------------------------------------------
(* The API process *)

(* The handler of the consumer sets the next fact of a key.                 *)
Consume ==
  /\ apiUp
  /\ \/ \E k \in Keys, v \in Vals :
          /\ \A w \in Vals : w < v => w <= data[k]
          /\ v > data[k]
          /\ Begins(Consumer, Call("set", k, v))
     \/ Write(Consumer)
     \/ Return(Consumer)
  /\ UNCHANGED <<apiUp, fetches, pageVars, counters>>

(* handleListFacts, handleAlerts, handleQuery: List.                        *)
HandlerLists(f) ==
  /\ apiUp
  /\ \/ /\ fetches[f].at = "sent"
        /\ \E k \in Keys : Begins(f, Call("list", k, NoVal))
        /\ fetches' = [fetches EXCEPT ![f].at = "handled"]
     \/ /\ List(f)
        /\ UNCHANGED fetches
  /\ UNCHANGED <<apiUp, pageVars, counters>>

(* The facts are sent, or given to the language model with the question.    *)
HandlerResponds(f) ==
  /\ apiUp
  /\ calls[f] # Idle
  /\ Return(f)
  /\ fetches' = [fetches EXCEPT ![f].at = IF f \in Asks THEN "modelled" ELSE "answered",
                                ![f].facts = calls[f].result, ![f].run = stops]
  /\ UNCHANGED <<apiUp, pageVars, counters>>

(* callAnthropic returns: the answer, or an error that is answered with 500. *)
ModelAnswers(f) ==
  /\ fetches[f].at = "modelled"
  /\ \E answered \in {[fetches[f] EXCEPT !.at = "answered"], Failed} :
       fetches' = [fetches EXCEPT ![f] = answered]
  /\ UNCHANGED <<vars, apiUp, pageVars, counters>>

(* Faulty variant: requests go on although the process has ended.           *)
ApiEnds_RequestsGoOn ==
  /\ apiUp
  /\ stops < MaxStops
  /\ stops' = stops + 1
  /\ apiUp' = FALSE
  /\ data' = Nothing
  /\ UNCHANGED calls
  /\ Witness
  /\ fetches' = [f \in Fetches |->
       IF fetches[f].at \in {"handled", "modelled"} THEN Failed ELSE fetches[f]]
  /\ UNCHANGED <<pageVars, faults>>

(* A crash, or a signal: ListenAndServe returns when Shutdown begins, and    *)
(* main with it, so requests in handlers are not answered.  MemoryStore is   *)
(* gone, and the consumer group does not deliver its events again.           *)
ApiEnds ==
  /\ apiUp
  /\ stops < MaxStops
  /\ stops' = stops + 1
  /\ apiUp' = FALSE
  /\ data' = Nothing
  /\ calls' = [c \in Clients |-> Idle]
  /\ Witness
  /\ fetches' = [f \in Fetches |->
       IF fetches[f].at \in {"handled", "modelled"} THEN Failed ELSE fetches[f]]
  /\ UNCHANGED <<pageVars, faults>>

ApiStarts ==
  /\ ~apiUp
  /\ apiUp' = TRUE
  /\ UNCHANGED <<vars, fetches, pageVars, counters>>

(* The connection is refused, or a request or response is lost.             *)
RequestFails(f) ==
  /\ \/ /\ fetches[f].at = "sent" /\ ~apiUp
        /\ UNCHANGED faults
     \/ /\ fetches[f].at \in {"sent", "answered"}
        /\ faults < MaxFaults
        /\ faults' = faults + 1
  /\ fetches' = [fetches EXCEPT ![f] = Failed]
  /\ UNCHANGED <<vars, apiUp, pageVars, stops>>

-----------------------------------------------------------------------------
(* usePolling *)

(* Faulty variant: the interval is not set up.                              *)
PollSends_Once(f) ==
  /\ fetches[f].at = "none" /\ page = Nothing
  /\ fetches' = [fetches EXCEPT ![f] = Fetch]
  /\ UNCHANGED <<vars, apiUp, pageVars, counters>>

(* load, at once and at every interval.                                     *)
PollSends(f) ==
  /\ fetches[f].at = "none"
  /\ fetches' = [fetches EXCEPT ![f] = Fetch]
  /\ UNCHANGED <<vars, apiUp, pageVars, counters>>

(* setData, whichever poll it was; an error leaves the page as it is.       *)
PollEnds(f) ==
  /\ fetches[f].at \in {"answered", "failed"}
  /\ IF fetches[f].at = "answered"
       THEN page' = fetches[f].facts /\ pageRun' = fetches[f].run
       ELSE UNCHANGED <<page, pageRun>>
  /\ fetches' = [fetches EXCEPT ![f] = NoFetch]
  /\ UNCHANGED <<vars, apiUp, loading, answer, asked, counters>>

-----------------------------------------------------------------------------
(* QueryPanel *)

(* Faulty variant: a second question may be asked while loading.            *)
Ask_WhileLoading(f) ==
  /\ f = asked + 1
  /\ asked' = asked + 1
  /\ loading' = TRUE /\ answer' = 0
  /\ fetches' = [fetches EXCEPT ![f].at = "sent"]
  /\ UNCHANGED <<vars, apiUp, page, pageRun, counters>>

Ask(f) ==
  /\ f = asked + 1
  /\ ~loading
  /\ asked' = asked + 1
  /\ loading' = TRUE /\ answer' = 0
  /\ fetches' = [fetches EXCEPT ![f].at = "sent"]
  /\ UNCHANGED <<vars, apiUp, page, pageRun, counters>>

(* Faulty variant: setLoading(false) is not in the finally block.           *)
AskEnds_LoadingOnError(f) ==
  /\ fetches[f].at \in {"answered", "failed"}
  /\ loading' = (fetches[f].at = "failed")
  /\ answer' = IF fetches[f].at = "answered" THEN f ELSE answer
  /\ fetches' = [fetches EXCEPT ![f] = NoFetch]
  /\ UNCHANGED <<vars, apiUp, page, pageRun, asked, counters>>

(* The answer or an error is shown, and the panel is free again.            *)
AskEnds(f) ==
  /\ fetches[f].at \in {"answered", "failed"}
  /\ loading' = FALSE
  /\ answer' = IF fetches[f].at = "answered" THEN f ELSE answer
  /\ fetches' = [fetches EXCEPT ![f] = NoFetch]
  /\ UNCHANGED <<vars, apiUp, page, pageRun, asked, counters>>

-----------------------------------------------------------------------------

Respond(f) ==
  \/ HandlerLists(f) \/ HandlerResponds(f) \/ ModelAnswers(f) \/ RequestFails(f)
  \/ f \in Polls /\ PollEnds(f)
  \/ f \in Asks /\ AskEnds(f)

DNext ==
  \/ Consume \/ ApiEnds \/ ApiStarts
  \/ \E f \in Fetches : Respond(f)
  \/ \E f \in Polls : PollSends(f)
  \/ \E f \in Asks : Ask(f)

DSpec == DInit /\ [][DNext]_dvars

(* The page goes on polling, every request ends, and the language model     *)
(* answers or its connection ends.  Nothing starts the API again.           *)
DFairSpec ==
  /\ DSpec
  /\ \A f \in Fetches : WF_dvars(Respond(f))
  /\ \A f \in Polls : WF_dvars(PollSends(f))

-----------------------------------------------------------------------------

(* What a poll gets is never older than what the page showed when the poll   *)
(* was sent, unless it comes from a later run of the API: only polls that     *)
(* overlap take the page back in time (page.tsx:29-46).                       *)
ResponsesLookForward ==
  \A f \in Polls : fetches[f].at = "answered" =>
    \/ fetches[f].run > fetches[f].baseRun
    \/ /\ fetches[f].run = fetches[f].baseRun
       /\ \A k \in Keys : fetches[f].facts[k] >= fetches[f].base[k]

(* However polls overlap, fail or arrive out of order, and though the API may *)
(* end and be started again meanwhile, in the end the page shows what the      *)
(* store holds and goes on to show it, unless the API is left down             *)
(* (page.tsx:33, 40).                                                          *)
PageConverges == <>[]apiUp => <>[](page = data)

(* The answer on the page is the one to the last question: an earlier one    *)
(* that is late does not replace it (page.tsx:168).                          *)
AnswerIsForLastAsk == answer # 0 => answer = asked

(* The panel does not stay disabled, whether the API dies, the model fails or *)
(* responses are lost (page.tsx:184-188).                                     *)
PanelRecovers == loading ~> ~loading
=============================================================================
