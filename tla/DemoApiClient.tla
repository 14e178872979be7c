----------------------------- MODULE DemoApiClient -----------------------------
(***************************************************************************)
(* The workflows of a pull request composed with the controller: each      *)
(* delivery is one run of .github/scripts/demo_api.py, which sends the     *)
(* request once and then polls the demo's status until it may stop.        *)
(*                                                                         *)
(* The deploy and the clean-up workflow of a pull request share a          *)
(* concurrency group with cancel-in-progress: a new run ends the one in    *)
(* progress, whose request may be on its way and still arrive, later than  *)
(* the new one's.                                                          *)
(*                                                                         *)
(* Simplified: what ends a run without an answer (429, a connection error, *)
(* the client's own time-out) may happen at any poll.  Requests are well   *)
(* formed and signed, and delivery identifiers are fresh, as the workflows *)
(* make them.                                                              *)
(***************************************************************************)
EXTENDS DemoProperties

ASSUME FreshIdAssumption == \A q, r \in Delivery : q.id = r.id => q = r

VARIABLES
    run,       \* where the run of each delivery is
    inFlight,  \* requests sent and neither processed nor lost
    latest     \* history: the request accepted last for each demo, and when

clientVars == <<run, inFlight, latest>>
clientAndVars == <<vars, clientVars>>

RunState == {"queued", "sending", "polling", "succeeded", "failed", "cancelled"}

ClientInit ==
    /\ Init
    /\ run = [q \in Delivery |-> "queued"]
    /\ inFlight = {}
    /\ latest = [d \in Demo |-> [request |-> None, at |-> 0]]

\* Mutant: the workflows have no common concurrency group.
StartRunAlongside(q) ==
    /\ run[q] = "queued"
    /\ run' = [run EXCEPT ![q] = "sending"]
    /\ inFlight' = inFlight \cup {q}
    /\ UNCHANGED <<vars, latest>>

\* A run starts, cancels the one in progress and sends its request.
StartRun(q) ==
    /\ run[q] = "queued"
    /\ run' = [r \in Delivery |->
                  IF r = q THEN "sending"
                  ELSE IF r.demo = q.demo /\ run[r] \in {"sending", "polling"} THEN "cancelled"
                  ELSE run[r]]
    /\ inFlight' = inFlight \cup {q}
    /\ UNCHANGED <<vars, latest>>

\* The controller accepts the request; its 202 reaches the client or not.
Accepted(q) ==
    /\ q \in inFlight
    /\ Deploy(q) \/ Destroy(q)
    /\ inFlight' = inFlight \ {q}
    /\ latest' = [latest EXCEPT ![q.demo] = [request |-> q, at |-> now]]
    /\ IF run[q] = "sending"
       THEN \E outcome \in {"polling", "failed"} : run' = [run EXCEPT ![q] = outcome]
       ELSE UNCHANGED run

\* It is not processed: refused (429, 503), no connection, or cut off.
NotAccepted(q) ==
    /\ q \in inFlight
    /\ inFlight' = inFlight \ {q}
    /\ run' = [run EXCEPT ![q] = IF run[q] = "sending" THEN "failed" ELSE run[q]]
    /\ UNCHANGED <<vars, latest>>

\* Mutants: "ready" ends a destroy too; a 404 ends a deployment with success;
\* a 404 is never an answer.
VerdictReadyEnds(q) ==
    IF ~Exists(q.demo) THEN IF q.op = "destroy" THEN "succeeded" ELSE "failed"
    ELSE CASE demos[q.demo].state = "failed" -> "failed"
           [] demos[q.demo].state = "ready"  -> "succeeded"
           [] OTHER -> "polling"
VerdictGoneEnds(q) == IF ~Exists(q.demo) THEN "succeeded" ELSE VerdictReadyEnds(q)
VerdictNotFoundIsNothing(q) ==
    IF ~Exists(q.demo) \/ q.op = "destroy" THEN "polling" ELSE VerdictReadyEnds(q)

\* What poll() makes of an answer, a 404 when there is no row: the state, not
\* the delivery that led to it, decides.
Verdict(q) ==
    IF ~Exists(q.demo) THEN IF q.op = "destroy" THEN "succeeded" ELSE "failed"
    ELSE CASE demos[q.demo].state = "failed" -> "failed"
           [] demos[q.demo].state = "ready" /\ q.op = "deploy" -> "succeeded"
           [] OTHER -> "polling"

\* One status request that ends the run; the others change nothing.
Poll(q) ==
    /\ run[q] = "polling"
    /\ Serving
    /\ Verdict(q) # "polling"
    /\ run' = [run EXCEPT ![q] = Verdict(q)]
    /\ UNCHANGED <<vars, inFlight, latest>>

\* An error of the status request, or the client's time-out, ends the run.
PollFails(q) ==
    /\ run[q] = "polling"
    /\ run' = [run EXCEPT ![q] = "failed"]
    /\ UNCHANGED <<vars, inFlight, latest>>

ControllerStep ==
    /\ LoopStep \/ Disturbance \/ TimePasses \/ \E d \in Demo : BecomesAvailable(d)
    /\ UNCHANGED clientVars

ClientNext ==
    \/ \E q \in Delivery :
          \/ StartRun(q)
          \/ Accepted(q)
          \/ NotAccepted(q)
          \/ Poll(q)
          \/ PollFails(q)
    \/ ControllerStep

\* Nothing of the client is fair: whether it starts, polls or gives up is its
\* own affair.
ClientSpec == ClientInit /\ [][ClientNext]_clientAndVars /\ Fairness

-----------------------------------------------------------------------------
(* What the two workflows tell the pull request. *)

\* A run polls only after its request was accepted, at most one run of a
\* demo is active, and what is in flight belongs to a run not yet answered.
RunsInOrder ==
    /\ run \in [Delivery -> RunState]
    /\ \A q \in Delivery : run[q] \in {"polling", "succeeded"} => q.id \in received
    /\ \A q \in inFlight : run[q] \in {"sending", "cancelled"} /\ q.id \notin received
    /\ \A q, r \in Delivery :
          q.demo = r.demo /\ run[q] \in {"sending", "polling"}
                          /\ run[r] \in {"sending", "polling"} => q = r

\* "The controller reports that demo resources were removed"
\* (demo-cleanup.yaml): after a clean-up run has ended well nothing is left of
\* the demo, until another request is accepted.  The 404 it ends on says no
\* more than that there is no row.
GoneStaysGone ==
    \A q \in Delivery :
        q.op = "destroy" /\ run[q] = "succeeded" /\ latest[q.demo].request = q =>
            ~Exists(q.demo) /\ cluster[q.demo] = Nothing

\* A deploy run has ended well, its demo lives and nothing else was asked for since.
Served(q) ==
    /\ q.op = "deploy" /\ run[q] = "succeeded"
    /\ latest[q.demo].request = q /\ now < latest[q.demo].at + Lifetime

\* "The controller reports that the demo is ready" (demo-deploy.yaml): after a
\* deploy run has ended well its demo stays deployed and routed for its
\* lifetime, unless another request is accepted: through failures of later
\* passes and restarts, and although the answer may have been about an older
\* delivery's objects.
ServedStaysServed ==
    \A q \in Delivery :
        Served(q) => /\ Exists(q.demo) /\ demos[q.demo].delivery = q.id
                     /\ Routable(q.demo)
                     /\ cluster[q.demo].deployment # None

\* However often a run polls, it need not rely on its time-out: the
\* controller offers an answer that ends it again and again.  A clean-up
\* overtaken by a late deployment is the exception: the demo is there.
AnswerOffered ==
    \A q \in Delivery :
        []<>(run[q] = "polling" =>
                \/ Verdict(q) # "polling"
                \/ q.op = "destroy" /\ latest[q.demo].request # q)

-----------------------------------------------------------------------------
(* The inductive invariant behind the three safety properties. *)

\* A request is sent once.
SentOnce ==
    /\ inFlight \subseteq Delivery
    /\ latest \in [Demo -> [request : Delivery \cup {None}, at : Int]]
    /\ \A q \in Delivery : run[q] = "queued" => q.id \notin received

\* While there is a row it holds the request that was accepted last.
LatestIsHeld ==
    \A q \in Delivery :
        LET row == demos[q.demo] IN
        q.id \in received /\ latest[q.demo].request = q /\ Exists(q.demo) =>
            /\ row.delivery = q.id
            /\ row.present = (q.op = "deploy")
            /\ q.op = "deploy" => row.expires = latest[q.demo].at + Lifetime

\* What the loop has still to do for a demo reported ready, it does for the
\* row's own request: a record listed before the request is done with by then.
ReadyIsListed ==
    \A d \in Demo :
        Exists(d) /\ demos[d].state = "ready" /\ queue[d] # NoRow =>
            queue[d].rev = demos[d].rev

\* The loop has not listed a demo it has been asked to serve as withdrawn.
ServedIsListed ==
    \A q \in Delivery :
        Served(q) /\ queue[q.demo] # NoRow =>
            queue[q.demo].present /\ queue[q.demo].expires = latest[q.demo].at + Lifetime

\* The inductive invariant: each part needs the others, and what the core keeps
\* of the rows and the listed records, to survive a step of the loop.
ClientInv ==
    /\ RunsInOrder
    /\ SentOnce
    /\ LatestIsHeld
    /\ ReadyIsListed
    /\ GoneStaysGone
    /\ ServedStaysServed
    /\ ServedIsListed
=============================================================================
