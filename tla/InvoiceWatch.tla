----------------------------- MODULE InvoiceWatch -----------------------------
(***************************************************************************)
(* Waiting for a Blink invoice on a WebSocket: on_status_change over       *)
(* iter_statuses.  Nothing in the repository calls it; a caller passes the *)
(* statuses it wants to stop on, or none, and calls for nothing else while *)
(* it waits.                                                               *)
(***************************************************************************)
EXTENDS Clients

CONSTANTS
    Watchers,   \* callers that may watch an invoice, once (bound)
    MaxFrames   \* bound: frames on a socket that were not read yet

ASSUME WatchAssumption ==
    /\ Watchers \subseteq Callers
    /\ MaxFrames \in Nat
    /\ None \notin OrderStates

VARIABLES
    watch,      \* the invoice a watcher waits for
    stopOn,     \* the statuses it wants to stop on
    stage,      \* whether it waits, or how that ended
    frames,     \* what the socket holds
    verdict     \* the status it stopped on

watchVars == <<watch, stopOn, stage, frames, verdict>>

\* "returned": on_status_change came back; "failed": it raised.
Stages == {"idle", "listening", "returned", "failed"}

\* Frames of type "next" stand for the status they carry, "none" for no status.
Frames == {"connection_ack", "ping", "complete", "error"} \cup OrderStates

\* stop_on defaults to (); the docstring passes both ends of an invoice.
StopSets == {{}, {"PAID", "EXPIRED"}}

WatchTypeOK ==
    /\ watch \in [Watchers -> Invoices \cup {None}]
    /\ stopOn \in [Watchers -> StopSets]
    /\ stage \in [Watchers -> Stages]
    /\ frames \in [Watchers -> Seq(Frames)]
    /\ verdict \in [Watchers -> OrderStates \cup {None}]

WatchInit ==
    /\ watch = [w \in Watchers |-> None]
    /\ stopOn = [w \in Watchers |-> {}]
    /\ stage = [w \in Watchers |-> "idle"]
    /\ frames = [w \in Watchers |-> <<>>]
    /\ verdict = [w \in Watchers |-> None]

-------------------------------------------------------------------------------

\* A slip: on_status_change returns after the first status, whatever it is.
AnyStatus(w, s) == s \in OrderStates

\* status in stops: statuses as Blink spells them.
Stops(w, s) == s \in stopOn[w]

\* Frames iter_statuses answers or skips.
Skipped(f) == f \in {"connection_ack", "ping"}

\* Frames for which parse_status_message has a status.
Status(f) == f \in OrderStates \ {"none"}

-------------------------------------------------------------------------------
(* The watcher *)

Listens(w) == stage[w] = "listening"

\* on_status_change blocks the thread that waits.
Waits(c) == c \in Watchers /\ Listens(c)

\* A caller between two calls waits for i, or fails to.
Watch(w, i, to) ==
    /\ ~Busy(w)
    /\ stage[w] = "idle"
    /\ state[i] # "none"
    /\ watch' = [watch EXCEPT ![w] = i]
    /\ \E stops \in StopSets : stopOn' = [stopOn EXCEPT ![w] = stops]
    /\ stage' = [stage EXCEPT ![w] = to]
    /\ call' = [call EXCEPT ![w] = None]
    /\ UNCHANGED <<verdict, configured, state, adrift, calls>>

\* connect and subscribe; Blink may answer with the status of the moment.
Subscribe(w, i) ==
    /\ Watch(w, i, "listening")
    /\ \E first \in {<<>>, <<state[i]>>} :
         frames' = [frames EXCEPT ![w] = <<"connection_ack">> \o first]

\* No websockets package, a refused handshake, no network: an error for the caller.
CannotSubscribe(w, i) ==
    /\ Watch(w, i, "failed")
    /\ UNCHANGED frames

Read(w) == frames' = [frames EXCEPT ![w] = Tail(@)]

\* The socket is closed, with what it holds.
Leave(w, to) ==
    /\ stage' = [stage EXCEPT ![w] = to]
    /\ frames' = [frames EXCEPT ![w] = <<>>]
    /\ UNCHANGED <<watch, stopOn>>

\* A control frame, or a status for which the callback is called and no more.
HearOn(w) ==
    /\ Listens(w) /\ frames[w] # <<>>
    /\ LET f == Head(frames[w]) IN Skipped(f) \/ (Status(f) /\ ~Stops(w, f))
    /\ Read(w)
    /\ UNCHANGED <<watch, stopOn, stage, verdict>>

\* on_status_change returns: its caller has seen the status by the callback.
HearEnd(w) ==
    /\ Listens(w) /\ frames[w] # <<>>
    /\ LET f == Head(frames[w]) IN
         /\ Status(f) /\ Stops(w, f)
         /\ verdict' = [verdict EXCEPT ![w] = f]
    /\ Leave(w, "returned")

\* parse_status_message raises for everything else, "complete" included.
HearError(w) ==
    /\ Listens(w) /\ frames[w] # <<>>
    /\ LET f == Head(frames[w]) IN ~Skipped(f) /\ ~Status(f)
    /\ Leave(w, "failed")
    /\ UNCHANGED verdict

\* The connection breaks: an error of websockets, or BlinkTimeoutError; what was
\* on the way may be lost.
ConnectionBreaks(w) ==
    /\ Listens(w)
    /\ Leave(w, "failed")
    /\ UNCHANGED verdict

\* Blink closes the socket in order: the loop over it ends after the frames it
\* still held, and on_status_change comes back as if it had stopped.
ConnectionCloses(w) ==
    /\ Listens(w) /\ frames[w] = <<>>
    /\ Leave(w, "returned")
    /\ UNCHANGED verdict

\* External: what else Blink may send, the status of the moment once more or a
\* frame without one.
SendFrame(w) ==
    /\ Listens(w)
    /\ Len(frames[w]) < MaxFrames
    /\ \E f \in {"ping", "complete", "error", "none", state[watch[w]]} :
         frames' = [frames EXCEPT ![w] = Append(@, f)]
    /\ UNCHANGED <<watch, stopOn, stage, verdict>>

\* External: Blink tells every listener of an invoice of its change to s.
Announce(o, s) ==
    /\ frames' = [w \in Watchers |->
                     IF Listens(w) /\ watch[w] = o /\ s # state[o]
                     THEN Append(frames[w], s) ELSE frames[w]]
    /\ UNCHANGED <<watch, stopOn, stage, verdict>>

-------------------------------------------------------------------------------
(* Properties *)

\* What a watcher stopped on, told to stop on an end, is the end the invoice
\* has come to, for ever, however many frames were on their way
\* (on_status_change, parse_status_message).
VerdictIsFinal ==
    \A w \in Watchers :
        verdict[w] # None => Ended(state[watch[w]], InvoiceStatus(verdict[w]))

===============================================================================
