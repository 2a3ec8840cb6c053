------------------------------ MODULE DbfPorts ------------------------------
(***************************************************************************)
(* The ports of the deblocking filter, which has no slave_device below it: *)
(* request() takes a request, waits, performs it and leaves the response   *)
(* in one place, m_response, from which response() puts it when an event   *)
(* says so; an event is not remembered by a thread that is not waiting.    *)
(* The interconnect takes a response in a time of its own.                 *)
(*                                                                         *)
(* A request is the mask of the bytes it accesses, be.  Time passes, by a  *)
(* nanosecond, when nothing can happen without.                            *)
(***************************************************************************)
EXTENDS Integers, Sequences

CONSTANTS
    Masks,          \* values of be: runs of lanes 0 .. 7
    QueueSize,      \* of m_queue_responses of the interconnect's slave port
    MaxAsked        \* bound: requests on their way

ASSUME DbfPortsAssumption ==
    /\ \A be \in Masks : be # {} /\ \E i, j \in 0 .. 7 : be = i .. j
    /\ QueueSize \in Nat \ {0} /\ MaxAsked \in Nat

VARIABLES
    asked,          \* requests on their way, oldest first
    m_request,      \* the one request() is at, as a sequence of at most one
    reqWait,        \* nanoseconds it still waits
    m_response,
    evResponse,     \* m_ev_response is notified for the next delta cycle
    rspThread,      \* response(): "waiting" or at its "put"
    rspQueue,       \* m_queue_responses
    dispatched,     \* the response the dispatcher of the interconnect holds
    dispWait,
    owedRsps        \* masks of the requests not answered, oldest first

portVars == <<asked, m_request, reqWait, m_response, evResponse, rspThread, rspQueue,
              dispatched, dispWait, owedRsps>>

PortsInit ==
    /\ asked = <<>> /\ m_request = <<>> /\ reqWait = 0
    /\ m_response = {} /\ evResponse = FALSE /\ rspThread = "waiting"
    /\ rspQueue = <<>> /\ dispatched = <<>> /\ dispWait = 0 /\ owedRsps = <<>>

RequestDelay_None == 0
RequestDelay == 3
DispatchDelay == 1

\* get_offset: where the first run of lanes begins, and its length.
First(be) == CHOOSE i \in be : \A j \in be : i <= j
Run(be) == {i \in be : \A j \in First(be) .. i : j \in be}
-----------------------------------------------------------------------------
Ask(be) ==
    /\ Len(asked) < MaxAsked
    /\ asked' = Append(asked, be) /\ owedRsps' = Append(owedRsps, be)
    /\ UNCHANGED <<m_request, reqWait, m_response, evResponse, rspThread, rspQueue,
                   dispatched, dispWait>>

GetRequest ==
    /\ m_request = <<>> /\ asked # <<>>
    /\ m_request' = <<Head(asked)>> /\ asked' = Tail(asked)
    /\ reqWait' = RequestDelay
    /\ UNCHANGED <<m_response, evResponse, rspThread, rspQueue, dispatched, dispWait, owedRsps>>

\* handle_request: each lane of the run gets the byte at its address.
HandleRequest ==
    /\ m_request # <<>> /\ reqWait = 0
    /\ m_response' = Run(m_request[1])
    /\ evResponse' = TRUE
    /\ m_request' = <<>>
    /\ UNCHANGED <<asked, reqWait, rspThread, rspQueue, dispatched, dispWait, owedRsps>>

\* The delta cycle after.
NotifyResponse ==
    /\ evResponse
    /\ evResponse' = FALSE /\ rspThread' = "put"
    /\ UNCHANGED <<asked, m_request, reqWait, m_response, rspQueue, dispatched, dispWait, owedRsps>>

\* put is given a reference, and blocks on a full queue.
PutResponse ==
    /\ rspThread = "put" /\ Len(rspQueue) < QueueSize
    /\ rspQueue' = Append(rspQueue, m_response) /\ rspThread' = "waiting"
    /\ UNCHANGED <<asked, m_request, reqWait, m_response, evResponse, dispatched, dispWait, owedRsps>>

\* dispatch_responses_thread; the masters take their responses at once.
ReadResponse ==
    /\ dispatched = <<>> /\ rspQueue # <<>>
    /\ dispatched' = <<Head(rspQueue)>> /\ rspQueue' = Tail(rspQueue)
    /\ dispWait' = DispatchDelay
    /\ UNCHANGED <<asked, m_request, reqWait, m_response, evResponse, rspThread, owedRsps>>

AddResponse ==
    /\ dispatched # <<>> /\ dispWait = 0
    /\ dispatched' = <<>> /\ owedRsps' = Tail(owedRsps)
    /\ UNCHANGED <<asked, m_request, reqWait, m_response, evResponse, rspThread, rspQueue, dispWait>>

Ready ==
    \/ m_request = <<>> /\ asked # <<>>
    \/ m_request # <<>> /\ reqWait = 0
    \/ evResponse
    \/ rspThread = "put" /\ Len(rspQueue) < QueueSize
    \/ dispatched = <<>> /\ rspQueue # <<>>
    \/ dispatched # <<>> /\ dispWait = 0

Nanosecond ==
    /\ ~Ready /\ reqWait + dispWait > 0
    /\ reqWait' = IF reqWait = 0 THEN 0 ELSE reqWait - 1
    /\ dispWait' = IF dispWait = 0 THEN 0 ELSE dispWait - 1
    /\ UNCHANGED <<asked, m_request, m_response, evResponse, rspThread, rspQueue, dispatched, owedRsps>>

PortsNext ==
    \/ \E be \in Masks : Ask(be)
    \/ GetRequest \/ HandleRequest \/ NotifyResponse \/ PutResponse
    \/ ReadResponse \/ AddResponse \/ Nanosecond

PortsSpec == PortsInit /\ [][PortsNext]_portVars
-----------------------------------------------------------------------------
(* One place for the response and an event that may be missed: every request is
   answered once, in order, with its own lanes, because a request takes longer than
   the interconnect needs for a response. *)
ResponsesInOrder ==
    owedRsps = dispatched \o rspQueue
               \o (IF evResponse \/ rspThread = "put" THEN <<m_response>> ELSE <<>>)
               \o m_request \o asked
=============================================================================
