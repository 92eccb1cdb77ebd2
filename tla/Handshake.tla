----------------------------- MODULE Handshake -----------------------------
(***************************************************************************)
(* A LAN handshake end to end: the SessionManager of a dialer and that of  *)
(* a listener, with every signal that one of them sent delivered late, any *)
(* number of times, in any order, or never.  The network needs no variable *)
(* of its own: a signal can arrive once its sender's session has sent it.  *)
(* Any aiortc call may raise, on either side.                              *)
(* ICE connects the dialer with the session whose answer it applied.       *)
(***************************************************************************)
EXTENDS SessionOps, FiniteSets

CONSTANTS Id,                   \* the connection id the dialer draws
          DSlot, LSlots,        \* Session objects, of dialer and listener
          DCoros, LCoros,       \* their coroutines
          DCandidates,          \* candidates the dialer trickles
          LCandidates,          \* candidates the listener trickles
          Errors,               \* codes a CONNECTERROR may carry
          MaxLoad,              \* bound: sessions of the listener and candidates it got;
                                \* a CONNECTERROR comes when there are fewer
          MaxPending, MaxParked, NoSlot

ASSUME HandshakeAssumption ==
    /\ DSlot \notin LSlots
    /\ DCandidates \cap LCandidates = {}
    /\ Candidates = DCandidates \cup LCandidates
    /\ MaxLoad \in Nat

VARIABLES dsessions, dcid, dregistry, dwaiting, dcoros, darrived, draised, dshutdown,
          lsessions, lcid, lregistry, lwaiting, lcoros, larrived, lraised, lshutdown,
          answer,       \* whose CONNECTRESPONSE the dialer acted upon
          smooth        \* history: no awaited aiortc call has raised

dialer == <<dsessions, dcid, dregistry, dwaiting, dcoros, darrived, draised, dshutdown>>
listener == <<lsessions, lcid, lregistry, lwaiting, lcoros, larrived, lraised, lshutdown>>
vars == <<dialer, listener, answer, smooth>>

D == INSTANCE SessionManager WITH
        Ids <- {Id}, Slots <- {DSlot}, Coros <- DCoros,
        sessions <- dsessions, cid <- dcid, registry <- dregistry,
        waiting <- dwaiting, coros <- dcoros, arrived <- darrived,
        raised <- draised, shutdown <- dshutdown

L == INSTANCE SessionManager WITH
        Ids <- {Id}, Slots <- LSlots, Coros <- LCoros,
        sessions <- lsessions, cid <- lcid, registry <- lregistry,
        waiting <- lwaiting, coros <- lcoros, arrived <- larrived,
        raised <- lraised, shutdown <- lshutdown

Init == D!Init /\ L!Init /\ answer = NoSlot /\ smooth = TRUE

ds == dsessions[DSlot]
ls == lsessions[answer]        \* if there is an answer

-----------------------------------------------------------------------------
(* Signals. *)

(* Objects and coroutines are interchangeable: one that is free will do. *)
One(S) == IF S = {} THEN {} ELSE {CHOOSE x \in S : TRUE}
Fresh == One({t \in LSlots : lcid[t] = {}})
Idle == One({k \in LCoros : ~L!Busy(k)})

Load == Cardinality({t \in LSlots : lcid[t] # {}}) + Cardinality(larrived[Id])

Sent(s, kind) == \E i \in DOMAIN s.sent : s.sent[i] = kind

Dial ==
    /\ \E k \in DCoros : D!Connect(k, DSlot, Id)
    /\ UNCHANGED <<listener, answer, smooth>>

RequestArrives ==
    /\ Sent(ds, "CONNECTREQUEST")
    /\ \E k \in Idle :
          \/ \E t \in Fresh : L!RecvNewRequest(k, t, Id)
          \/ L!RecvRequestAgain(k, Id)
    /\ Load' <= MaxLoad
    /\ UNCHANGED <<dialer, answer, smooth>>

ResponseArrives(t) ==
    /\ Sent(lsessions[t], "CONNECTRESPONSE")
    /\ \E k \in DCoros : D!RecvResponse(k, Id)
    /\ answer' = t
    /\ UNCHANGED <<listener, smooth>>

CandidateToListener ==
    /\ Sent(ds, "CANDIDATEADD")
    /\ \E c \in DCandidates : L!RecvCandidate(Id, c)
    /\ Load' <= MaxLoad
    /\ UNCHANGED <<dialer, answer, smooth>>

CandidateToDialer ==
    /\ \E t \in LSlots : Sent(lsessions[t], "CANDIDATEADD")
    /\ \E c \in LCandidates : D!RecvCandidate(Id, c)
    /\ UNCHANGED <<listener, answer, smooth>>

(* No call site here sends a CONNECTERROR; a peer of another make may.      *)
ErrorToDialer ==
    /\ Load < MaxLoad /\ \E err \in Errors : D!RecvError(Id, err)
    /\ UNCHANGED <<listener, answer, smooth>>
ErrorToListener ==
    /\ Load < MaxLoad /\ \E err \in Errors : L!RecvError(Id, err)
    /\ UNCHANGED <<dialer, answer, smooth>>

-----------------------------------------------------------------------------
(* Steps of one side: coroutines, timers, teardowns, shutdown. *)

DResume ==
    /\ \E k \in DCoros : \/ D!Proceed(k) /\ UNCHANGED smooth
                         \/ D!Raise(k) /\ smooth' = FALSE
    /\ UNCHANGED <<listener, answer>>
LResume(k) ==
    /\ \/ L!Proceed(k) /\ UNCHANGED smooth
       \/ L!Raise(k) /\ smooth' = FALSE
    /\ UNCHANGED <<dialer, answer>>

DTimeout == D!Timeout(DSlot) /\ UNCHANGED <<listener, answer, smooth>>
LTimeout(t) == L!Timeout(t) /\ UNCHANGED <<dialer, answer, smooth>>

DPcClosed == D!PcClosed(DSlot) /\ UNCHANGED <<listener, answer, smooth>>
LPcClosed(t) == L!PcClosed(t) /\ UNCHANGED <<dialer, answer, smooth>>

LAcloseBegin == L!AcloseBegin /\ UNCHANGED <<dialer, answer, smooth>>
LAcloseNext == (L!AcloseNext \/ L!LanClose) /\ UNCHANGED <<dialer, answer, smooth>>

-----------------------------------------------------------------------------
(* The connection: external, by aiortc. *)

(* Both ends are negotiated, neither is being torn down, and one knows an   *)
(* address of the other.                                                    *)
Linked ==
    /\ answer # NoSlot /\ Negotiated(ds) /\ Negotiated(ls)
    /\ ds.closes = 0 /\ ls.closes = 0
    /\ ds.added # {} \/ ls.added # {}

DOpens == Linked /\ D!ChannelsOpen(DSlot) /\ UNCHANGED <<listener, answer, smooth>>
LOpens == Linked /\ L!ChannelsOpen(answer) /\ UNCHANGED <<dialer, answer, smooth>>

DFails == D!ConnectionFails(DSlot) /\ UNCHANGED <<listener, answer, smooth>>
LFails(t) == L!ConnectionFails(t) /\ UNCHANGED <<dialer, answer, smooth>>

(* An end that was open notices that the other one closed. *)
DPeerGone ==
    /\ answer # NoSlot /\ ls.pc = "closed" /\ ds.channels_open_fired /\ ds.pc = "new"
    /\ D!SessionEvent(DSlot, PcChanges(ds, "closed"))
    /\ UNCHANGED <<listener, answer, smooth>>

LPeerGone ==
    /\ answer # NoSlot /\ ds.pc = "closed" /\ ls.channels_open_fired /\ ls.pc = "new"
    /\ L!SessionEvent(answer, PcChanges(ls, "closed"))
    /\ UNCHANGED <<dialer, answer, smooth>>

-----------------------------------------------------------------------------
Next ==
    \/ Dial \/ RequestArrives \/ CandidateToListener \/ CandidateToDialer
    \/ ErrorToDialer \/ ErrorToListener
    \/ DResume \/ DTimeout \/ DPcClosed \/ DOpens \/ DFails \/ DPeerGone
    \/ \E k \in LCoros : LResume(k)
    \/ \E t \in LSlots : ResponseArrives(t) \/ LTimeout(t) \/ LPcClosed(t) \/ LFails(t)
    \/ LAcloseBegin \/ LAcloseNext \/ LOpens \/ LPeerGone

Spec == Init /\ [][Next]_vars

(* asyncio runs what is ready at the dialer and at the listener: coroutines   *)
(* whose awaited aiortc call returned or raised, expired timers, teardowns,   *)
(* which end and are noticed.  It need not be fair between them, except that  *)
(* datagrams that keep coming do not keep the rest from running.  Nothing is  *)
(* assumed of the network nor of ICE.                                         *)
DRuns == DResume \/ DTimeout \/ DPcClosed \/ DPeerGone
LRuns == (\E t \in LSlots : LTimeout(t) \/ LPcClosed(t)) \/ LPeerGone \/ LAcloseNext
FairSpec ==
    /\ Spec
    /\ WF_vars(DRuns) /\ WF_vars(LRuns) /\ \A k \in LCoros : WF_vars(LResume(k))

-----------------------------------------------------------------------------
(* Properties. *)

(* _handle_connection_state: when one end of a handshake is connected and the *)
(* other one closes, or never opens and closes, the connected one closes too: *)
(* nobody stays CONNECTED to a session that is gone, nor again and again.     *)
HalfOpen == answer # NoSlot /\ {ds.state, ls.state} = {"CONNECTED", "CLOSED"}
HalfOpenEnds == <>[]~HalfOpen

(* Session timers on both sides: whatever is lost, repeated, closed or raised *)
(* meanwhile, all sessions together come to be open or closed, but for an     *)
(* IDLE one whose creating coroutine raised, on which no timer runs; if a     *)
(* copy of the request is answered after all, then that one settles too.      *)
Settled(s) == s.state \in {"CONNECTED", "CLOSED"}
Abandoned(s, raises) == s.state = "IDLE" /\ raises
BothSettle ==
    []<>(/\ dcid[DSlot] # {} => Settled(ds) \/ Abandoned(ds, DSlot \in draised)
         /\ \A t \in LSlots : lcid[t] # {} =>
               Settled(lsessions[t]) \/ Abandoned(lsessions[t], t \in lraised))

(* Transport.aclose of the listener returns, with handshakes going on, and    *)
(* closes the socket.                                                         *)
ShutdownReturns == []<>(lshutdown.phase \in {"open", "off"})

(* The early candidates of the manager, those of the peer connection and the  *)
(* late ones together: once both ends are connected and nothing is being      *)
(* handled, each has added every candidate of the other that arrived, if the  *)
(* listener made one session for the dialer and not a second after the first, *)
(* and neither an aiortc call nor the flush of early candidates raised.       *)
CandidatesApplied ==
    (/\ answer # NoSlot /\ ds.state = "CONNECTED" /\ ls.state = "CONNECTED"
     /\ smooth /\ answer \notin lraised /\ \A t \in LSlots \ {answer} : lcid[t] = {}
     /\ (\A k \in LCoros : ~L!Busy(k)) /\ (\A k \in DCoros : ~D!Busy(k)))
    => darrived[Id] \subseteq ds.added /\ larrived[Id] \subseteq ls.added
=============================================================================
