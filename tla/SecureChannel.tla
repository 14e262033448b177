--------------------------- MODULE SecureChannel ---------------------------
(***************************************************************************)
(* Sessions of internal/channel between a server (the initiator, through   *)
(* the /channel endpoints of pkg/api) and its peers (responders).          *)
(*                                                                         *)
(* The network keeps everything that was ever sent, so a message can be    *)
(* delivered late, twice or never, and it can damage what it carries.  A   *)
(* request that is delivered twice makes a responder accept twice, with a  *)
(* fresh secret each time.  The primitives are ideal: a secret is drawn by *)
(* one Accept, a damaged handshake message fails its signature, and a      *)
(* damaged or foreign data message fails its authentication.               *)
(*                                                                         *)
(* An end of a session is a pair <<role, secret>>.                         *)
(***************************************************************************)
EXTENDS Integers, FiniteSets, Bags

CONSTANTS
    Openers,      \* request goroutines that may be inside Session.Open
    Texts,        \* plaintexts
    SessionIDs,   \* random ids of handshakes; bound: each is begun once
    Secrets,      \* random shared secrets; bound: each is drawn by one Accept
    MaxPending,   \* maxPendingChannels
    NonceSpace,   \* 2^32: the number of different nonces of one key
    MaxSent       \* bound: messages sealed in a behaviour

ASSUME ChannelAssumption ==
    /\ MaxPending \in Nat
    /\ NonceSpace \in Nat \ {0}
    /\ MaxSent \in Nat

VARIABLES
    begun,        \* session ids of the handshakes begun: their requests exist
    channelInitiators, \* session ids with a pending initiator at the server
    completing,   \* session ids whose initiator a /channel/complete request has claimed
    responses,    \* the responses ever sent: session id and secret
    channelSessions,   \* secrets of the server's sessions
    sent,         \* data messages ever sent
    sendSeq,      \* per end: s.sendSeq
    recvMax,      \* per end: s.recvMax
    opening,      \* per goroutine: what Open claimed and has not returned yet
    delivered     \* history, a bag: what Open returned

vars == <<begun, channelInitiators, completing, responses, channelSessions, sent, sendSeq,
          recvMax, opening, delivered>>

-----------------------------------------------------------------------------
Roles      == {"initiator", "responder"}
Ends       == Roles \X Secrets
Numbers    == 1..MaxSent
Nothing    == [busy |-> FALSE]

Peer(e) == <<IF e[1] = "initiator" THEN "responder" ELSE "initiator", e[2]>>

\* deriveSession: two keys from the secret, and the responder swaps them.
SendKeyUnswapped(e) == <<"key1", e[2]>>
SendKey(e) == <<IF e[1] = "initiator" THEN "key1" ELSE "key2", e[2]>>
RecvKey(e) == <<IF e[1] = "initiator" THEN "key2" ELSE "key1", e[2]>>

\* A message as the network carries it, and the end that sealed it; the session
\* nonce, which both ends derive from the secret, is that end's secret.
Message == [from: Ends, seq: Numbers, key: {"key1", "key2"} \X Secrets, text: Texts]
Parcel  == [from: Ends, seq: Numbers, text: Texts]

\* The secrets drawn so far are those with a response.
Drawn == {r.secret : r \in responses}
Established(e) ==
    IF e[1] = "responder" THEN e[2] \in Drawn ELSE e[2] \in channelSessions

\* The number Seal gives the next message.
SeqUnchanged(n) == n
NextSeq(n) == n + 1

\* buildNonce: the low 32 bits of the number.
GCMNonce(m) == m.seq % NonceSpace

-----------------------------------------------------------------------------
Init ==
    /\ begun = {}
    /\ channelInitiators = {}
    /\ completing = {}
    /\ responses = {}
    /\ channelSessions = {}
    /\ sent = {}
    /\ sendSeq = [e \in Ends |-> 0]
    /\ recvMax = [e \in Ends |-> 0]
    /\ opening = [o \in Openers |-> Nothing]
    /\ delivered = EmptyBag

\* handleChannelInit and Initiator.Begin; too many pending handshakes are
\* answered with 429.
Begin(sid) ==
    /\ sid \notin begun
    /\ Cardinality(channelInitiators) < MaxPending
    /\ begun' = begun \cup {sid}
    /\ channelInitiators' = channelInitiators \cup {sid}
    /\ UNCHANGED <<completing, responses, channelSessions, sent, sendSeq, recvMax, opening, delivered>>

\* deriveSession: the session at an end starts with both counters at 0.
NewSession(e) ==
    /\ sendSeq' = [sendSeq EXCEPT ![e] = 0]
    /\ recvMax' = [recvMax EXCEPT ![e] = 0]

\* Responder.Accept of a request, whether or not it has been accepted before:
\* encapsulate a fresh secret, respond, and hold a session.
Accept(sid, x) ==
    /\ sid \in begun
    /\ x \notin Drawn
    /\ responses' = responses \cup {[to |-> sid, secret |-> x]}
    /\ NewSession(<<"responder", x>>)
    /\ UNCHANGED <<begun, channelInitiators, completing, channelSessions, sent, opening, delivered>>

\* handleChannelComplete takes the initiator out of the map under the lock, so
\* that only one request for a session id gets any further.
ClaimKept(sid) == channelInitiators' = channelInitiators
Claim(sid) == channelInitiators' = channelInitiators \ {sid}

CompleteClaim(sid) ==
    /\ sid \in channelInitiators
    /\ Claim(sid)
    /\ completing' = completing \cup {sid}
    /\ UNCHANGED <<begun, responses, channelSessions, sent, sendSeq, recvMax, opening, delivered>>

\* Initiator.Complete makes the session of the response.
Complete(sid, x) ==
    /\ sid \in completing
    /\ [to |-> sid, secret |-> x] \in responses
    /\ completing' = completing \ {sid}
    /\ channelSessions' = channelSessions \cup {x}
    /\ NewSession(<<"initiator", x>>)
    /\ UNCHANGED <<begun, channelInitiators, responses, sent, opening, delivered>>

\* The response is damaged, or answers another request: its session id or its
\* signature is wrong, and the initiator stays gone.
CompleteFails(sid) ==
    /\ sid \in completing
    /\ completing' = completing \ {sid}
    /\ UNCHANGED <<begun, channelInitiators, responses, channelSessions, sent, sendSeq, recvMax,
                   opening, delivered>>

\* pruneChannelState: handshakes that nobody completes and sessions nobody uses.
\* A request that looked its session up before may still use it; that is the
\* same as if it had run before the pruning, for nobody else sees the session.
Prune ==
    /\ channelInitiators' \in SUBSET channelInitiators
    /\ channelSessions' \in SUBSET channelSessions
    /\ UNCHANGED <<begun, completing, responses, sent, sendSeq, recvMax, opening, delivered>>

\* Seal: the counter is atomic, so this is one step.
Seal(e, text) ==
    /\ Established(e)
    /\ Cardinality(sent) < MaxSent
    /\ sendSeq' = [sendSeq EXCEPT ![e] = NextSeq(@)]
    /\ sent' = sent \cup {[from |-> e, seq |-> sendSeq'[e], key |-> SendKey(e), text |-> text]}
    /\ UNCHANGED <<begun, channelInitiators, completing, responses, channelSessions, recvMax, opening,
                   delivered>>

\* Open, under recvMu: the number must be new, and it counts as seen from here
\* on, before the ciphertext has been authenticated.
FreshSince(max, seq) == seq >= max
Fresh(max, seq) == seq > max
See(e, seq) ==
    /\ Established(e)
    /\ Fresh(recvMax[e], seq)
    /\ recvMax' = [recvMax EXCEPT ![e] = seq]

\* Open of a message with the session's nonce that the network delivers
\* undamaged.  It may come from this same end; then the key is the wrong one.
OpenClaim(o, e, m) ==
    /\ ~opening[o].busy
    /\ m.from[2] = e[2]
    /\ See(e, m.seq)
    /\ opening' = IF m.key = RecvKey(e)
                  THEN [opening EXCEPT ![o] = [busy |-> TRUE, at |-> e, message |-> m]]
                  ELSE opening
    /\ UNCHANGED <<begun, channelInitiators, completing, responses, channelSessions, sent, sendSeq,
                   delivered>>

\* Open of a message of this session whose number or ciphertext was damaged on
\* the way: the authentication fails, after the number has been noted.
OpenDamaged(e, seq) ==
    /\ \E m \in sent : m.from[2] = e[2]
    /\ See(e, seq)
    /\ UNCHANGED <<begun, channelInitiators, completing, responses, channelSessions, sent, sendSeq,
                   opening, delivered>>

\* Open returns the plaintext; goroutines may overtake each other here.
Returned(o) ==
    [from |-> Peer(opening[o].at), seq |-> opening[o].message.seq, text |-> opening[o].message.text]
OpenReturn(o) ==
    /\ opening[o].busy
    /\ delivered' = delivered (+) SetToBag({Returned(o)})
    /\ opening' = [opening EXCEPT ![o] = Nothing]
    /\ UNCHANGED <<begun, channelInitiators, completing, responses, channelSessions, sent, sendSeq,
                   recvMax>>

Next ==
    \/ \E sid \in SessionIDs : Begin(sid)
    \/ \E sid \in SessionIDs, x \in Secrets : Accept(sid, x)
    \/ \E sid \in SessionIDs, x \in Secrets : Complete(sid, x)
    \/ \E sid \in SessionIDs : CompleteClaim(sid)
    \/ \E sid \in SessionIDs : CompleteFails(sid)
    \/ Prune
    \/ \E e \in Ends, text \in Texts : Seal(e, text)
    \/ \E o \in Openers, e \in Ends : \E m \in sent : OpenClaim(o, e, m)
    \/ \E e \in Ends, seq \in Numbers : OpenDamaged(e, seq)
    \/ \E o \in Openers : OpenReturn(o)

Spec == Init /\ [][Next]_vars

-----------------------------------------------------------------------------
Opening == {Nothing} \cup [busy: {TRUE}, at: Ends, message: Message]

\* Sessions of the server belong to handshakes it began, counters count, and
\* the network carries messages.
TypeOK ==
    /\ begun \subseteq SessionIDs
    /\ channelInitiators \subseteq begun
    /\ Cardinality(channelInitiators) <= MaxPending
    /\ completing \subseteq begun \ channelInitiators
    /\ responses \subseteq [to: begun, secret: Secrets]
    /\ channelSessions \subseteq Drawn
    /\ sent \subseteq Message
    /\ sendSeq \in [Ends -> 0..MaxSent]
    /\ recvMax \in [Ends -> 0..MaxSent]
    /\ opening \in [Openers -> Opening]
    /\ IsABag(delivered) /\ BagToSet(delivered) \subseteq Parcel

Submitted == {[from |-> m.from, seq |-> m.seq, text |-> m.text] : m \in sent}

\* The two ends of every session are a secure link: what Open returns was
\* sealed at the other end, and is returned once, whatever is replayed,
\* reordered or damaged, however many requests are in Open at the same time,
\* and although handshake messages may be delivered twice.
Link == INSTANCE SecureLink WITH Parcels <- Parcel, submitted <- Submitted
ImplementsLink == Link!Spec

\* One key never encrypts two messages under one nonce, as long as an end has
\* sealed no more messages than there are nonces; that takes that nobody ever
\* makes two sessions out of one handshake.
NoncesUnique ==
    \A m, n \in sent :
        m.key = n.key /\ GCMNonce(m) = GCMNonce(n) /\ m.seq <= NonceSpace /\ n.seq <= NonceSpace
            => m = n

\* Messages get past the number check in the order they were sealed: one that
\* does is newer than all that Open has returned at this end and all that other
\* goroutines are about to return there.
OpensInOrder ==
    [][\A o \in Openers :
         ~opening[o].busy /\ opening'[o].busy =>
            LET e == opening'[o].at
                n == opening'[o].message.seq
            IN  /\ \A p \in BagToSet(delivered) : p.from = Peer(e) => p.seq < n
                /\ \A u \in Openers : opening[u].busy /\ opening[u].at = e
                                         => opening[u].message.seq < n]_vars
=============================================================================
