----------------------- MODULE SecureChannel_proofs -----------------------
(* Theorems about the secure channel: its nonces, its order, and that the   *)
(* two ends of a session are a SecureLink.                                  *)
EXTENDS SecureChannel, FiniteSetTheorems, TLAPS

\* Nothing has been sealed or opened at an end.
Untouched(e) ==
    /\ \A m \in sent : m.from # e
    /\ \A o \in Openers : opening[o].busy => opening[o].at # e
    /\ \A p \in BagToSet(delivered) : Peer(p.from) # e

\* A secret answers one handshake, and a handshake that is still to be completed
\* has no session at the server yet.  So an end that becomes a session, and
\* starts to count at 0, is untouched.
HandshakeInv ==
    /\ \A r, q \in responses : r.secret = q.secret => r = q
    /\ \A x \in Secrets \ Drawn : Untouched(<<"initiator", x>>) /\ Untouched(<<"responder", x>>)
    /\ \A r \in responses :
          r.to \in channelInitiators \cup completing =>
              r.secret \notin channelSessions /\ Untouched(<<"initiator", r.secret>>)

\* An end numbers what it seals, under its own key.
SealInv ==
    /\ IsFiniteSet(sent) /\ Cardinality(sent) <= MaxSent
    /\ \A e \in Ends : sendSeq[e] <= Cardinality(sent)
    /\ \A m \in sent : m.seq <= sendSeq[m.from] /\ m.key = SendKey(m.from)
    /\ \A m, n \in sent : m.from = n.from /\ m.seq = n.seq => m = n

\* What is about to be returned, or was returned, was sealed at the other end and
\* noted in recvMax, and no two of these are the same message.
OpenInv ==
    /\ \A o \in Openers : opening[o].busy =>
          LET e == opening[o].at
              m == opening[o].message
          IN  m \in sent /\ m.from = Peer(e) /\ m.seq <= recvMax[e]
    /\ \A o, u \in Openers :
          opening[o].busy /\ opening[u].busy /\ o # u /\ opening[o].at = opening[u].at
              => opening[o].message.seq # opening[u].message.seq
    /\ \A p \in BagToSet(delivered) : p \in Submitted /\ p.seq <= recvMax[Peer(p.from)]
    /\ \A p \in BagToSet(delivered), o \in Openers :
          opening[o].busy /\ p.from = Peer(opening[o].at) => p.seq # opening[o].message.seq

IInv ==
    /\ TypeOK
    /\ IsFiniteSet(channelInitiators)
    /\ HandshakeInv
    /\ SealInv
    /\ OpenInv

dataVars == <<sent, sendSeq, recvMax, opening, delivered>>

-----------------------------------------------------------------------------
\* Ends, peers and keys.
LEMMA EndsPeers ==
    ASSUME NEW e \in Ends
    PROVE  /\ e = <<e[1], e[2]>> /\ e[1] \in Roles /\ e[2] \in Secrets
           /\ Peer(e) \in Ends /\ Peer(Peer(e)) = e /\ Peer(e) # e
           /\ SendKey(e) \in {"key1", "key2"} \X Secrets
BY DEF Ends, Roles, Peer, SendKey

\* A key tells the end that seals with it, and the key an end opens with is the
\* one its peer seals with.
LEMMA KeysTellEnds ==
    ASSUME NEW e \in Ends, NEW f \in Ends
    PROVE  /\ SendKey(e) = SendKey(f) => e = f
           /\ RecvKey(e) = SendKey(f) => f = Peer(e)
BY DEF Ends, Roles, Peer, SendKey, RecvKey

\* What a goroutine inside Open works on.
LEMMA OpeningTyped ==
    ASSUME TypeOK, NEW o \in Openers, opening[o].busy
    PROVE  opening[o].at \in Ends /\ opening[o].message \in Message
<1>1. opening[o] \in Opening
  BY DEF TypeOK
<1>2. opening[o] # Nothing
  BY DEF Nothing
<1>3. opening[o] \in [busy: {TRUE}, at: Ends, message: Message]
  BY <1>1, <1>2 DEF Opening
<1> QED
  BY <1>3

LEMMA InvInit == Init => IInv
<1> SUFFICES ASSUME Init PROVE IInv
  OBVIOUS
<1>1. TypeOK
  <2>1. Cardinality({}) = 0
    BY FS_EmptySet
  <2>2. IsABag(delivered) /\ BagToSet(delivered) = {}
    BY DEF Init, EmptyBag, SetToBag, IsABag, BagToSet
  <2> QED
    BY <2>1, <2>2, ChannelAssumption DEF Init, TypeOK, Opening, Nothing, Drawn
<1>2. BagToSet(delivered) = {}
  BY DEF Init, EmptyBag, SetToBag, BagToSet
<1>3. IsFiniteSet({}) /\ Cardinality({}) = 0
  BY FS_EmptySet
<1> QED
  BY <1>1, <1>2, <1>3, ChannelAssumption
  DEF Init, IInv, HandshakeInv, SealInv, OpenInv, Untouched, Drawn, Nothing

-----------------------------------------------------------------------------
\* Handshakes: sealing and opening know nothing of them, as long as no session
\* begins.
LEMMA DataUntouched ==
    ASSUME UNCHANGED dataVars
    PROVE  /\ SealInv <=> SealInv'
           /\ OpenInv <=> OpenInv'
           /\ \A e : Untouched(e) <=> Untouched(e)'
BY DEF dataVars, SealInv, OpenInv, Untouched, Submitted

LEMMA BeginInv ==
    ASSUME IInv, NEW sid \in SessionIDs, Begin(sid)
    PROVE  IInv'
<1>1. IsFiniteSet(channelInitiators') /\ Cardinality(channelInitiators') <= MaxPending
  <2>1. sid \notin channelInitiators
    BY DEF Begin, IInv, TypeOK
  <2>2. IsFiniteSet(channelInitiators) /\ Cardinality(channelInitiators) \in Nat
    BY FS_CardinalityType DEF IInv
  <2>3. IsFiniteSet(channelInitiators') /\ Cardinality(channelInitiators') = Cardinality(channelInitiators) + 1
    BY <2>1, <2>2, FS_AddElement DEF Begin
  <2> QED
    BY <2>2, <2>3, ChannelAssumption DEF Begin
<1>2. UNCHANGED dataVars
  BY DEF Begin, dataVars
<1>3. TypeOK'
  BY <1>1 DEF IInv, TypeOK, Begin, Drawn
<1>4. HandshakeInv'
  BY <1>2, DataUntouched DEF IInv, TypeOK, HandshakeInv, Begin, Drawn
<1> QED
  BY <1>1, <1>2, <1>3, <1>4, DataUntouched DEF IInv

LEMMA ClaimInv ==
    ASSUME IInv, NEW sid \in SessionIDs, CompleteClaim(sid) \/ CompleteFails(sid)
    PROVE  IInv'
<1>1. IsFiniteSet(channelInitiators') /\ Cardinality(channelInitiators') <= Cardinality(channelInitiators)
  <2>1. channelInitiators' \subseteq channelInitiators
    BY DEF CompleteClaim, CompleteFails, Claim
  <2> QED
    BY <2>1, FS_Subset DEF IInv
<1>2. UNCHANGED dataVars
  BY DEF CompleteClaim, CompleteFails, dataVars
<1>3. TypeOK'
  <2>1. Cardinality(channelInitiators') \in Nat /\ Cardinality(channelInitiators) \in Nat
    BY <1>1, FS_CardinalityType DEF IInv
  <2>2. Cardinality(channelInitiators') <= MaxPending
    BY <1>1, <2>1, ChannelAssumption DEF IInv, TypeOK
  <2> QED
    BY <2>2 DEF IInv, TypeOK, CompleteClaim, CompleteFails, Claim, Drawn
<1>4. HandshakeInv'
  BY <1>2, DataUntouched DEF IInv, TypeOK, HandshakeInv, CompleteClaim, CompleteFails, Claim, Drawn
<1> QED
  BY <1>1, <1>2, <1>3, <1>4, DataUntouched DEF IInv

LEMMA PruneInv ==
    ASSUME IInv, Prune
    PROVE  IInv'
<1>1. IsFiniteSet(channelInitiators') /\ Cardinality(channelInitiators') <= Cardinality(channelInitiators)
  BY FS_Subset DEF IInv, Prune
<1>2. UNCHANGED dataVars
  BY DEF Prune, dataVars
<1>3. TypeOK'
  <2>1. Cardinality(channelInitiators') \in Nat /\ Cardinality(channelInitiators) \in Nat
    BY <1>1, FS_CardinalityType DEF IInv
  <2>2. Cardinality(channelInitiators') <= MaxPending
    BY <1>1, <2>1, ChannelAssumption DEF IInv, TypeOK
  <2> QED
    BY <2>2 DEF IInv, TypeOK, Prune, Drawn
<1>4. HandshakeInv'
  BY <1>2, DataUntouched DEF IInv, TypeOK, HandshakeInv, Prune, Drawn
<1> QED
  BY <1>1, <1>2, <1>3, <1>4, DataUntouched DEF IInv

-----------------------------------------------------------------------------
\* A session that begins at an untouched end finds nothing it could confuse with
\* what it seals and opens.
LEMMA SessionBegins ==
    ASSUME IInv, NEW e \in Ends, Untouched(e), NewSession(e),
           UNCHANGED <<sent, opening, delivered>>
    PROVE  /\ SealInv' /\ OpenInv'
           /\ sendSeq' \in [Ends -> 0..MaxSent] /\ recvMax' \in [Ends -> 0..MaxSent]
           /\ \A f : Untouched(f) <=> Untouched(f)'
<1>1. sendSeq' \in [Ends -> 0..MaxSent] /\ recvMax' \in [Ends -> 0..MaxSent]
  BY ChannelAssumption DEF IInv, TypeOK, NewSession
<1>2. \A f : Untouched(f) <=> Untouched(f)'
  BY DEF Untouched
<1>3. SealInv'
  <2>1. Cardinality(sent) \in Nat
    BY FS_CardinalityType DEF IInv, SealInv
  <2>2. \A f \in Ends : sendSeq'[f] = IF f = e THEN 0 ELSE sendSeq[f]
    BY DEF NewSession, IInv, TypeOK
  <2>3. \A m \in sent : m.from \in Ends /\ m.from # e
    BY DEF IInv, TypeOK, Message, Untouched
  <2> QED
    BY <2>1, <2>2, <2>3 DEF IInv, SealInv
<1>4. OpenInv'
  <2>1. \A f \in Ends : recvMax'[f] = IF f = e THEN 0 ELSE recvMax[f]
    BY DEF NewSession, IInv, TypeOK
  <2>2. \A o \in Openers : opening[o].busy => opening[o].at \in Ends /\ opening[o].at # e
    BY OpeningTyped DEF IInv, Untouched
  <2>3. \A p \in BagToSet(delivered) : Peer(p.from) \in Ends /\ Peer(p.from) # e
    BY EndsPeers DEF IInv, TypeOK, Parcel, Untouched
  <2> QED
    BY <2>1, <2>2, <2>3 DEF IInv, OpenInv, Submitted
<1> QED
  BY <1>1, <1>2, <1>3, <1>4

LEMMA AcceptInv ==
    ASSUME IInv, NEW sid \in SessionIDs, NEW x \in Secrets, Accept(sid, x)
    PROVE  IInv'
<1> DEFINE e == <<"responder", x>>
           r == [to |-> sid, secret |-> x]
<1>1. e \in Ends /\ Untouched(e) /\ Untouched(<<"initiator", x>>)
  BY DEF Accept, IInv, HandshakeInv, Ends, Roles
<1>2. /\ SealInv' /\ OpenInv'
      /\ sendSeq' \in [Ends -> 0..MaxSent] /\ recvMax' \in [Ends -> 0..MaxSent]
      /\ \A f : Untouched(f) <=> Untouched(f)'
  BY <1>1, SessionBegins DEF Accept
<1>3. responses' = responses \cup {r} /\ Drawn' = Drawn \cup {x} /\ x \notin Drawn
  <2>1. responses' = responses \cup {r} /\ x \notin Drawn
    BY DEF Accept
  <2>2. {q.secret : q \in responses \cup {r}} = {q.secret : q \in responses} \cup {r.secret}
    OBVIOUS
  <2> QED
    BY <2>1, <2>2 DEF Drawn
<1>4. TypeOK'
  BY <1>2, <1>3 DEF IInv, TypeOK, Accept
<1>5. HandshakeInv'
  <2>1. \A q \in responses : q.secret # x
    BY <1>3 DEF Drawn
  <2>2. x \notin channelSessions
    BY <1>3 DEF IInv, TypeOK
  <2> QED
    BY <1>1, <1>2, <1>3, <2>1, <2>2 DEF IInv, HandshakeInv, Accept
<1> QED
  BY <1>2, <1>4, <1>5 DEF IInv, Accept

LEMMA CompleteInv ==
    ASSUME IInv, NEW sid \in SessionIDs, NEW x \in Secrets, Complete(sid, x)
    PROVE  IInv'
<1> DEFINE e == <<"initiator", x>>
           r == [to |-> sid, secret |-> x]
<1>1. e \in Ends /\ Untouched(e) /\ r \in responses
  BY DEF Complete, IInv, HandshakeInv, Ends, Roles
<1>2. /\ SealInv' /\ OpenInv'
      /\ sendSeq' \in [Ends -> 0..MaxSent] /\ recvMax' \in [Ends -> 0..MaxSent]
      /\ \A f : Untouched(f) <=> Untouched(f)'
  BY <1>1, SessionBegins DEF Complete
<1>3. x \in Drawn
  BY <1>1 DEF Drawn
<1>4. TypeOK'
  BY <1>2, <1>3 DEF IInv, TypeOK, Complete, Drawn
<1>5. HandshakeInv'
  <2>1. sid \notin channelInitiators' \cup completing'
    BY DEF Complete, IInv, TypeOK
  <2>2. \A q \in responses : q.secret = x => q.to = sid
    BY <1>1 DEF IInv, HandshakeInv
  <2> QED
    BY <1>2, <2>1, <2>2 DEF IInv, HandshakeInv, Complete, Drawn
<1> QED
  BY <1>2, <1>4, <1>5 DEF IInv, Complete
-----------------------------------------------------------------------------
\* Seal gives the next number, so the message is none of those sent before.
LEMMA SealStep ==
    ASSUME IInv, NEW e \in Ends, NEW text \in Texts, Seal(e, text)
    PROVE  IInv'
<1> DEFINE m == [from |-> e, seq |-> sendSeq[e] + 1, key |-> SendKey(e), text |-> text]
<1>1. /\ sendSeq[e] \in Nat /\ sendSeq' = [sendSeq EXCEPT ![e] = sendSeq[e] + 1]
      /\ sent' = sent \cup {m} /\ Cardinality(sent) < MaxSent
  BY DEF Seal, NextSeq, IInv, TypeOK
<1>2. m \notin sent
  BY <1>1 DEF IInv, SealInv
<1>3. /\ Cardinality(sent) \in Nat
      /\ IsFiniteSet(sent') /\ Cardinality(sent') = Cardinality(sent) + 1
  BY <1>1, <1>2, FS_AddElement, FS_CardinalityType DEF IInv, SealInv
<1>4. sendSeq[e] + 1 \in 1..MaxSent
  BY <1>1, <1>3, ChannelAssumption DEF IInv, SealInv
<1>5. m \in Message
  BY <1>4, EndsPeers DEF Message, Numbers
<1>6. \A f \in Ends : sendSeq'[f] = IF f = e THEN sendSeq[e] + 1 ELSE sendSeq[f]
  BY <1>1 DEF IInv, TypeOK
<1>7. TypeOK'
  <2>1. sendSeq' \in [Ends -> 0..MaxSent]
    BY <1>1, <1>4 DEF IInv, TypeOK
  <2> QED
    BY <1>1, <1>5, <2>1 DEF IInv, TypeOK, Seal, Drawn
<1>8. e[2] \in Drawn /\ (e[1] = "initiator" => e[2] \in channelSessions)
  BY EndsPeers DEF Seal, Established, IInv, TypeOK, Roles
<1>9. HandshakeInv'
  <2>1. \A f : f # e => (Untouched(f) <=> Untouched(f)')
    BY <1>1 DEF Seal, Untouched
  <2> QED
    BY <1>8, <2>1 DEF IInv, HandshakeInv, Seal, Drawn
<1>10. SealInv'
  <2>1. m.from = e /\ m.seq = sendSeq[e] + 1 /\ m.key = SendKey(e)
    OBVIOUS
  <2>2. \A n \in sent : n.from \in Ends /\ n.seq \in Nat
    BY DEF IInv, TypeOK, Message, Numbers
  <2>3. \A f \in Ends : sendSeq[f] \in Nat /\ sendSeq'[f] <= Cardinality(sent')
    BY <1>1, <1>3, <1>6 DEF IInv, SealInv, TypeOK
  <2>4. \A n \in sent' : n.seq <= sendSeq'[n.from] /\ n.key = SendKey(n.from)
    BY <1>1, <1>6, <2>1, <2>2, <2>3 DEF IInv, SealInv
  <2>5. \A n \in sent : n.from = e => n.seq # m.seq
    BY <1>1, <2>1, <2>2 DEF IInv, SealInv
  <2>6. \A n, k \in sent' : n.from = k.from /\ n.seq = k.seq => n = k
    BY <1>1, <2>1, <2>5 DEF IInv, SealInv
  <2>7. Cardinality(sent') <= MaxSent
    BY <1>1, <1>3, ChannelAssumption
  <2> HIDE DEF m
  <2> QED
    BY <1>3, <2>3, <2>4, <2>6, <2>7 DEF SealInv
<1>11. OpenInv'
  <2>1. Submitted \subseteq Submitted'
    BY <1>1 DEF Submitted
  <2> QED
    BY <1>1, <2>1 DEF IInv, OpenInv, Seal
<1> QED
  BY <1>7, <1>9, <1>10, <1>11 DEF IInv, Seal

\* Noting a number disturbs nothing that was opened before.
LEMMA SeeStep ==
    ASSUME IInv, NEW e \in Ends, NEW seq \in Numbers, See(e, seq)
    PROVE  /\ recvMax' \in [Ends -> 0..MaxSent]
           /\ \A f \in Ends : recvMax[f] <= recvMax'[f] /\ recvMax[f] \in Nat /\ recvMax'[f] \in Nat
           /\ recvMax'[e] = seq /\ recvMax[e] < seq
           /\ e[2] \in Drawn /\ (e[1] = "initiator" => e[2] \in channelSessions)
<1>1. /\ recvMax' = [recvMax EXCEPT ![e] = seq] /\ recvMax[e] < seq
      /\ recvMax \in [Ends -> 0..MaxSent] /\ seq \in 0..MaxSent
  BY ChannelAssumption DEF See, Fresh, Numbers, IInv, TypeOK
<1>2. e[2] \in Drawn /\ (e[1] = "initiator" => e[2] \in channelSessions)
  BY EndsPeers DEF See, Established, IInv, TypeOK, Roles
<1> QED
  BY <1>1, <1>2, ChannelAssumption

LEMMA DamagedInv ==
    ASSUME IInv, NEW e \in Ends, NEW seq \in Numbers, OpenDamaged(e, seq)
    PROVE  IInv'
<1>1. /\ recvMax' \in [Ends -> 0..MaxSent]
      /\ \A f \in Ends : recvMax[f] <= recvMax'[f] /\ recvMax[f] \in Nat /\ recvMax'[f] \in Nat
  BY SeeStep DEF OpenDamaged
<1>2. TypeOK'
  BY <1>1 DEF IInv, TypeOK, OpenDamaged, Drawn
<1>3. HandshakeInv' /\ SealInv'
  BY DEF IInv, HandshakeInv, SealInv, OpenDamaged, Untouched, Drawn
<1>4. OpenInv'
  <2>1. \A o \in Openers : opening[o].busy =>
            opening[o].at \in Ends /\ opening[o].message.seq \in Nat
    BY OpeningTyped DEF IInv, Message, Numbers
  <2>2. \A p \in BagToSet(delivered) : Peer(p.from) \in Ends /\ p.seq \in Nat
    BY EndsPeers DEF IInv, TypeOK, Parcel, Numbers
  <2> QED
    BY <1>1, <2>1, <2>2 DEF IInv, OpenInv, OpenDamaged, Submitted
<1> QED
  BY <1>2, <1>3, <1>4 DEF IInv, OpenDamaged

\* What a message newer than all noted at e is newer than.
LEMMA NewerThanAll ==
    ASSUME IInv, NEW e \in Ends, NEW seq \in Numbers, recvMax[e] < seq
    PROVE  /\ \A p \in BagToSet(delivered) : p.from = Peer(e) => p.seq < seq
           /\ \A u \in Openers : opening[u].busy /\ opening[u].at = e
                  => opening[u].message.seq < seq
<1>1. recvMax[e] \in Nat /\ seq \in Nat
  BY DEF IInv, TypeOK, Numbers
<1>2. \A p \in BagToSet(delivered) : p.from = Peer(e) => Peer(p.from) = e /\ p.seq \in Nat
  BY EndsPeers DEF IInv, TypeOK, Parcel, Numbers
<1>3. \A u \in Openers : opening[u].busy => opening[u].message.seq \in Nat
  BY OpeningTyped DEF IInv, Message, Numbers
<1> QED
  BY <1>1, <1>2, <1>3 DEF IInv, OpenInv

\* A message with the session's nonce that opens was sealed at the other end.
LEMMA OpensPeers ==
    ASSUME IInv, NEW e \in Ends, NEW m \in sent, m.key = RecvKey(e)
    PROVE  m.from = Peer(e)
BY KeysTellEnds DEF IInv, TypeOK, SealInv, Message

LEMMA ClaimedInv ==
    ASSUME IInv, NEW o \in Openers, NEW e \in Ends, NEW m \in sent, OpenClaim(o, e, m)
    PROVE  IInv'
<1>1. m \in Message /\ m.seq \in Numbers
  BY DEF IInv, TypeOK, Message
<1>2. /\ recvMax' \in [Ends -> 0..MaxSent]
      /\ \A f \in Ends : recvMax[f] <= recvMax'[f] /\ recvMax[f] \in Nat /\ recvMax'[f] \in Nat
      /\ recvMax'[e] = m.seq /\ recvMax[e] < m.seq
      /\ e[2] \in Drawn /\ (e[1] = "initiator" => e[2] \in channelSessions)
  BY <1>1, SeeStep DEF OpenClaim
<1>3. m.seq \in Nat /\ m.seq <= recvMax'[e]
  BY <1>1, <1>2 DEF Numbers
<1> DEFINE c == [busy |-> TRUE, at |-> e, message |-> m]
<1>4. c \in Opening /\ c.busy /\ c.at = e /\ c.message = m
  BY <1>1 DEF Opening
<1>5. opening' \in [Openers -> Opening]
  BY <1>4 DEF OpenClaim, IInv, TypeOK
<1>6. TypeOK'
  BY <1>2, <1>5 DEF IInv, TypeOK, OpenClaim, Drawn
<1> HIDE DEF c
<1>7. \A u \in Openers : opening'[u] = opening[u] \/ (u = o /\ opening'[u] = c /\ m.from = Peer(e))
  BY OpensPeers DEF OpenClaim, IInv, TypeOK, c
<1>8. HandshakeInv'
  <2>1. \A f : f # e => (Untouched(f) => Untouched(f)')
    BY <1>4, <1>7 DEF OpenClaim, Untouched
  <2> QED
    BY <1>2, <2>1 DEF IInv, HandshakeInv, OpenClaim, Drawn
<1>9. SealInv'
  BY DEF IInv, SealInv, OpenClaim
<1>10. OpenInv'
  <2>1. \A u \in Openers : opening[u].busy =>
            opening[u].at \in Ends /\ opening[u].message.seq \in Nat
    BY OpeningTyped DEF IInv, Message, Numbers
  <2>2. \A p \in BagToSet(delivered) : Peer(p.from) \in Ends /\ p.seq \in Nat
    BY EndsPeers DEF IInv, TypeOK, Parcel, Numbers
  <2>3. /\ \A p \in BagToSet(delivered) : p.from = Peer(e) => p.seq < m.seq
        /\ \A u \in Openers : opening[u].busy /\ opening[u].at = e
               => opening[u].message.seq < m.seq
    BY <1>1, <1>2, NewerThanAll
  <2>4. \A u \in Openers : opening'[u].busy =>
            /\ opening'[u].message \in sent
            /\ opening'[u].message.from = Peer(opening'[u].at)
            /\ opening'[u].message.seq <= recvMax'[opening'[u].at]
    BY <1>2, <1>3, <1>4, <1>7, <2>1 DEF IInv, OpenInv
  <2>5. ASSUME NEW u \in Openers, NEW w \in Openers, opening'[u].busy, opening'[w].busy,
               u # w, opening'[u].at = opening'[w].at
        PROVE  opening'[u].message.seq # opening'[w].message.seq
    BY <1>3, <1>4, <1>7, <2>1, <2>3, <2>5 DEF IInv, OpenInv
  <2>6. \A p \in BagToSet(delivered) : p \in Submitted /\ p.seq <= recvMax'[Peer(p.from)]
    BY <1>2, <2>2 DEF IInv, OpenInv
  <2>7. \A p \in BagToSet(delivered), u \in Openers :
            opening'[u].busy /\ p.from = Peer(opening'[u].at) => p.seq # opening'[u].message.seq
    BY <1>3, <1>4, <1>7, <2>2, <2>3 DEF IInv, OpenInv
  <2>8. UNCHANGED <<sent, delivered>>
    BY DEF OpenClaim
  <2> QED
    BY <2>4, <2>5, <2>6, <2>7, <2>8 DEF OpenInv, Submitted
<1> QED
  BY <1>6, <1>8, <1>9, <1>10 DEF IInv, OpenClaim-----------------------------------------------------------------------------
\* What Open returns is the parcel that the other end submitted; it was about to
\* be returned by this goroutine alone, and had not been returned before.
LEMMA ReturnedIsNew ==
    ASSUME IInv, NEW o \in Openers, opening[o].busy
    PROVE  /\ Returned(o) \in Submitted /\ Returned(o) \in Parcel
           /\ Returned(o).from = Peer(opening[o].at)
           /\ Returned(o).seq = opening[o].message.seq
           /\ Returned(o) \notin BagToSet(delivered)
<1> DEFINE e == opening[o].at
           m == opening[o].message
<1>1. e \in Ends /\ m \in Message
  BY OpeningTyped DEF IInv
<1>2. m \in sent /\ m.from = Peer(e)
  BY DEF IInv, OpenInv
<1>3. Returned(o) = [from |-> m.from, seq |-> m.seq, text |-> m.text]
  BY <1>2 DEF Returned
<1>4. Returned(o) \in Submitted
  BY <1>2, <1>3 DEF Submitted
<1>5. Returned(o) \in Parcel
  BY <1>1, <1>3 DEF Message, Parcel
<1>6. Returned(o) \notin BagToSet(delivered)
  BY <1>2, <1>3 DEF IInv, OpenInv
<1> QED
  BY <1>2, <1>3, <1>4, <1>5, <1>6

\* A bag with one parcel more.
LEMMA OneMore ==
    ASSUME NEW B, IsABag(B), NEW p
    PROVE  IsABag(B (+) SetToBag({p})) /\ BagToSet(B (+) SetToBag({p})) = BagToSet(B) \cup {p}
<1> DEFINE C == B (+) SetToBag({p})
<1>1. \A x \in DOMAIN B : B[x] \in Nat /\ B[x] > 0
  BY DEF IsABag
<1>2. C = [x \in (DOMAIN B) \cup {p} |->
              (IF x \in DOMAIN B THEN B[x] ELSE 0) + (IF x \in {p} THEN 1 ELSE 0)]
  BY DEF SetToBag, (+)
<1> HIDE DEF C
<1>3. DOMAIN C = (DOMAIN B) \cup {p} /\ \A x \in DOMAIN C : C[x] \in {n \in Nat : n > 0}
  <2>1. DOMAIN C = (DOMAIN B) \cup {p}
    BY <1>2
  <2>2. ASSUME NEW x \in DOMAIN C PROVE C[x] \in Nat /\ C[x] > 0
    <3>1. C[x] = (IF x \in DOMAIN B THEN B[x] ELSE 0) + (IF x \in {p} THEN 1 ELSE 0)
      BY <1>2, <2>1, <2>2
    <3> QED
      BY <1>1, <2>1, <2>2, <3>1
  <2> QED
    BY <2>1, <2>2
<1>4. C = [x \in DOMAIN C |-> C[x]]
  BY <1>2, <1>3
<1>5. C \in [DOMAIN C -> {n \in Nat : n > 0}]
  BY <1>3, <1>4
<1> QED
  BY <1>3, <1>5 DEF IsABag, BagToSet, C

LEMMA ReturnInv ==
    ASSUME IInv, NEW o \in Openers, OpenReturn(o)
    PROVE  IInv'
<1> DEFINE p == Returned(o)
           e == opening[o].at
<1>1. /\ p \in Submitted /\ p \in Parcel
      /\ p.from = Peer(e) /\ p.seq = opening[o].message.seq
      /\ e \in Ends /\ opening[o].busy
  BY ReturnedIsNew, OpeningTyped DEF OpenReturn, IInv
<1>2. IsABag(delivered') /\ BagToSet(delivered') = BagToSet(delivered) \cup {p}
  BY OneMore DEF OpenReturn, IInv, TypeOK
<1>3. Nothing \in Opening /\ ~Nothing.busy
  BY DEF Opening, Nothing
<1>4. opening' \in [Openers -> Opening]
  BY <1>3 DEF OpenReturn, IInv, TypeOK
<1> HIDE DEF p
<1>5. \A u \in Openers : opening'[u].busy => u # o /\ opening[u].busy /\ opening'[u] = opening[u]
  BY <1>3 DEF OpenReturn, IInv, TypeOK
<1>6. TypeOK'
  BY <1>1, <1>2, <1>4 DEF IInv, TypeOK, OpenReturn, Drawn
<1>7. HandshakeInv'
  <2>1. Peer(p.from) = e
    BY <1>1, EndsPeers
  <2>2. \A f : Untouched(f) => Untouched(f)'
    BY <1>1, <1>2, <1>5, <2>1 DEF OpenReturn, Untouched
  <2> QED
    BY <2>2 DEF IInv, HandshakeInv, OpenReturn, Drawn
<1>8. SealInv'
  BY DEF IInv, SealInv, OpenReturn
<1>9. OpenInv'
  <2>1. Peer(p.from) = e
    BY <1>1, EndsPeers
  <2>2. p.seq <= recvMax[e]
    BY <1>1 DEF IInv, OpenInv
  <2>3. UNCHANGED <<sent, recvMax>>
    BY DEF OpenReturn
  <2>4. \A q \in BagToSet(delivered') : q \in Submitted /\ q.seq <= recvMax[Peer(q.from)]
    BY <1>1, <1>2, <2>1, <2>2 DEF IInv, OpenInv
  <2>5. ASSUME NEW q \in BagToSet(delivered'), NEW u \in Openers,
               opening'[u].busy, q.from = Peer(opening'[u].at)
        PROVE  q.seq # opening'[u].message.seq
    <3>1. CASE q \in BagToSet(delivered)
      BY <1>5, <2>5, <3>1 DEF IInv, OpenInv
    <3>2. CASE q = p
      <4>1. opening[u].at \in Ends
        BY <1>5, <2>5, OpeningTyped DEF IInv
      <4>2. opening[u].at = e
        BY <1>1, <1>5, <2>5, <3>2, <4>1, EndsPeers
      <4> QED
        BY <1>1, <1>5, <2>5, <3>2, <4>2 DEF IInv, OpenInv
    <3> QED
      BY <1>2, <3>1, <3>2
  <2> QED
    BY <1>5, <2>3, <2>4, <2>5 DEF IInv, OpenInv, Submitted
<1> QED
  BY <1>6, <1>7, <1>8, <1>9 DEF IInv, OpenReturn

-----------------------------------------------------------------------------
LEMMA InvNext == IInv /\ [Next]_vars => IInv'
<1> SUFFICES ASSUME IInv, [Next]_vars PROVE IInv'
  OBVIOUS
<1>1. CASE UNCHANGED vars
  BY <1>1 DEF vars, IInv, TypeOK, HandshakeInv, SealInv, OpenInv, Untouched, Drawn, Submitted
<1>2. ASSUME NEW o \in Openers, NEW e \in Ends, \E m \in sent : OpenClaim(o, e, m) PROVE IInv'
  BY <1>2, ClaimedInv
<1> QED
  BY <1>1, <1>2, BeginInv, AcceptInv, CompleteInv, ClaimInv, PruneInv, SealStep, DamagedInv,
      ReturnInv DEF Next

LEMMA Invariance == Spec => []IInv
BY InvInit, InvNext, PTL DEF Spec

\* The types of the code: counters count, the network carries messages, and the
\* server's pending handshakes stay within maxPendingChannels.
THEOREM TypeCorrect == Spec => []TypeOK
<1>1. IInv => TypeOK
  BY DEF IInv
<1> QED
  BY Invariance, <1>1, PTL

\* The low bits of the numbers 1 to NonceSpace are all different.
LEMMA LowBits ==
    ASSUME NEW N \in Nat \ {0}, NEW a \in 1..N, NEW b \in 1..N, a % N = b % N
    PROVE  a = b
<1>1. \A c \in 1..N : c % N = IF c = N THEN 0 ELSE c
  OBVIOUS
<1> QED
  BY <1>1

\* buildNonce: no key ever encrypts two messages under one nonce before an end
\* has sealed as many messages as there are nonces.
THEOREM NoncesDiffer == Spec => []NoncesUnique
<1>1. ASSUME IInv PROVE NoncesUnique
  <2> SUFFICES ASSUME NEW m \in sent, NEW n \in sent, m.key = n.key, GCMNonce(m) = GCMNonce(n),
                      m.seq <= NonceSpace, n.seq <= NonceSpace
               PROVE  m = n
    BY DEF NoncesUnique
  <2>1. m.from \in Ends /\ n.from \in Ends /\ m.seq \in 1..NonceSpace /\ n.seq \in 1..NonceSpace
    BY <1>1, ChannelAssumption DEF IInv, TypeOK, Message, Numbers
  <2>2. m.from = n.from
    BY <1>1, <2>1, KeysTellEnds DEF IInv, SealInv
  <2>3. m.seq = n.seq
    BY <2>1, LowBits, ChannelAssumption DEF GCMNonce
  <2> QED
    BY <1>1, <2>2, <2>3 DEF IInv, SealInv
<1> QED
  BY Invariance, <1>1, PTL

\* The window of Open: what gets past the number check is newer than everything
\* returned, or about to be returned, at the same end.
THEOREM OpenedInOrder == Spec => OpensInOrder
<1> DEFINE InOrder ==
        \A o \in Openers :
            ~opening[o].busy /\ opening'[o].busy =>
                LET e == opening'[o].at
                    n == opening'[o].message.seq
                IN  /\ \A p \in BagToSet(delivered) : p.from = Peer(e) => p.seq < n
                    /\ \A u \in Openers : opening[u].busy /\ opening[u].at = e
                                             => opening[u].message.seq < n
<1>1. ASSUME IInv, [Next]_vars PROVE InOrder \/ UNCHANGED vars
  <2>1. ASSUME NEW o \in Openers, NEW e \in Ends, NEW m \in sent, OpenClaim(o, e, m)
        PROVE  InOrder
    <3>1. m.seq \in Numbers /\ recvMax[e] < m.seq
      BY <1>1, <2>1 DEF OpenClaim, See, Fresh, IInv, TypeOK, Message
    <3>2. \A u \in Openers : opening'[u] = opening[u]
              \/ (opening'[u].busy /\ opening'[u].at = e /\ opening'[u].message = m)
      BY <1>1, <2>1 DEF OpenClaim, IInv, TypeOK
    <3> QED
      BY <1>1, <3>1, <3>2, NewerThanAll
  <2>2. ASSUME NEW o \in Openers, OpenReturn(o)
        PROVE  InOrder
    BY <1>1, <2>2 DEF OpenReturn, Nothing, IInv, TypeOK
  <2>3. CASE UNCHANGED opening
    BY <2>3
  <2> QED
    BY <1>1, <2>1, <2>2, <2>3 DEF Next, Begin, Accept, Complete, CompleteClaim, CompleteFails,
        Prune, Seal, OpenDamaged
<1> QED
  BY Invariance, <1>1, PTL DEF Spec, OpensInOrder

\* Every session is a secure link: a seal submits a parcel, a return delivers one
\* that was submitted and not delivered yet, and no other step shows.
THEOREM ChannelIsLink == Spec => ImplementsLink
<1>1. Init => Link!Init
  BY DEF Init, Link!Init, Submitted, EmptyBag, SetToBag, Link!EmptyBag, Link!SetToBag
<1>2. ASSUME IInv, [Next]_vars PROVE [Link!Next]_<<Submitted, delivered>>
  <2>1. ASSUME NEW e \in Ends, NEW text \in Texts, Seal(e, text)
        PROVE  Link!Submit
    <3> DEFINE m == [from |-> e, seq |-> sendSeq'[e], key |-> SendKey(e), text |-> text]
               p == [from |-> e, seq |-> sendSeq'[e], text |-> text]
    <3>1. sent' = sent \cup {m}
      BY <2>1 DEF Seal
    <3>2. Submitted' = Submitted \cup {p}
      <4>1. {[from |-> n.from, seq |-> n.seq, text |-> n.text] : n \in sent \cup {m}}
              = Submitted \cup {[from |-> m.from, seq |-> m.seq, text |-> m.text]}
        BY DEF Submitted
      <4> QED
        BY <3>1, <4>1 DEF Submitted
    <3>3. IInv' /\ m \in sent'
      BY <1>2, <2>1, <3>1, SealStep
    <3>4. p \in Parcel
      <4>1. m \in Message
        BY <3>3 DEF IInv, TypeOK
      <4> QED
        BY <4>1 DEF Message, Parcel
    <3> QED
      BY <2>1, <3>2, <3>4 DEF Link!Submit, Seal
  <2>2. ASSUME NEW o \in Openers, OpenReturn(o)
        PROVE  Link!Deliver
    BY <1>2, <2>2, ReturnedIsNew
    DEF OpenReturn, Link!Deliver, Submitted, BagToSet, SetToBag, (+),
        Link!BagToSet, Link!SetToBag, Link!(+)
  <2>3. CASE UNCHANGED <<sent, delivered>>
    BY <2>3 DEF Submitted
  <2> QED
    BY <1>2, <2>1, <2>2, <2>3 DEF Next, Begin, Accept, Complete, CompleteClaim, CompleteFails,
        Prune, OpenClaim, OpenDamaged, vars, Link!Next
<1> QED
  BY Invariance, <1>1, <1>2, PTL DEF Spec, ImplementsLink, Link!Spec
=============================================================================
