------------------------- MODULE TeeExchange_proofs -------------------------
(***************************************************************************)
(* What the enclaves tell each other: for all numbers of players, that     *)
(* shares go only to attested peers; for two, that they implement the      *)
(* abstract exchange of shares and end with the same seed, which has a     *)
(* part of each.  The proofs follow the shares that are under way from one *)
(* player to another.                                                      *)
(***************************************************************************)
EXTENDS TeeCrg_proofs

\* The shares of q that are under way to p: in their connection, or read by
\* p as a client and not yet stored.
Elements(queue) == {queue[i] : i \in 1 .. Len(queue)}
Wire(q, p) == IF q < p THEN link[<<q, p>>].up ELSE link[<<p, q>>].down
Held(q, p) ==
  IF pc[p] \in {"cli_send", "cli_add"} /\ other[p] = q THEN {received[p]} \ {Null} ELSE {}
Sent(q, p) == (Elements(Wire(q, p)) \cup Held(q, p)) \cap SecretShare

\* A player sends its shares to the peer that is due.
Sends(q, p) ==
  /\ other[q] = p
  /\ \/ pc[q] = "srv_send" /\ p < q
     \/ pc[q] = "cli_send" /\ q < p /\ link[<<q, p>>].alive

\* The two values of a message that nobody has sent.
Forged(m) == JunkParses /\ m = JunkShare

\* A player stores a message under the number of the peer that is due.
Adds(p, m) ==
  /\ seed'[p] = addHex(seed[p], m.seeds)
  /\ macKeys'[p] = [macKeys[p] EXCEPT ![other[p]] = m.mackeyshare]

-----------------------------------------------------------------------------
\* Unless an unread buffer unpacks, shares are what they are said to be.
GenuineInv ==
  ~JunkParses =>
    /\ \A p, q \in Players : macKeys[p][q] # Junk
    /\ \A p, q \in Players : p # q => \A m \in Sent(q, p) : m.mackeyshare = q
    /\ \A p \in Players : pc[p] \in Before => \A m \in Elements(local[p]) : m.mackeyshare = p

\* A client goes on with a connection only after it has read from it.
HeardInv ==
  \A c \in Players : pc[c] = "cli_send" /\ link[<<c, other[c]>>].alive => received[c] # Null

\* An enclave has the shares of all players it has attested, but for the one
\* it talks to.
FilledInv ==
  \A p, q \in Players :
    q \in attested[p] /\ pc[p] \notin {"exited", "srv_close"} =>
      macKeys[p][q] # None \/ (pc[p] \in Attending \cup Talking /\ q = other[p])

\* A server attests those that accept it and that it accepts, and answers
\* only in its own job; shares are under way only between players for which
\* all this holds, and from one that has its own.
CompatibleInv ==
  /\ \A c, s \in Players : c < s /\ c \in attested[s] => Accepts(s, c) /\ Accepts(c, s)
  /\ \A s \in Players : pc[s] \in {"srv_send", "srv_share"} => env[s].job = env[other[s]].job
  /\ ~JunkParses => \A p, q \in Players : p # q /\ Sent(q, p) # {} =>
       Compatible(p, q) /\ macKeys[q][q] # None

ExchangeInv == GenuineInv /\ HeardInv /\ FilledInv /\ CompatibleInv

-----------------------------------------------------------------------------
\* Two players: the seed is the own random value until the other one's is
\* added.
PairSum == addHex(OwnSeed(0), OwnSeed(1))
PairInv ==
  /\ \A p \in Players : pc[p] \notin Ended \cup {"launch"} => seed[p] = OwnSeed(p)
  /\ \A p, q \in Players : p # q => \A m \in Sent(q, p) : m.seeds = OwnSeed(q)
  /\ \A p \in Players : pc[p] = "launch" => seed[p] = PairSum
  /\ \A p \in Players : \A command \in launched[p] :
       command.prngseed = PairSum /\ command.keys = [q \in Players |-> q]

-----------------------------------------------------------------------------
\* Queues.
LEMMA QueueElements ==
  ASSUME NEW S, NEW queue \in Seq(S)
  PROVE  /\ Elements(queue) \subseteq S
         /\ Elements(<<>>) = {}
         /\ queue # <<>> => Head(queue) \in Elements(queue) /\ Elements(Tail(queue)) \subseteq Elements(queue)
         /\ \A m \in S : Elements(Append(queue, m)) = Elements(queue) \cup {m}
<1>1. Elements(queue) \subseteq S BY DEF Elements
<1>2. Elements(<<>>) = {} BY DEF Elements
<1>3. ASSUME queue # <<>>
      PROVE  Head(queue) \in Elements(queue) /\ Elements(Tail(queue)) \subseteq Elements(queue)
  <2>1. Len(queue) \in Nat /\ 1 \in 1 .. Len(queue) /\ Head(queue) = queue[1] BY <1>3
  <2>2. Len(Tail(queue)) = Len(queue) - 1 BY <1>3
  <2>3. \A i \in 1 .. Len(queue) - 1 : Tail(queue)[i] = queue[i + 1] /\ i + 1 \in 1 .. Len(queue)
    BY <1>3, <2>1
  <2>4. ASSUME NEW x \in Elements(Tail(queue)) PROVE x \in Elements(queue)
    BY <2>2, <2>3 DEF Elements
  <2> QED BY <2>1, <2>4 DEF Elements
<1>4. ASSUME NEW m \in S PROVE Elements(Append(queue, m)) = Elements(queue) \cup {m}
  <2>1. Len(queue) \in Nat /\ Len(Append(queue, m)) = Len(queue) + 1 OBVIOUS
  <2>2. \A i \in 1 .. Len(queue) : Append(queue, m)[i] = queue[i] /\ i \in 1 .. Len(queue) + 1
    BY <2>1
  <2>3. Append(queue, m)[Len(queue) + 1] = m /\ Len(queue) + 1 \in 1 .. Len(queue) + 1
    BY <2>1
  <2>4. \A i \in 1 .. Len(queue) + 1 : i \in 1 .. Len(queue) \/ i = Len(queue) + 1 BY <2>1
  <2>5. Elements(Append(queue, m)) = {Append(queue, m)[i] : i \in 1 .. Len(queue) + 1}
    BY <2>1 DEF Elements
  <2>6. ASSUME NEW x \in Elements(queue) PROVE x \in Elements(Append(queue, m))
    <3>1. PICK i \in 1 .. Len(queue) : x = queue[i] BY DEF Elements
    <3> QED BY <2>2, <2>5, <3>1
  <2>7. ASSUME NEW x \in Elements(Append(queue, m)) PROVE x \in Elements(queue) \cup {m}
    <3>1. PICK i \in 1 .. Len(queue) + 1 : x = Append(queue, m)[i] BY <2>5
    <3>2. CASE i \in 1 .. Len(queue) BY <2>2, <3>1, <3>2 DEF Elements
    <3>3. CASE i = Len(queue) + 1 BY <2>3, <3>1, <3>3
    <3> QED BY <2>4, <3>2, <3>3
  <2>8. m \in Elements(Append(queue, m)) BY <2>3, <2>5
  <2> QED BY <2>6, <2>7, <2>8
<1> QED BY <1>1, <1>2, <1>3, <1>4

\* The number of a job is no share.
LEMMA InfoIsNoShare == PlayerInfo \cap SecretShare = {}
<1>1. SUFFICES ASSUME NEW m \in PlayerInfo, m \in SecretShare PROVE FALSE OBVIOUS
<1>2. DOMAIN m = {"kii_job_id", "player_number"} BY <1>1 DEF PlayerInfo
<1>3. DOMAIN m = {"mackeyshare", "seeds"} BY <1>1 DEF SecretShare
<1>4. "kii_job_id" \notin {"mackeyshare", "seeds"} OBVIOUS
<1> QED BY <1>2, <1>3, <1>4

-----------------------------------------------------------------------------
\* What a step does to a connection: a queue is emptied or read, or a message
\* is appended to it.
WireChange(c, s) ==
  LET l == link[<<c, s>>]
      n == link'[<<c, s>>]
  IN
  /\ \/ n.up \in {l.up, <<>>}
     \/ l.up # <<>> /\ n.up = Tail(l.up)
     \/ n.up = Append(l.up, Info(c))
     \/ n.up = Append(l.up, MyShare(c)) /\ Sends(c, s)
  /\ \/ n.down \in {l.down, <<>>}
     \/ n.down = Append(l.down, MyShare(s)) /\ Sends(s, c)
  /\ n.alive => l.alive \/ pc'[c] = "cli_handshake" \/ pc'[c] = "cli_info"

LEMMA WireStep ==
  ASSUME ProtocolInv, Outcome, NEW c \in Players, NEW s \in Players, c < s
  PROVE  WireChange(c, s)
<1> DEFINE u == link[<<c, s>>].up
           v == link'[<<c, s>>].up
           d == link[<<c, s>>].down
           e == link'[<<c, s>>].down
           a == link[<<c, s>>].alive
           b == link'[<<c, s>>].alive
           Fewer == v \in {u, <<>>} /\ e \in {d, <<>>} /\ (b => a)
           Change ==
             /\ \/ v \in {u, <<>>}
                \/ u # <<>> /\ v = Tail(u)
                \/ v = Append(u, Info(c))
                \/ v = Append(u, MyShare(c)) /\ Sends(c, s)
             /\ e \in {d, <<>>} \/ (e = Append(d, MyShare(s)) /\ Sends(s, c))
             /\ b => a \/ pc'[c] = "cli_handshake" \/ pc'[c] = "cli_info"
<1>1. Change => WireChange(c, s) BY DEF WireChange
<1>2. Fewer => Change OBVIOUS
<1>3. UNCHANGED link => Fewer OBVIOUS
<1>4. /\ TypeOK /\ pc \in [Players -> EnclavePoints] /\ <<c, s>> \in Pairs
      /\ link \in [Pairs -> Links] /\ link[<<c, s>>] \in Links
  <2>1. TypeOK /\ pc \in [Players -> EnclavePoints] BY DEF ProtocolInv, TypeOK
  <2> QED BY <2>1, PairFacts, LinkFacts
<1>5. link'[<<c, s>>] = link[<<c, s>>] => Fewer OBVIOUS
<1> HIDE DEF u, v, d, e, a, b, Fewer, Change
<1>6. ASSUME NEW P, Exits(P) PROVE Change
  <2>1. P \in SUBSET Players /\ link' = Hangup(P) BY <1>6 DEF Exits
  <2>2. Fewer BY <1>4, <2>1, HangupFacts DEF Fewer, u, v, d, e, a, b
  <2> QED BY <1>2, <2>2
<1>7. ASSUME NEW t \in Players, NEW k, Accepted(t, k) PROVE Change
  <2>1. CASE Accepts(t, k) BY <1>2, <1>3, <1>7, <2>1 DEF Accepted
  <2>2. CASE ~Accepts(t, k)
    <3> DEFINE P == {t}
    <3>1. link' = Hangup(P) BY <1>7, <2>2 DEF Accepted
    <3>2. P \in SUBSET Players OBVIOUS
    <3> HIDE DEF P
    <3>3. Fewer BY <1>4, <3>1, <3>2, HangupFacts DEF Fewer, u, v, d, e, a, b
    <3> QED BY <1>2, <3>3
  <2> QED BY <2>1, <2>2
<1>8. ASSUME NEW t \in Players, InfoRead(t) PROVE Change
  <2> DEFINE k == served[t]
             x == Tail(link[<<k, t>>].up)
  <2>1. pc[t] = "srv_info" /\ link[<<k, t>>].up # <<>> /\ link' = [link EXCEPT ![<<k, t>>].up = x]
    BY <1>8 DEF InfoRead
  <2>2. k \in Players /\ k < t /\ link[<<k, t>>] \in Links BY <2>1, Ends DEF Attending
  <2>3. x \in Seq(PlayerInfo \cup SecretShare) BY <1>4, <2>1, <2>2, LinkFacts
  <2>4. SetsUp(k, t, x) BY <2>1 DEF SetsUp
  <2> HIDE DEF k, x
  <2>5. /\ link'[<<k, t>>].up = x /\ link'[<<k, t>>].down = link[<<k, t>>].down
        /\ link'[<<k, t>>].alive = link[<<k, t>>].alive /\ Elsewhere(k, t)
    BY <1>4, <2>2, <2>3, <2>4, UpUpdate
  <2>6. CASE c = k /\ s = t
    <3>1. v = Tail(u) /\ e = d /\ b = a /\ u # <<>>
      BY <2>1, <2>5, <2>6 DEF u, v, d, e, a, b, x
    <3> QED BY <3>1 DEF Change
  <2>7. CASE ~(c = k /\ s = t)
    <3>1. link'[<<c, s>>] = link[<<c, s>>] BY <2>5, <2>7 DEF Elsewhere
    <3> QED BY <1>2, <1>5, <3>1
  <2> QED BY <2>6, <2>7
<1>9. ASSUME NEW t \in Players, ShareSent(t) PROVE Change
  <2> DEFINE k == served[t]
             l == link[<<k, t>>]
             x == IF l.alive THEN Append(l.down, MyShare(t)) ELSE l.down
  <2>1. pc[t] = "srv_send" BY <1>9 DEF ShareSent
  <2>2. k \in Players /\ k < t /\ l \in Links /\ k = other[t]
    BY <2>1, Ends DEF Attending, ProtocolInv, RoleInv
  <2>3. MyShare(t) \in SecretShare
    BY <2>1, OwnShareFacts, MessageFacts DEF ProtocolInv, SlotInv, Serving, Attending
  <2>4. x \in Seq(SecretShare)
    <3>1. l.down \in Seq(SecretShare) BY <1>4, <2>2, LinkFacts
    <3>2. Append(l.down, MyShare(t)) \in Seq(SecretShare) BY <2>3, <3>1
    <3> QED BY <3>1, <3>2
  <2>5. SetsDown(k, t, x) BY <1>9 DEF ShareSent, SetsDown
  <2> HIDE DEF k, l, x
  <2>6. /\ link'[<<k, t>>].up = link[<<k, t>>].up /\ link'[<<k, t>>].down = x
        /\ link'[<<k, t>>].alive = link[<<k, t>>].alive /\ Elsewhere(k, t)
    BY <1>4, <2>2, <2>4, <2>5, DownUpdate
  <2>7. CASE c = k /\ s = t
    <3>1. v = u /\ (e = d \/ e = Append(d, MyShare(s))) /\ b = a
      BY <2>6, <2>7 DEF u, v, d, e, a, b, x, l
    <3>2. Sends(s, c) BY <2>1, <2>2, <2>7 DEF Sends
    <3> QED BY <3>1, <3>2 DEF Change
  <2>8. CASE ~(c = k /\ s = t)
    <3>1. link'[<<c, s>>] = link[<<c, s>>] BY <2>6, <2>8 DEF Elsewhere
    <3> QED BY <1>2, <1>5, <3>1
  <2> QED BY <2>7, <2>8
<1>10. ASSUME NEW t \in Players, ShareRead(t) PROVE Change
  <2> DEFINE k == served[t]
  <2>1. pc[t] = "srv_share" /\ SetsUp(k, t, <<>>) BY <1>10 DEF ShareRead, SetsUp
  <2>2. k \in Players /\ k < t BY <2>1, Ends DEF Attending
  <2>3. <<>> \in Seq(PlayerInfo \cup SecretShare) OBVIOUS
  <2> HIDE DEF k
  <2>4. /\ link'[<<k, t>>].up = <<>> /\ link'[<<k, t>>].down = link[<<k, t>>].down
        /\ link'[<<k, t>>].alive = link[<<k, t>>].alive /\ Elsewhere(k, t)
    BY <1>4, <2>1, <2>2, <2>3, UpUpdate
  <2>5. Fewer BY <2>4 DEF Elsewhere, Fewer, u, v, d, e, a, b
  <2> QED BY <1>2, <2>5
<1>11. ASSUME NEW k \in Players, ClientConnect(k) PROVE Change
  <2> DEFINE t == other[k]
             l == [alive |-> TRUE, up |-> <<>>, down |-> <<>>]
  <2>1. /\ pc[k] = "cli_connect" /\ link' = [link EXCEPT ![<<k, t>>] = l]
        /\ pc' = [pc EXCEPT ![k] = IF t = N - 1 THEN "cli_handshake" ELSE "cli_info"]
    BY <1>11 DEF ClientConnect, FirstServer
  <2>2. <<k, t>> \in Pairs BY <2>1, Ends DEF Dialing
  <2>3. CASE c = k /\ s = t
    <3>1. v = <<>> /\ e = <<>> /\ (pc'[c] = "cli_handshake" \/ pc'[c] = "cli_info")
      BY <1>4, <2>1, <2>3 DEF v, e
    <3> QED BY <3>1 DEF Change
  <2>4. CASE ~(c = k /\ s = t)
    <3>1. <<c, s>> # <<k, t>> BY <2>4
    <3>2. link'[<<c, s>>] = link[<<c, s>>] BY <1>4, <2>1, <2>2, <3>1
    <3> QED BY <1>2, <1>5, <3>2
  <2> QED BY <2>3, <2>4
<1>12. ASSUME NEW k \in Players, NEW x, NEW y, NEW m \in PlayerInfo \cup SecretShare,
              Queued(k, x, y, m), x \in {"cli_info", "cli_send"}
       PROVE  /\ ~(c = k /\ s = other[k]) => Change
              /\ c = k /\ s = other[k] => v = (IF a THEN Append(u, m) ELSE u) /\ e = d /\ b = a
  <2> DEFINE t == other[k]
             l == link[<<k, t>>]
             w == IF l.alive THEN Append(l.up, m) ELSE l.up
  <2>1. pc[k] = x BY <1>12 DEF Queued
  <2>2. t \in Players /\ k < t /\ l \in Links BY <1>12, <2>1, Ends DEF Dialing, Talking
  <2>3. w \in Seq(PlayerInfo \cup SecretShare)
    <3>1. l.up \in Seq(PlayerInfo \cup SecretShare) BY <1>4, <2>2, LinkFacts
    <3>2. Append(l.up, m) \in Seq(PlayerInfo \cup SecretShare) BY <3>1
    <3> QED BY <3>1, <3>2
  <2>4. SetsUp(k, t, w) BY <1>12 DEF Queued, Up, SetsUp
  <2> HIDE DEF t, l, w
  <2>5. /\ link'[<<k, t>>].up = w /\ link'[<<k, t>>].down = link[<<k, t>>].down
        /\ link'[<<k, t>>].alive = link[<<k, t>>].alive /\ Elsewhere(k, t)
    BY <1>4, <2>2, <2>3, <2>4, UpUpdate
  <2>6. ASSUME ~(c = k /\ s = t) PROVE Change
    <3>1. link'[<<c, s>>] = link[<<c, s>>] BY <2>5, <2>6 DEF Elsewhere
    <3> QED BY <1>2, <1>5, <3>1
  <2>7. ASSUME c = k, s = t PROVE v = (IF a THEN Append(u, m) ELSE u) /\ e = d /\ b = a
    BY <2>5, <2>7 DEF u, v, d, e, a, b, w, l
  <2> QED BY <2>6, <2>7 DEF t
<1>13. ASSUME NEW k \in Players, Queued(k, "cli_info", "cli_read", Info(k)) PROVE Change
  <2>1. Info(k) \in PlayerInfo \cup SecretShare BY QueueFacts DEF ProtocolInv
  <2>2. /\ ~(c = k /\ s = other[k]) => Change
        /\ c = k /\ s = other[k] => v = (IF a THEN Append(u, Info(k)) ELSE u) /\ e = d /\ b = a
    BY <1>12, <1>13, <2>1
  <2> QED BY <2>2 DEF Change
<1>14. ASSUME NEW k \in Players, Queued(k, "cli_send", "cli_add", MyShare(k)) PROVE Change
  <2>1. pc[k] = "cli_send" BY <1>14 DEF Queued
  <2> DEFINE m == MyShare(k)
  <2>2. m \in PlayerInfo \cup SecretShare
    BY <2>1, OwnShareFacts, MessageFacts DEF ProtocolInv, SlotInv, Dialing, Talking
  <2>3. /\ ~(c = k /\ s = other[k]) => Change
        /\ c = k /\ s = other[k] => v = (IF a THEN Append(u, m) ELSE u) /\ e = d /\ b = a
    BY <1>12, <1>14, <2>2
  <2>4. c = k /\ s = other[k] /\ a => Sends(c, s) BY <2>1 DEF Sends, a
  <2> QED BY <2>3, <2>4 DEF Change
<1>15. ASSUME NEW k \in Players, ClientReadShare(k) PROVE Change
  <2> DEFINE t == other[k]
  <2>1. pc[k] = "cli_read" BY <1>15 DEF ClientReadShare
  <2>2. t \in Players /\ k < t BY <2>1, Ends DEF Dialing, Talking
  <2>3. SetsDown(k, t, <<>>) /\ <<>> \in Seq(SecretShare) BY <1>15 DEF ClientReadShare, SetsDown
  <2> HIDE DEF t
  <2>4. /\ link'[<<k, t>>].up = link[<<k, t>>].up /\ link'[<<k, t>>].down = <<>>
        /\ link'[<<k, t>>].alive = link[<<k, t>>].alive /\ Elsewhere(k, t)
    BY <1>4, <2>2, <2>3, DownUpdate
  <2>5. Fewer BY <2>4 DEF Elsewhere, Fewer, u, v, d, e, a, b
  <2> QED BY <1>2, <2>5
<1>16. ASSUME NEW pair \in Pairs, Breaks(pair) PROVE Change
  <2>1. Fewer BY <1>4, <1>16, BreakFacts DEF Fewer, u, v, d, e, a, b
  <2> QED BY <1>2, <2>1
<1>17. ASSUME UNCHANGED link PROVE Change BY <1>2, <1>3, <1>17
<1>18. Change
  <2>1. CASE KiiMoves BY <1>17, <2>1 DEF KiiMoves, connections
  <2>2. ASSUME NEW p \in Players, NEW x, Moves(p, x) PROVE Change
    BY <1>17, <2>2 DEF Moves, connections
  <2>3. ASSUME NEW p \in Players, OwnShareRead(p) PROVE Change
    BY <1>17, <2>3 DEF OwnShareRead, connections
  <2>4. ASSUME NEW p \in Players, RoleTaken(p) \/ ShareAdded(p) PROVE Change
    BY <1>17, <2>4 DEF RoleTaken, ShareAdded, connections
  <2>5. ASSUME NEW p \in Players, Generates(p) PROVE Change
    BY <1>17, <2>5 DEF Generates, connections
  <2> QED BY <1>6, <1>7, <1>8, <1>9, <1>10, <1>11, <1>13, <1>14, <1>15, <1>16,
             <2>1, <2>2, <2>3, <2>4, <2>5
          DEF Outcome, ServerOutcome, ClientOutcome
<1> QED BY <1>1, <1>18

-----------------------------------------------------------------------------
\* What a client reads is on the way to it, or forged.
LEMMA ReadFacts ==
  ASSUME ProtocolInv, NEW c \in Players, ClientReadShare(c)
  PROVE  /\ received'[c] = Null \/ Forged(received'[c]) \/
              received'[c] \in Elements(link[<<c, other[c]>>].down)
         /\ link[<<c, other[c]>>].alive => received'[c] # Null
<1> DEFINE down == link[<<c, other[c]>>].down
           alive == link[<<c, other[c]>>].alive
<1>1. pc[c] = "cli_read" /\ \E message \in Unpacked(down, alive) :
        received' = [received EXCEPT ![c] = message]
  BY DEF ClientReadShare
<1>2. other[c] \in Players /\ c < other[c] /\ link[<<c, other[c]>>] \in Links
  BY <1>1, Ends DEF Dialing, Talking
<1>3. down \in Seq(SharesOf(other[c])) /\ alive \in BOOLEAN
  <2>1. alive \in BOOLEAN BY <1>2, LinkFacts DEF ProtocolInv
  <2> QED BY <1>2, <2>1 DEF ProtocolInv, ChannelInv
<1> HIDE DEF down, alive
<1>4. PICK message \in Unpacked(down, alive) : received'[c] = message
  BY <1>1 DEF ProtocolInv, TypeOK
<1>5. CASE down # <<>>
  <2>1. message = Head(down) BY <1>4, <1>5 DEF Unpacked
  <2>2. Head(down) \in Elements(down) BY <1>3, <1>5, QueueElements
  <2>3. Head(down) \in SharesOf(other[c]) BY <1>3, <1>5
  <2>4. Head(down) # Null BY <2>3, MessageFacts
  <2> QED BY <1>4, <2>1, <2>2, <2>4 DEF down
<1>6. CASE down = <<>>
  <2>1. ~alive /\ (message = Null \/ (JunkParses /\ message = JunkShare))
    BY <1>3, <1>4, <1>6 DEF Unpacked
  <2> QED BY <1>4, <2>1 DEF alive, Forged
<1> QED BY <1>5, <1>6

\* What a player has read before it stores it.
LEMMA HeldStep ==
  ASSUME ProtocolInv, Outcome, NEW p \in Players, NEW q \in Players, NEW m \in Held(q, p)'
  PROVE  m \in Held(q, p) \/ Forged(m) \/ (p < q /\ m \in Elements(link[<<p, q>>].down))
<1> USE DEF Ended
<1>1. pc'[p] \in {"cli_send", "cli_add"} /\ other'[p] = q /\ m = received'[p] /\ m # Null
  <2>1. Null' = Null BY DEF Null, OwnSeed
  <2> QED BY <2>1 DEF Held
<1>2. PlayerOutcome(p) BY PlayerStep
<1>3. /\ AfterServer(p) = (IF p < N - 1 THEN "cli_setup" ELSE "launch")
      /\ AfterLocal(p) = (IF p > 0 THEN "srv_setup" ELSE AfterServer(p))
  BY AfterFacts
<1>4. \/ pc[p] \in {"cli_send", "cli_add"} /\ other[p] = q /\ received'[p] = received[p]
      \/ pc[p] = "cli_read" /\ other[p] = q /\ ClientReadShare(p)
  BY <1>1, <1>2, <1>3 DEF PlayerOutcome, KeepsOn, KeepsPlace, Goes, Before
<1>5. CASE pc[p] \in {"cli_send", "cli_add"} /\ other[p] = q /\ received'[p] = received[p]
  BY <1>1, <1>5 DEF Held
<1>6. CASE pc[p] = "cli_read" /\ other[p] = q /\ ClientReadShare(p)
  <2>1. p < q BY <1>6, Ends DEF Dialing, Talking
  <2> QED BY <1>1, <1>6, <2>1, ReadFacts
<1> QED BY <1>4, <1>5, <1>6

\* Nothing but a player's own current shares is ever sent in its name.
SentOnly(p, q) ==
  \A m \in Sent(q, p)' : m \in Sent(q, p) \/ Forged(m) \/ (m = MyShare(q) /\ Sends(q, p))

LEMMA SentStep ==
  ASSUME ProtocolInv, ProtocolInv', Outcome, NEW p \in Players, NEW q \in Players, p # q
  PROVE  SentOnly(p, q)
<1> SUFFICES ASSUME NEW m \in Sent(q, p)'
             PROVE  m \in Sent(q, p) \/ Forged(m) \/ (m = MyShare(q) /\ Sends(q, p))
  BY DEF SentOnly
<1>1. m \in SecretShare /\ m \in Elements(Wire(q, p))' \cup Held(q, p)'
  <2>1. SecretShare' = SecretShare BY DEF SecretShare, Seeds, Shares
  <2> QED BY <2>1 DEF Sent
<1>2. p \in Int /\ q \in Int BY DEF Players
<1>3. TypeOK /\ RoleInv BY DEF ProtocolInv
<1>4. CASE q < p
  <2> DEFINE u == link[<<q, p>>].up
             v == link'[<<q, p>>].up
  <2>1. m \notin Held(q, p)'
    <3>1. pc'[p] \in {"cli_send", "cli_add"} => p < other'[p]
      BY DEF ProtocolInv, RoleInv, Dialing, Talking
    <3> QED BY <1>2, <1>4, <3>1 DEF Held
  <2>2. m \in Elements(v) BY <1>1, <1>2, <1>4, <2>1 DEF Wire, Elements
  <2>3. \/ v \in {u, <<>>}
        \/ u # <<>> /\ v = Tail(u)
        \/ v = Append(u, Info(q))
        \/ v = Append(u, MyShare(q)) /\ Sends(q, p)
    BY <1>4, WireStep DEF WireChange
  <2>4. u \in Seq(PlayerInfo \cup SecretShare)
    <3>1. link[<<q, p>>] \in Links BY <1>3, <1>4, PairFacts, LinkFacts
    <3> QED BY <1>3, <3>1, LinkFacts
  <2>5. Info(q) \in PlayerInfo BY <1>3, QueueFacts
  <2>6. Sends(q, p) => MyShare(q) \in SecretShare
    <3>1. Sends(q, p) => macKeys[q][q] # None
      BY DEF Sends, ProtocolInv, SlotInv, Serving, Attending, Dialing, Talking
    <3> QED BY <3>1, OwnShareFacts, MessageFacts DEF ProtocolInv
  <2>7. Elements(u) \cap SecretShare \subseteq Sent(q, p) BY <1>2, <1>4 DEF Sent, Wire
  <2> HIDE DEF u, v
  <2>8. CASE v \in {u, <<>>} BY <1>1, <2>2, <2>4, <2>7, <2>8, QueueElements
  <2>9. CASE u # <<>> /\ v = Tail(u) BY <1>1, <2>2, <2>4, <2>7, <2>9, QueueElements
  <2>10. CASE v = Append(u, Info(q))
    <3>1. m \in Elements(u) \cup {Info(q)} BY <2>2, <2>4, <2>5, <2>10, QueueElements
    <3>2. m # Info(q) BY <1>1, <2>5, InfoIsNoShare
    <3> QED BY <1>1, <2>7, <3>1, <3>2
  <2>11. CASE v = Append(u, MyShare(q)) /\ Sends(q, p)
    <3>1. m \in Elements(u) \cup {MyShare(q)} BY <2>2, <2>4, <2>6, <2>11, QueueElements
    <3> QED BY <1>1, <2>7, <2>11, <3>1
  <2> QED BY <2>3, <2>8, <2>9, <2>10, <2>11
<1>5. CASE p < q
  <2> DEFINE d == link[<<p, q>>].down
             e == link'[<<p, q>>].down
  <2>1. e \in {d, <<>>} \/ (e = Append(d, MyShare(q)) /\ Sends(q, p))
    BY <1>5, WireStep DEF WireChange
  <2>2. d \in Seq(SecretShare)
    <3>1. link[<<p, q>>] \in Links BY <1>3, <1>5, PairFacts, LinkFacts
    <3> QED BY <1>3, <3>1, LinkFacts
  <2>3. Sends(q, p) => MyShare(q) \in SecretShare
    <3>1. Sends(q, p) => macKeys[q][q] # None
      BY DEF Sends, ProtocolInv, SlotInv, Serving, Attending, Dialing, Talking
    <3> QED BY <3>1, OwnShareFacts, MessageFacts DEF ProtocolInv
  <2>4. Elements(d) \cap SecretShare \subseteq Sent(q, p)
    <3>1. Wire(q, p) = d BY <1>2, <1>5 DEF Wire
    <3> QED BY <3>1 DEF Sent
  <2>5. m \in Elements(e) \/ m \in Held(q, p)'
    <3>1. Wire(q, p)' = e BY <1>2, <1>5 DEF Wire
    <3> QED BY <1>1, <3>1 DEF Elements
  <2>6. CASE m \in Held(q, p)'
    <3>1. m \in Held(q, p) \/ Forged(m) \/ m \in Elements(d) BY <2>6, HeldStep
    <3> QED BY <1>1, <2>4, <3>1 DEF Sent
  <2> HIDE DEF d, e
  <2>7. CASE m \in Elements(e) /\ e \in {d, <<>>} BY <1>1, <2>2, <2>4, <2>7, QueueElements
  <2>8. CASE m \in Elements(e) /\ e = Append(d, MyShare(q)) /\ Sends(q, p)
    <3>1. m \in Elements(d) \cup {MyShare(q)} BY <2>2, <2>3, <2>8, QueueElements
    <3> QED BY <1>1, <2>4, <2>8, <3>1
  <2> QED BY <2>1, <2>5, <2>6, <2>7, <2>8
<1> QED BY <1>2, <1>4, <1>5

\* What a step stores.
OwnStored(p) ==
  /\ pc[p] = "local_read" /\ pc'[p] = AfterLocal(p) /\ other'[p] = other[p]
  /\ seed'[p] = seed[p]
  /\ \E m \in SharesOf(p) :
       /\ m \in Elements(local[p]) \/ Forged(m)
       /\ macKeys'[p] = [macKeys[p] EXCEPT ![p] = m.mackeyshare]
PeerStored(p) ==
  /\ \/ pc[p] = "srv_share" /\ pc'[p] = IF other[p] + 1 >= p THEN AfterServer(p) ELSE "srv_accept"
     \/ pc[p] = "cli_add" /\ pc'[p] = IF other[p] - 1 >= p + 1 THEN "cli_endpoint" ELSE "launch"
  /\ \E m \in SharesOf(other[p]) : (m \in Sent(other[p], p) \/ Forged(m)) /\ Adds(p, m)

LEMMA PeerShareStored ==
  ASSUME ProtocolInv, NEW p \in Players, ShareRead(p) \/ ShareAdded(p)
  PROVE  PeerStored(p)
<1>1. /\ TypeOK /\ macKeys \in [Players -> [Players -> Shares \cup {None}]]
      /\ seed \in [Players -> Seeds] /\ other[p] \in Players /\ pc \in [Players -> EnclavePoints]
  BY DEF ProtocolInv, TypeOK
<1>2. ASSUME NEW m, StoreShare(p, m) PROVE Adds(p, m)
  BY <1>1, <1>2 DEF StoreShare, Adds
<1>3. CASE ShareRead(p)
  <2>0. Goes(p, "srv_share", IF other[p] + 1 >= p THEN AfterServer(p) ELSE "srv_accept")
    BY <1>1, <1>3 DEF ShareRead, Goes
  <2> DEFINE q == other[p]
             u == link[<<q, p>>].up
             a == link[<<q, p>>].alive
  <2>1. served[p] = q /\ q < p /\ q \in Players /\ u \in ShareQueue(q)
    BY <1>1, <2>0 DEF Goes, ProtocolInv, RoleInv, ChannelInv, Serving, Attending
  <2>2. PICK m \in Unpacked(u, a) \ {Null} : StoreShare(p, m) BY <1>3, <2>1 DEF ShareRead
  <2>3. u \in Seq(SharesOf(q)) BY <2>1, QueueFacts DEF ProtocolInv
  <2>4. a \in BOOLEAN
    <3>1. link[<<q, p>>] \in Links BY <1>1, <2>1, PairFacts, LinkFacts
    <3> QED BY <1>1, <3>1, LinkFacts
  <2>5. Elements(u) \cap SecretShare \subseteq Sent(q, p)
    <3>1. Wire(q, p) = u BY <2>1 DEF Wire
    <3> QED BY <3>1 DEF Sent
  <2> HIDE DEF q, u, a
  <2>6. m \in SharesOf(q) BY <2>1, <2>2, <2>3, <2>4, UnpackedFacts
  <2>7. m \in Sent(q, p) \/ Forged(m)
    <3>1. CASE u # <<>>
      <4>1. m \in Elements(u) BY <2>2, <2>3, <3>1, QueueElements DEF Unpacked
      <4> QED BY <2>5, <2>6, <4>1, MessageFacts
    <3>2. CASE u = <<>> BY <2>2, <2>4, <3>2 DEF Unpacked, Forged
    <3> QED BY <3>1, <3>2
  <2>8. Adds(p, m) BY <1>2, <2>2
  <2> QED BY <2>0, <2>6, <2>7, <2>8 DEF PeerStored, Goes, q
<1>4. CASE ShareAdded(p)
  <2>0. Goes(p, "cli_add", IF other[p] - 1 >= p + 1 THEN "cli_endpoint" ELSE "launch")
    BY <1>1, <1>4 DEF ShareAdded, Goes
  <2> DEFINE m == received[p]
  <2>1. pc[p] = "cli_add" /\ m # Null /\ Adds(p, m) BY <1>2, <1>4 DEF ShareAdded
  <2>2. m \in SharesOf(other[p]) BY <2>1 DEF ProtocolInv, ReadInv
  <2>3. m \in Sent(other[p], p)
    <3>1. m \in Held(other[p], p) BY <2>1 DEF Held
    <3> QED BY <2>2, <3>1, MessageFacts DEF Sent
  <2> QED BY <2>0, <2>1, <2>2, <2>3 DEF PeerStored, Goes
<1> QED BY <1>3, <1>4

LEMMA StoreStep ==
  ASSUME ProtocolInv, Outcome, NEW p \in Players
  PROVE  KeepsShares(p) \/ OwnStored(p) \/ PeerStored(p)
<1>1. PlayerOutcome(p) BY PlayerStep
<1>2. /\ TypeOK /\ macKeys \in [Players -> [Players -> Shares \cup {None}]]
      /\ seed \in [Players -> Seeds] /\ other[p] \in Players
  BY DEF ProtocolInv, TypeOK
<1>3. \/ KeepsShares(p)
      \/ Goes(p, "local_read", AfterLocal(p)) /\ other'[p] = other[p] /\ OwnShareRead(p)
      \/ ShareRead(p) \/ ShareAdded(p)
  BY <1>1 DEF PlayerOutcome, KeepsOn
<1>4. CASE ShareRead(p) \/ ShareAdded(p) BY <1>4, PeerShareStored
<1>5. CASE Goes(p, "local_read", AfterLocal(p)) /\ other'[p] = other[p] /\ OwnShareRead(p)
  <2>1. PICK m \in Unpacked(local[p], kii[p] # "exited") \ {Null} :
          macKeys' = [macKeys EXCEPT ![p][p] = m.mackeyshare]
    BY <1>5 DEF OwnShareRead
  <2>2. local[p] \in Seq(SharesOf(p)) BY <1>5 DEF OwnShareRead, ProtocolInv, ReadInv, Before
  <2>3. m \in SharesOf(p) BY <2>1, <2>2, UnpackedFacts
  <2>4. m \in Elements(local[p]) \/ Forged(m)
    <3>1. CASE local[p] # <<>> BY <2>1, <2>2, <3>1, QueueElements DEF Unpacked
    <3>2. CASE local[p] = <<>> BY <2>1, <3>2 DEF Unpacked, Forged
    <3> QED BY <3>1, <3>2
  <2>5. macKeys'[p] = [macKeys[p] EXCEPT ![p] = m.mackeyshare] /\ seed'[p] = seed[p]
    BY <1>2, <1>5, <2>1 DEF OwnShareRead
  <2> QED BY <1>5, <2>3, <2>4, <2>5 DEF OwnStored, Goes
<1> QED BY <1>3, <1>4, <1>5

-----------------------------------------------------------------------------
LEMMA GenuineStep ==
  ASSUME ProtocolInv, ProtocolInv', GenuineInv, Outcome
  PROVE  GenuineInv'
<1> SUFFICES ASSUME ~JunkParses
             PROVE  /\ \A p, q \in Players : macKeys'[p][q] # Junk
                    /\ \A p, q \in Players : p # q => \A m \in Sent(q, p)' : m.mackeyshare = q
                    /\ \A p \in Players : pc'[p] \in Before =>
                         \A m \in Elements(local[p])' : m.mackeyshare = p
  BY DEF GenuineInv
<1>1. /\ \A p, q \in Players : macKeys[p][q] # Junk
      /\ \A p, q \in Players : p # q => \A m \in Sent(q, p) : m.mackeyshare = q
      /\ \A p \in Players : pc[p] \in Before => \A m \in Elements(local[p]) : m.mackeyshare = p
  BY DEF GenuineInv
<1>2. \A p \in Players : p # Junk BY DEF Players, Junk
<1>3. ASSUME NEW p \in Players, NEW q \in Players PROVE macKeys'[p][q] # Junk
  <2>1. macKeys[p] \in [Players -> Shares \cup {None}] /\ other[p] \in Players
    BY DEF ProtocolInv, TypeOK
  <2>2. CASE KeepsShares(p) BY <1>1, <2>2 DEF KeepsShares
  <2>3. CASE OwnStored(p)
    <3>1. PICK m \in SharesOf(p) : /\ m \in Elements(local[p]) \/ Forged(m)
                                   /\ macKeys'[p] = [macKeys[p] EXCEPT ![p] = m.mackeyshare]
      BY <2>3 DEF OwnStored
    <3>2. m.mackeyshare = p BY <1>1, <2>3, <3>1 DEF OwnStored, Before, Forged
    <3> QED BY <1>1, <1>2, <2>1, <3>1, <3>2
  <2>4. CASE PeerStored(p)
    <3>1. PICK m \in SharesOf(other[p]) : (m \in Sent(other[p], p) \/ Forged(m)) /\ Adds(p, m)
      BY <2>4 DEF PeerStored
    <3>2. other[p] # p
      BY <2>1, <2>4 DEF PeerStored, ProtocolInv, RoleInv, Serving, Attending, Dialing, Talking, Players
    <3>3. m.mackeyshare = other[p] BY <1>1, <2>1, <3>1, <3>2 DEF Forged
    <3> QED BY <1>1, <1>2, <2>1, <3>1, <3>3 DEF Adds
  <2> QED BY <2>2, <2>3, <2>4, StoreStep
<1>4. ASSUME NEW p \in Players, NEW q \in Players, p # q, NEW m \in Sent(q, p)'
      PROVE  m.mackeyshare = q
  <2>1. m \in Sent(q, p) \/ (m = MyShare(q) /\ Sends(q, p))
    BY <1>4, SentStep DEF SentOnly, Forged
  <2>2. CASE m \in Sent(q, p) BY <1>1, <1>4, <2>2
  <2>3. CASE m = MyShare(q) /\ Sends(q, p)
    <3>1. macKeys[q][q] # None
      BY <2>3 DEF Sends, ProtocolInv, SlotInv, Serving, Attending, Dialing, Talking
    <3>2. macKeys[q][q] = q BY <1>1, <3>1 DEF ProtocolInv, SlotInv
    <3> QED BY <2>3, <3>2 DEF MyShare
  <2> QED BY <2>1, <2>2, <2>3
<1>5. ASSUME NEW p \in Players, pc'[p] \in Before, NEW m \in Elements(local[p])'
      PROVE  m.mackeyshare = p
  <2>1. pc[p] \in Before /\ (local'[p] = local[p] \/ KiiSend(p)) BY <1>5, LocalStep
  <2>2. m \in Elements(local'[p]) BY DEF Elements
  <2>3. CASE local'[p] = local[p] BY <1>1, <2>1, <2>2, <2>3
  <2>4. CASE KiiSend(p)
    <3> DEFINE share == [mackeyshare |-> p, seeds |-> [x \in Players \cup {Junk} |-> 0]]
    <3>1. local \in [Players -> Seq(SecretShare)] BY DEF ProtocolInv, TypeOK
    <3>2. local'[p] \in {<<share>>, <<>>} BY <2>4, <3>1 DEF KiiSend
    <3>3. share.mackeyshare = p OBVIOUS
    <3> HIDE DEF share
    <3>4. Elements(<<share>>) = {share} /\ Elements(<<>>) = {} BY DEF Elements
    <3> QED BY <2>2, <3>2, <3>3, <3>4
  <2> QED BY <2>1, <2>3, <2>4
<1> QED BY <1>3, <1>4, <1>5

LEMMA HeardStep ==
  ASSUME ProtocolInv, HeardInv, Outcome
  PROVE  HeardInv'
<1> SUFFICES ASSUME NEW c \in Players, pc'[c] = "cli_send", link'[<<c, other'[c]>>].alive
             PROVE  received'[c] # Null
  <2>1. Null' = Null BY DEF Null, OwnSeed
  <2> QED BY <2>1 DEF HeardInv
<1>1. PlayerOutcome(c) BY PlayerStep
<1>2. /\ AfterServer(c) = (IF c < N - 1 THEN "cli_setup" ELSE "launch")
      /\ AfterLocal(c) = (IF c > 0 THEN "srv_setup" ELSE AfterServer(c))
  BY AfterFacts
<1>3. /\ other'[c] = other[c]
      /\ \/ pc[c] = "cli_send" /\ received'[c] = received[c]
         \/ pc[c] = "cli_read" /\ ClientReadShare(c)
  BY <1>1, <1>2 DEF PlayerOutcome, KeepsOn, KeepsPlace, Goes, Before
<1>4. other[c] \in Players /\ c < other[c] BY <1>3, Ends DEF Dialing, Talking
<1>5. link[<<c, other[c]>>].alive BY <1>3, <1>4, WireStep DEF WireChange
<1>6. CASE pc[c] = "cli_send" /\ received'[c] = received[c] BY <1>5, <1>6 DEF HeardInv
<1>7. CASE pc[c] = "cli_read" /\ ClientReadShare(c) BY <1>5, <1>7, ReadFacts
<1> QED BY <1>3, <1>6, <1>7

LEMMA FilledStep ==
  ASSUME N = 2, ProtocolInv, OrderInv, FilledInv, Outcome
  PROVE  FilledInv'
<1> USE DEF Ended
<1> SUFFICES ASSUME NEW p \in Players, NEW q \in Players, q \in attested'[p], pc'[p] # "exited",
                    pc'[p] # "srv_close", macKeys'[p][q] = None
             PROVE  pc'[p] \in Attending \cup Talking /\ q = other'[p]
  <2>1. None' = None BY DEF None
  <2> QED BY <2>1 DEF FilledInv
<1>1. PlayerOutcome(p) BY PlayerStep
<1>2. /\ AfterServer(p) = (IF p < N - 1 THEN "cli_setup" ELSE "launch")
      /\ AfterLocal(p) = (IF p > 0 THEN "srv_setup" ELSE AfterServer(p))
  BY AfterFacts
<1>3. macKeys[p][q] = None
  <2>1. q # None /\ Junk # None BY DEF Players, None, Junk
  <2> QED BY <2>1, SlotFacts
<1>4. macKeys[p] \in [Players -> Shares \cup {None}] /\ other[p] \in Players
  BY DEF ProtocolInv, TypeOK
<1>5. CASE q \in attested[p]
  <2>1. pc[p] # "exited" /\ pc[p] # "srv_close"
    BY <1>1 DEF PlayerOutcome, KeepsOn, KeepsPlace, Goes, Before
  <2>2. pc[p] \in Attending \cup Talking /\ q = other[p] BY <1>3, <1>5, <2>1 DEF FilledInv
  <2>3. ~Stores(p, other[p])
    <3>1. \A v \in {q, Junk} : v # None BY DEF Players, None, Junk
    <3> QED BY <1>4, <2>2, <3>1 DEF Stores
  <2> QED BY <1>1, <1>2, <2>2, <2>3
          DEF PlayerOutcome, KeepsOn, KeepsPlace, Goes, Before, Attending, Talking
<1>6. CASE q \notin attested[p]
  <2>1. \/ Goes(p, "srv_accept", "srv_info") /\ other'[p] = other[p] /\ p = N - 1
           /\ backlog[p] # <<>> /\ q = Head(backlog[p])
        \/ Goes(p, "cli_handshake", "cli_info") /\ other'[p] = other[p] /\ q = other[p]
    BY <1>1, <1>6 DEF PlayerOutcome, KeepsOn, KeepsPeers
  <2>2. pc[p] = "srv_accept" /\ backlog[p] # <<>> /\ p = N - 1 => Head(backlog[p]) = other[p]
    <3> SUFFICES ASSUME pc[p] = "srv_accept", backlog[p] # <<>>, p = N - 1
                 PROVE  Head(backlog[p]) = other[p]
      OBVIOUS
    <3>1. backlog[p] = <<0>> /\ other[p] = 0 BY DEF OrderInv, FirstInv, Listening
    <3> QED BY <3>1
  <2> QED BY <2>1, <2>2 DEF Goes, Attending, Talking
<1> QED BY <1>5, <1>6

LEMMA CompatibleStep ==
  ASSUME N = 2, ProtocolInv, ProtocolInv', OrderInv, HeardInv, CompatibleInv, Outcome
  PROVE  CompatibleInv'
<1> USE DEF Ended
<1>1. /\ env' = env
      /\ \A p, q \in Players : Accepts(p, q)' <=> Accepts(p, q)
      /\ \A p, q \in Players : Compatible(p, q)' <=> Compatible(p, q)
  <2>1. env' = env BY EnvironmentKept
  <2> QED BY <2>1 DEF Compatible, Accepts, Certified, my_verify_measurements
<1>2. ASSUME NEW c \in Players, NEW s \in Players, c < s, c \in attested'[s]
      PROVE  Accepts(s, c)' /\ Accepts(c, s)'
  <2>1. PlayerOutcome(s) BY PlayerStep
  <2>2. pc[s] \in Dialing => s < other[s] BY DEF ProtocolInv, RoleInv
  <2>3. CASE c \in attested[s] BY <1>1, <1>2, <2>3 DEF CompatibleInv
  <2>4. CASE c \notin attested[s]
    <3>1. \/ c = Head(backlog[s]) /\ Accepts(s, Head(backlog[s])) /\ Accepts(Head(backlog[s]), s)
          \/ Goes(s, "cli_handshake", "cli_info") /\ c = other[s]
      BY <1>2, <2>1, <2>4 DEF PlayerOutcome, KeepsOn, KeepsPeers
    <3>2. c \in Int /\ s \in Int BY DEF Players
    <3>3. Accepts(s, c) /\ Accepts(c, s) BY <1>2, <2>2, <3>1, <3>2 DEF Goes, Dialing
    <3> QED BY <1>1, <3>3
  <2> QED BY <2>3, <2>4
<1>3. ASSUME NEW s \in Players, pc'[s] \in {"srv_send", "srv_share"}
      PROVE  env'[s].job = env'[other'[s]].job
  <2>1. PlayerOutcome(s) BY PlayerStep
  <2>2. /\ AfterServer(s) = (IF s < N - 1 THEN "cli_setup" ELSE "launch")
        /\ AfterLocal(s) = (IF s > 0 THEN "srv_setup" ELSE AfterServer(s))
    BY AfterFacts
  <2>3. /\ other'[s] = other[s]
        /\ pc[s] \in {"srv_send", "srv_share"} \/ env[s].job = env[other[s]].job
    BY <1>3, <2>1, <2>2 DEF PlayerOutcome, KeepsOn, KeepsPlace, Goes, Before
  <2>4. env[s].job = env[other[s]].job BY <2>3 DEF CompatibleInv
  <2> QED BY <1>1, <2>3, <2>4
<1>4. ASSUME ~JunkParses, NEW p \in Players, NEW q \in Players, p # q, NEW m \in Sent(q, p)'
      PROVE  Compatible(p, q)' /\ macKeys'[q][q] # None
  <2>1. m \in Sent(q, p) \/ Sends(q, p) BY <1>4, SentStep DEF SentOnly, Forged
  <2>2. macKeys[q][q] # None => macKeys'[q][q] # None BY SlotFacts
  <2>3. p \in Int /\ q \in Int /\ 0 <= p BY DEF Players
  <2>4. CASE m \in Sent(q, p) BY <1>1, <1>4, <2>2, <2>4 DEF CompatibleInv
  <2>5. CASE Sends(q, p) /\ pc[q] = "srv_send"
    <3>1. p < q /\ other[q] = p BY <2>5 DEF Sends
    <3>2. p \in attested[q] BY <1>4, <2>5 DEF OrderInv, AttestedInv, Attending
    <3>3. env[q].job = env[p].job BY <2>5, <3>1 DEF CompatibleInv
    <3>4. Compatible(p, q) BY <3>1, <3>2, <3>3 DEF CompatibleInv, Compatible
    <3>5. macKeys[q][q] # None BY <2>5 DEF ProtocolInv, SlotInv, Serving, Attending
    <3> QED BY <1>1, <2>2, <3>4, <3>5
  <2>6. CASE Sends(q, p) /\ pc[q] = "cli_send"
    <3>1. q < p /\ other[q] = p /\ link[<<q, p>>].alive BY <2>6 DEF Sends
    <3>2. received[q] # Null BY <2>6, <3>1 DEF HeardInv
    <3>3. received[q] \in SharesOf(p) BY <2>6, <3>1, <3>2 DEF ProtocolInv, ReadInv
    <3>4. received[q] \in Sent(p, q)
      <4>1. received[q] \in Held(p, q) BY <2>6, <3>1, <3>2 DEF Held
      <4> QED BY <3>3, <4>1, MessageFacts DEF Sent
    <3>5. Compatible(q, p) BY <1>4, <3>4 DEF CompatibleInv
    <3>6. Compatible(p, q) BY <3>5 DEF Compatible
    <3>7. macKeys[q][q] # None BY <2>6 DEF ProtocolInv, SlotInv, Dialing, Talking
    <3> QED BY <1>1, <2>2, <3>6, <3>7
  <2> QED BY <2>1, <2>4, <2>5, <2>6 DEF Sends
<1>5. None' = None BY DEF None
<1> QED BY <1>2, <1>3, <1>4, <1>5 DEF CompatibleInv

\* At first nothing is under way.
LEMMA NothingSent ==
  ASSUME Init
  PROVE  \A p, q \in Players : p # q => Sent(q, p) = {}
<1> SUFFICES ASSUME NEW p \in Players, NEW q \in Players, p # q PROVE Sent(q, p) = {} OBVIOUS
<1>1. p \in Int /\ q \in Int BY DEF Players
<1>2. Wire(q, p) = <<>>
  <2>1. CASE q < p BY <1>1, <2>1, PairFacts DEF Init, Wire
  <2>2. CASE p < q BY <1>1, <2>2, PairFacts DEF Init, Wire
  <2> QED BY <1>1, <2>1, <2>2
<1>3. Elements(Wire(q, p)) = {} BY <1>2 DEF Elements
<1>4. Held(q, p) = {} BY DEF Init, Held
<1> QED BY <1>3, <1>4 DEF Sent

LEMMA ExchangeInit == ASSUME Init PROVE ExchangeInv
<1>1. GenuineInv
  <2>1. None # Junk BY DEF None, Junk
  <2>2. \A p \in Players : Elements(local[p]) = {} BY DEF Init, Elements
  <2>3. \A p, q \in Players : macKeys[p][q] = None BY DEF Init
  <2> QED BY <2>1, <2>2, <2>3, NothingSent DEF GenuineInv
<1>2. HeardInv BY DEF Init, HeardInv
<1>3. FilledInv BY DEF Init, FilledInv
<1>4. CompatibleInv BY NothingSent DEF Init, CompatibleInv
<1> QED BY <1>1, <1>2, <1>3, <1>4 DEF ExchangeInv

LEMMA ExchangeStep ==
  ASSUME HostsFit, N = 2, ProtocolInv, OrderInv, ExchangeInv, [Next]_vars
  PROVE  ProtocolInv' /\ OrderInv' /\ ExchangeInv' /\ Outcome
<1>1. ProtocolInv' /\ Outcome BY ProtocolStep
<1>2. OrderInv' BY OrderStep
<1>3. GenuineInv' BY <1>1, GenuineStep DEF ExchangeInv
<1>4. HeardInv' BY <1>1, HeardStep DEF ExchangeInv
<1>5. FilledInv' BY <1>1, FilledStep DEF ExchangeInv
<1>6. CompatibleInv' BY <1>1, CompatibleStep DEF ExchangeInv
<1> QED BY <1>1, <1>2, <1>3, <1>4, <1>5, <1>6 DEF ExchangeInv

-----------------------------------------------------------------------------
(***************************************************************************)
(* The exchange that ShareExchange describes, as the enclaves implement it. *)
(***************************************************************************)
Holds == [p \in Players |-> {q \in Players : macKeys[p][q] = q}]
Phase == [p \in Players |-> CASE pc[p] = "exited" -> "failed"
                              [] pc[p] = "generated" -> "generated"
                              [] OTHER -> "running"]
Matching == {pair \in Players \X Players : Compatible(pair[1], pair[2])}
SameHolds == Holds' = Holds
SamePhase == Phase' = Phase
SameMatching == Matching' = Matching

\* The phase of an enclave that goes on does not change.
LEMMA PhaseFacts ==
  ASSUME pc \in [Players -> EnclavePoints], NEW p \in Players, NEW x,
         pc[p] \notin Ended, pc' = [pc EXCEPT ![p] = x]
  PROVE  /\ x \notin Ended => SamePhase
         /\ x = "generated" => Phase' = [Phase EXCEPT ![p] = "generated"]
<1>1. Phase' = [q \in Players |-> CASE pc'[q] = "exited" -> "failed"
                                    [] pc'[q] = "generated" -> "generated"
                                    [] OTHER -> "running"]
  BY DEF Phase
<1>2. \A q \in Players : pc'[q] = IF q = p THEN x ELSE pc[q] OBVIOUS
<1>3. ASSUME x \notin Ended PROVE SamePhase
  <2>1. \A q \in Players : Phase'[q] = Phase[q] BY <1>1, <1>2, <1>3 DEF Phase, Ended
  <2>2. Phase' = [q \in Players |-> Phase'[q]] BY <1>1
  <2>3. Phase = [q \in Players |-> Phase[q]] BY DEF Phase
  <2> QED BY <2>1, <2>2, <2>3 DEF SamePhase
<1>4. ASSUME x = "generated" PROVE Phase' = [Phase EXCEPT ![p] = "generated"]
  <2> DEFINE new == [Phase EXCEPT ![p] = "generated"]
  <2>1. Phase = [q \in Players |-> Phase[q]] BY DEF Phase
  <2>2. \A q \in Players : new[q] = IF q = p THEN "generated" ELSE Phase[q] BY <2>1
  <2>3. \A q \in Players : Phase'[q] = IF q = p THEN "generated" ELSE Phase[q]
    BY <1>1, <1>2, <1>4 DEF Phase
  <2>4. new = [q \in Players |-> new[q]] BY <2>1
  <2>5. Phase' = [q \in Players |-> Phase'[q]] BY <1>1
  <2> QED BY <2>2, <2>3, <2>4, <2>5
<1> QED BY <1>3, <1>4

LEMMA FailPhase ==
  ASSUME pc \in [Players -> EnclavePoints], NEW P \in SUBSET Players,
         NEW y \in [Players -> EnclavePoints],
         \A p \in P : pc[p] \notin Ended,
         \A q \in Players : y[q] = pc[q] \/ (y[q] \notin Ended /\ pc[q] \notin Ended),
         pc' = [p \in Players |-> IF p \in P THEN "exited" ELSE y[p]],
         SameHolds, SameMatching
  PROVE  Exchange!Fail(P)
<1>1. \A p \in P : Phase[p] = "running" BY DEF Phase, Ended
<1>2. Phase' = [p \in Players |-> IF p \in P THEN "failed" ELSE Phase[p]]
  <2>1. Phase' = [q \in Players |-> CASE pc'[q] = "exited" -> "failed"
                                      [] pc'[q] = "generated" -> "generated"
                                      [] OTHER -> "running"]
    BY DEF Phase
  <2>2. \A q \in Players : Phase'[q] = IF q \in P THEN "failed" ELSE Phase[q]
    BY <2>1 DEF Phase, Ended
  <2>3. Phase' = [q \in Players |-> Phase'[q]] BY <2>1
  <2> QED BY <2>2, <2>3
<1> QED BY <1>1, <1>2 DEF Exchange!Fail, SameHolds, SameMatching, Holds, Phase, Matching

\* One slot is filled.
LEMMA HoldsFacts ==
  ASSUME macKeys \in [Players -> [Players -> Shares \cup {None}]],
         NEW p \in Players, NEW q \in Players, macKeys[p][q] = None,
         macKeys' = [macKeys EXCEPT ![p][q] = q]
  PROVE  q \notin Holds[p] /\ Holds' = [Holds EXCEPT ![p] = @ \cup {q}]
<1>1. None \notin Players BY DEF None, Players
<1>2. q \notin Holds[p] BY <1>1 DEF Holds
<1> DEFINE new == [Holds EXCEPT ![p] = @ \cup {q}]
<1>3. Holds' = [a \in Players |-> {b \in Players : macKeys'[a][b] = b}] BY DEF Holds
<1>4. ASSUME NEW a \in Players PROVE Holds'[a] = new[a]
  <2>1. \A b \in Players : macKeys'[a][b] = IF a = p /\ b = q THEN q ELSE macKeys[a][b] OBVIOUS
  <2>2. new[a] = IF a = p THEN Holds[p] \cup {q} ELSE Holds[a] BY DEF Holds
  <2>3. \A b \in Players : b \in Holds'[a] <=> b \in new[a] BY <1>3, <2>1, <2>2 DEF Holds
  <2>4. Holds'[a] \subseteq Players BY <1>3
  <2>5. new[a] \subseteq Players BY <2>2 DEF Holds
  <2> QED BY <2>3, <2>4, <2>5
<1>5. new = [a \in Players |-> new[a]] BY DEF Holds
<1>6. Holds' = [a \in Players |-> Holds'[a]] BY <1>3
<1> HIDE DEF new
<1>7. Holds' = new BY <1>4, <1>5, <1>6
<1> QED BY <1>2, <1>7 DEF new

LEMMA MatchingKept == ASSUME Outcome PROVE SameMatching
<1>1. env' = env BY EnvironmentKept
<1> QED BY <1>1 DEF SameMatching, Matching, Compatible, Accepts, Certified, my_verify_measurements

\* An enclave obtains its own shares.
LEMMA OwnShareExchange ==
  ASSUME ~JunkParses, ProtocolInv, ExchangeInv, NEW p \in Players, OwnShareRead(p), SameMatching
  PROVE  Exchange!Obtain(p)
<1>1. pc[p] = "local_read" /\ pc' = [pc EXCEPT ![p] = AfterLocal(p)] BY DEF OwnShareRead
<1>2. PICK m \in Unpacked(local[p], kii[p] # "exited") \ {Null} :
        macKeys' = [macKeys EXCEPT ![p][p] = m.mackeyshare]
  BY DEF OwnShareRead
<1>3. local[p] \in Seq(SharesOf(p)) BY <1>1 DEF ProtocolInv, ReadInv, Before
<1>4. m.mackeyshare = p
  <2>1. local[p] # <<>> /\ m = Head(local[p]) BY <1>2 DEF Unpacked
  <2>2. m \in Elements(local[p]) BY <1>3, <2>1, QueueElements
  <2> QED BY <1>1, <2>2 DEF ExchangeInv, GenuineInv, Before
<1>5. macKeys[p][p] = None BY <1>1 DEF ProtocolInv, SlotInv, Before
<1>6. macKeys' = [macKeys EXCEPT ![p][p] = p] BY <1>2, <1>4
<1>7. macKeys \in [Players -> [Players -> Shares \cup {None}]] /\ pc \in [Players -> EnclavePoints]
  BY DEF ProtocolInv, TypeOK
<1>8. p \notin Holds[p] /\ Holds' = [Holds EXCEPT ![p] = @ \cup {p}]
  BY <1>5, <1>6, <1>7, HoldsFacts
<1>9. SamePhase
  <2>1. AfterLocal(p) \notin Ended BY AfterFacts DEF Ended
  <2> QED BY <1>1, <1>7, <2>1, PhaseFacts DEF Ended
<1>10. Phase[p] = "running" BY <1>1 DEF Phase
<1> QED BY <1>8, <1>9, <1>10 DEF Exchange!Obtain, SamePhase, SameMatching, Holds, Phase, Matching

\* An enclave receives the shares of the peer that is due.
LEMMA PeerShareExchange ==
  ASSUME ~JunkParses, ProtocolInv, ExchangeInv, NEW p \in Players, NEW q \in Players,
         q = other[p], NEW x, ShareRead(p) \/ ShareAdded(p), SameMatching,
         x \notin Ended, pc' = [pc EXCEPT ![p] = x]
  PROVE  Exchange!Receive(p, q)
<1>1. pc[p] \in {"srv_share", "cli_add"} BY DEF ShareRead, ShareAdded
<1>2. PICK m \in SharesOf(q) : m \in Sent(q, p) /\ Adds(p, m)
  BY PeerShareStored DEF PeerStored, Forged
<1>3. /\ macKeys \in [Players -> [Players -> Shares \cup {None}]] /\ pc \in [Players -> EnclavePoints]
      /\ q \in Players
  BY DEF ProtocolInv, TypeOK
<1>4. /\ pc[p] = "srv_share" => q < p
      /\ pc[p] = "cli_add" => p < q
      /\ p \in Int /\ q \in Int
  BY <1>3 DEF ProtocolInv, RoleInv, Serving, Attending, Dialing, Talking, Players
<1>5. p # q BY <1>1, <1>4
<1>6. m.mackeyshare = q BY <1>2, <1>3, <1>5 DEF ExchangeInv, GenuineInv
<1>7. Compatible(p, q) /\ macKeys[q][q] # None
  BY <1>2, <1>3, <1>5 DEF ExchangeInv, CompatibleInv
<1>8. macKeys[q][q] = q BY <1>3, <1>7 DEF ExchangeInv, GenuineInv, ProtocolInv, SlotInv
<1>9. macKeys[p][p] = p
  <2>1. macKeys[p][p] # None
    BY <1>1 DEF ProtocolInv, SlotInv, Serving, Attending, Dialing, Talking
  <2> QED BY <2>1 DEF ExchangeInv, GenuineInv, ProtocolInv, SlotInv
<1>10. macKeys[p][q] = None
  <2>1. CASE pc[p] = "srv_share"
    BY <1>3, <1>4, <1>5, <2>1 DEF ProtocolInv, SlotInv, Serving, Attending
  <2>2. CASE pc[p] = "cli_add"
    BY <1>3, <1>4, <1>5, <2>2 DEF ProtocolInv, SlotInv, Dialing, Talking
  <2> QED BY <1>1, <2>1, <2>2
<1>11. macKeys' = [macKeys EXCEPT ![p][q] = q]
  <2>1. PICK k : macKeys' = [macKeys EXCEPT ![p][q] = k] BY DEF ShareRead, ShareAdded, StoreShare
  <2>2. macKeys'[p] = [macKeys[p] EXCEPT ![q] = q] BY <1>2, <1>6 DEF Adds
  <2>3. k = q BY <1>3, <2>1, <2>2
  <2> QED BY <2>1, <2>3
<1>12. q \notin Holds[p] /\ Holds' = [Holds EXCEPT ![p] = @ \cup {q}]
  BY <1>3, <1>10, <1>11, HoldsFacts
<1>13. SamePhase BY <1>1, <1>3, PhaseFacts DEF Ended
<1>14. Phase[p] = "running" BY <1>1 DEF Phase
<1>15. p \in Holds[p] /\ q \in Holds[q] \ Holds[p]
  <2>1. p \in Holds[p] BY <1>9 DEF Holds
  <2>2. q \in Holds[q] BY <1>3, <1>8 DEF Holds
  <2> QED BY <1>12, <2>1, <2>2
<1>16. <<p, q>> \in Matching BY <1>3, <1>7 DEF Matching
<1> QED
  BY <1>12, <1>13, <1>14, <1>15, <1>16
     DEF Exchange!Receive, SamePhase, SameMatching, Holds, Phase, Matching

\* An enclave that is about to generate has the shares of all players.
LEMMA AllStored ==
  ASSUME ~JunkParses, ProtocolInv, OrderInv, ExchangeInv, NEW p \in Players, pc[p] = "launch"
  PROVE  macKeys[p] = [q \in Players |-> q]
<1>1. ASSUME NEW q \in Players PROVE macKeys[p][q] = q
  <2>1. macKeys[p][q] # None
    <3>1. CASE q = p BY <3>1 DEF ProtocolInv, SlotInv
    <3>2. CASE q # p
      <4>1. q \in attested[p] BY <3>2 DEF OrderInv, AttestedInv
      <4> QED BY <4>1 DEF ExchangeInv, FilledInv, Attending, Talking
    <3> QED BY <3>1, <3>2
  <2> QED BY <2>1 DEF ExchangeInv, GenuineInv, ProtocolInv, SlotInv
<1>2. macKeys[p] \in [Players -> Shares \cup {None}] BY DEF ProtocolInv, TypeOK
<1> QED BY <1>1, <1>2

\* An enclave generates with the shares of all players.
LEMMA GenerateExchange ==
  ASSUME ~JunkParses, ProtocolInv, OrderInv, ExchangeInv, NEW p \in Players, Generates(p),
         SameMatching
  PROVE  Exchange!Generate(p)
<1>1. pc[p] = "launch" /\ pc' = [pc EXCEPT ![p] = "generated"] /\ UNCHANGED macKeys
  BY DEF Generates, exchanged
<1>2. \A q \in Players : macKeys[p][q] = q BY <1>1, AllStored
<1>3. Holds[p] = Players BY <1>2 DEF Holds
<1>4. pc \in [Players -> EnclavePoints] BY DEF ProtocolInv, TypeOK
<1>5. Phase' = [Phase EXCEPT ![p] = "generated"] BY <1>1, <1>4, PhaseFacts DEF Ended
<1>6. Phase[p] = "running" BY <1>1 DEF Phase
<1>7. SameHolds BY <1>1 DEF SameHolds, Holds
<1> QED BY <1>3, <1>5, <1>6, <1>7
        DEF Exchange!Generate, SameHolds, SameMatching, Holds, Phase, Matching

LEMMA ExchangeNext ==
  ASSUME ~JunkParses, ProtocolInv, OrderInv, ExchangeInv, Outcome
  PROVE  Exchange!Next \/ (SameHolds /\ SamePhase /\ SameMatching)
<1> DEFINE Goal == Exchange!Next \/ (SameHolds /\ SamePhase /\ SameMatching)
<1> HIDE DEF Goal
<1>1. SameMatching BY MatchingKept
<1>2. pc \in [Players -> EnclavePoints] BY DEF ProtocolInv, TypeOK
<1>3. UNCHANGED macKeys => SameHolds BY DEF SameHolds, Holds
<1>4. UNCHANGED pc => SamePhase BY DEF SamePhase, Phase
<1>5. ASSUME NEW p \in Players, NEW x, pc[p] \notin Ended, x \notin Ended,
             pc' = [pc EXCEPT ![p] = x], UNCHANGED macKeys
      PROVE  Goal
  BY <1>1, <1>2, <1>3, <1>5, PhaseFacts DEF Goal
<1>6. ASSUME NEW P, Exits(P) PROVE Goal
  <2>1. /\ P \in SUBSET Players /\ UNCHANGED macKeys
        /\ \A p \in P : pc[p] \notin Ended
        /\ pc' = [p \in Players |-> IF p \in P THEN "exited" ELSE pc[p]]
    BY <1>6 DEF Exits
  <2>2. Exchange!Fail(P) BY <1>1, <1>2, <1>3, <2>1, FailPhase
  <2> QED BY <2>1, <2>2 DEF Goal, Exchange!Next
<1>7. ASSUME NEW s \in Players, NEW c, Accepted(s, c) PROVE Goal
  <2>1. c \in Players /\ c # s /\ pc[c] = "cli_handshake" BY <1>7, FirstClient
  <2>2. pc[s] = "srv_accept" /\ UNCHANGED macKeys BY <1>7 DEF Accepted
  <2>3. CASE Accepts(s, c)
    <3>1. pc' = [pc EXCEPT ![s] = "srv_info", ![c] = "cli_info"] BY <1>7, <2>3 DEF Accepted
    <3>2. Phase' = [q \in Players |-> CASE pc'[q] = "exited" -> "failed"
                                        [] pc'[q] = "generated" -> "generated"
                                        [] OTHER -> "running"]
      BY DEF Phase
    <3>3. \A q \in Players : Phase'[q] = Phase[q] BY <1>2, <2>1, <2>2, <3>1, <3>2 DEF Phase
    <3>4. Phase' = [q \in Players |-> Phase'[q]] BY <3>2
    <3>5. Phase = [q \in Players |-> Phase[q]] BY DEF Phase
    <3>6. SamePhase BY <3>3, <3>4, <3>5 DEF SamePhase
    <3> QED BY <1>1, <1>3, <2>2, <3>6 DEF Goal
  <2>4. CASE ~Accepts(s, c)
    <3> DEFINE y == [pc EXCEPT ![c] = "cli_info"]
               P == {s}
    <3>1. pc' = [p \in Players |-> IF p = s THEN "exited" ELSE IF p = c THEN "cli_info" ELSE pc[p]]
      BY <1>7, <2>4 DEF Accepted
    <3>2. pc' = [p \in Players |-> IF p \in P THEN "exited" ELSE y[p]] BY <1>2, <2>1, <3>1
    <3>3. y \in [Players -> EnclavePoints] BY <1>2 DEF EnclavePoints
    <3>4. P \in SUBSET Players /\ \A p \in P : pc[p] \notin Ended BY <2>2 DEF Ended
    <3>5. \A q \in Players : y[q] = pc[q] \/ (y[q] \notin Ended /\ pc[q] \notin Ended)
      BY <1>2, <2>1 DEF Ended
    <3>6. SameHolds BY <1>3, <2>2
    <3> HIDE DEF y, P
    <3>7. Exchange!Fail(P) BY <1>1, <1>2, <3>2, <3>3, <3>4, <3>5, <3>6, FailPhase
    <3> QED BY <3>4, <3>7 DEF Goal, Exchange!Next
  <2> QED BY <2>3, <2>4
<1>8. ASSUME NEW p \in Players, OwnShareRead(p) PROVE Goal
  <2>1. Exchange!Obtain(p) BY <1>1, <1>8, OwnShareExchange
  <2> QED BY <2>1 DEF Goal, Exchange!Next
<1>9. ASSUME NEW p \in Players, ShareRead(p) \/ ShareAdded(p) PROVE Goal
  <2>1. \E x : x \notin Ended /\ pc' = [pc EXCEPT ![p] = x]
    BY <1>9, AfterFacts DEF ShareRead, ShareAdded, Ended
  <2>2. PICK x : x \notin Ended /\ pc' = [pc EXCEPT ![p] = x] BY <2>1
  <2>3. PICK q \in Players : q = other[p] BY DEF ProtocolInv, TypeOK
  <2>4. Exchange!Receive(p, q) BY <1>1, <1>9, <2>2, <2>3, PeerShareExchange
  <2> QED BY <2>4 DEF Goal, Exchange!Next
<1>10. ASSUME NEW p \in Players, Generates(p) PROVE Goal
  <2>1. Exchange!Generate(p) BY <1>1, <1>10, GenerateExchange
  <2> QED BY <2>1 DEF Goal, Exchange!Next
<1>11. ASSUME KiiMoves \/ \E pair \in Pairs : Breaks(pair) PROVE Goal
  BY <1>1, <1>3, <1>4, <1>11 DEF Goal, KiiMoves, Breaks, exchanged
<1>12. ASSUME NEW p \in Players, NEW x, Moves(p, x) PROVE Goal
  <2>1. pc[p] \notin Ended /\ x \notin Ended BY <1>12, AfterFacts DEF Moves, Before, Ended
  <2> QED BY <1>5, <1>12, <2>1 DEF Moves, exchanged
<1>13. ASSUME NEW p \in Players, \/ InfoRead(p) \/ ShareSent(p) \/ RoleTaken(p) \/ ClientConnect(p)
                                 \/ ClientReadShare(p)
       PROVE  Goal
  BY <1>5, <1>13
     DEF InfoRead, ShareSent, RoleTaken, ClientConnect, ClientReadShare, exchanged, Ended
<1>14. ASSUME NEW p \in Players, NEW x, NEW y, NEW m, Queued(p, x, y, m),
              x \notin Ended, y \notin Ended
       PROVE  Goal
  BY <1>5, <1>14 DEF Queued, exchanged
<1>15. {"cli_info", "cli_read", "cli_send", "cli_add"} \cap Ended = {} BY DEF Ended
<1>16. Goal
  BY <1>6, <1>7, <1>8, <1>9, <1>10, <1>11, <1>12, <1>13, <1>14, <1>15
     DEF Outcome, ServerOutcome, ClientOutcome
<1> QED BY <1>16 DEF Goal

\* Where all hosts fit and an unread buffer does not unpack, two enclaves
\* implement the abstract exchange of ShareExchange, for all environments and
\* any number of failures: each share that is stored is the one of a player
\* that has its own, that accepts and is accepted by the one that stores it,
\* and that takes part in the same job; and an enclave generates only with
\* the shares of all (local_attestation.c, server.c and client.c, and main in
\* CRG.c, which goes on whenever a role returns 0).
THEOREM ExchangeImplemented ==
  ASSUME HostsFit, ~JunkParses, N = 2
  PROVE  Spec => ExchangesShares
<1> DEFINE Inv == ProtocolInv /\ OrderInv /\ ExchangeInv
<1>1. Init => Inv BY ProtocolInit, OrderInit, ExchangeInit
<1>2. Inv /\ [Next]_vars => Inv' BY ExchangeStep
<1>3. Init => Exchange!Init
  <2> SUFFICES ASSUME Init PROVE Exchange!Init OBVIOUS
  <2>1. Holds = [p \in Players |-> {}]
    <3>1. \A p, q \in Players : macKeys[p][q] # q BY DEF Init, None, Players
    <3> QED BY <3>1 DEF Holds
  <2>2. Phase = [p \in Players |-> "running"] BY DEF Init, Phase
  <2>3. Matching \subseteq Players \X Players BY DEF Matching
  <2> QED BY <2>1, <2>2, <2>3 DEF Exchange!Init, Holds, Phase, Matching
<1>4. Inv /\ [Next]_vars => [Exchange!Next]_(Exchange!sharedVars)
  <2> SUFFICES ASSUME Inv, [Next]_vars PROVE [Exchange!Next]_(Exchange!sharedVars) OBVIOUS
  <2>1. Exchange!Next \/ (SameHolds /\ SamePhase /\ SameMatching) BY ExchangeStep, ExchangeNext
  <2>2. SameHolds /\ SamePhase /\ SameMatching => UNCHANGED Exchange!sharedVars
    BY DEF SameHolds, SamePhase, SameMatching, Holds, Phase, Matching, Exchange!sharedVars
  <2> QED BY <2>1, <2>2
<1> HIDE DEF Inv
<1> QED BY <1>1, <1>2, <1>3, <1>4, PTL DEF Spec, ExchangesShares, Exchange!Spec

-----------------------------------------------------------------------------
(***************************************************************************)
(* Two players.                                                            *)
(***************************************************************************)
\* What is launched.
LEMMA LaunchedStep ==
  ASSUME ProtocolInv, Outcome, NEW p \in Players, NEW command \in launched'[p]
  PROVE  \/ command \in launched[p]
         \/ pc[p] = "launch" /\ command.prngseed = seed[p] /\ command.keys = macKeys[p]
<1>1. launched \in [Players -> SUBSET Commands] BY DEF ProtocolInv, TypeOK
<1>2. UNCHANGED launched \/ \E q \in Players : Generates(q)
  BY DEF Outcome, Exits, KiiMoves, Moves, OwnShareRead, ServerOutcome, Accepted, InfoRead, ShareSent,
         ShareRead, ClientOutcome, RoleTaken, ClientConnect, Queued, ClientReadShare, ShareAdded,
         Breaks
<1>3. ASSUME NEW q \in Players, Generates(q)
      PROVE  command \in launched[p] \/ (q = p /\ command = Command(p) /\ pc[p] = "launch")
  BY <1>1, <1>3 DEF Generates
<1>4. Command(p).prngseed = seed[p] /\ Command(p).keys = macKeys[p]
  BY DEF Command, create_mac_key_shares
<1> QED BY <1>2, <1>3, <1>4

LEMMA PairSums ==
  ASSUME N = 2, NEW p \in Players, NEW q \in Players, p # q
  PROVE  addHex(OwnSeed(p), OwnSeed(q)) = PairSum
<1>1. (p = 0 /\ q = 1) \/ (p = 1 /\ q = 0) BY DEF Players
<1>2. ASSUME NEW x \in Players \cup {Junk}
      PROVE  OwnSeed(1)[x] + OwnSeed(0)[x] = OwnSeed(0)[x] + OwnSeed(1)[x]
  <2>1. OwnSeed(0)[x] \in Int /\ OwnSeed(1)[x] \in Int BY DEF OwnSeed
  <2> QED BY <2>1
<1>3. addHex(OwnSeed(1), OwnSeed(0)) = PairSum BY <1>2 DEF addHex, PairSum
<1> QED BY <1>1, <1>3 DEF PairSum

\* Each of two players meets exactly one peer between the start and the
\* launch.
LEMMA PairPlaces ==
  ASSUME HostsFit, N = 2, ProtocolInv, Outcome, NEW p \in Players
  PROVE  \/ pc'[p] \in Ended
         \/ pc'[p] = "launch" /\ pc[p] = "launch" /\ seed'[p] = seed[p]
         \/ /\ pc[p] \notin Ended \cup {"launch"} /\ pc'[p] \notin Ended \cup {"launch"}
            /\ seed'[p] = seed[p]
         \/ pc[p] \notin Ended \cup {"launch"} /\ pc'[p] = "launch" /\ PeerStored(p)
<1> USE DEF Ended
<1>1. PlayerOutcome(p) BY PlayerStep
<1>2. /\ AfterServer(p) = (IF p < N - 1 THEN "cli_setup" ELSE "launch")
      /\ AfterLocal(p) = (IF p > 0 THEN "srv_setup" ELSE AfterServer(p))
  BY AfterFacts
<1>3. p \in {0, 1} /\ other[p] \in {0, 1}
  <2>1. other[p] \in Players BY DEF ProtocolInv, TypeOK
  <2> QED BY <2>1 DEF Players
<1>4. CASE KeepsOn(p) BY <1>4 DEF KeepsOn, KeepsShares, Goes, Before
<1>5. CASE Goes(p, "local_read", AfterLocal(p)) /\ OwnShareRead(p)
  <2>1. seed'[p] = seed[p] BY <1>5 DEF OwnShareRead
  <2>2. AfterLocal(p) \in {"srv_setup", "cli_setup"} BY <1>2, <1>3
  <2> QED BY <1>5, <2>1, <2>2 DEF Goes
<1>6. CASE Goes(p, "srv_share", IF other[p] + 1 >= p THEN AfterServer(p) ELSE "srv_accept") /\ ShareRead(p)
  <2>1. PeerStored(p) BY <1>6, PeerShareStored
  <2>2. other[p] < p BY <1>6 DEF Goes, ProtocolInv, RoleInv, Serving, Attending
  <2>3. p = 1 /\ other[p] = 0 BY <1>3, <2>2
  <2>4. pc'[p] = "launch" BY <1>2, <1>6, <2>3 DEF Goes
  <2> QED BY <1>6, <2>1, <2>4 DEF Goes
<1>7. CASE Goes(p, "cli_add", IF other[p] - 1 >= p + 1 THEN "cli_endpoint" ELSE "launch") /\ ShareAdded(p)
  <2>1. PeerStored(p) BY <1>7, PeerShareStored
  <2>2. p < other[p] BY <1>7 DEF Goes, ProtocolInv, RoleInv, Dialing, Talking
  <2>3. p = 0 /\ other[p] = 1 BY <1>3, <2>2
  <2>4. pc'[p] = "launch" BY <1>7, <2>3 DEF Goes
  <2> QED BY <1>7, <2>1, <2>4 DEF Goes
<1>8. CASE KeepsPlace(p) /\ KeepsShares(p) BY <1>8 DEF KeepsPlace, KeepsShares
<1>9. CASE /\ \/ Goes(p, "srv_accept", "srv_info") \/ Goes(p, "cli_handshake", "cli_info")
              \/ Goes(p, "cli_setup", "cli_endpoint") \/ Goes(p, "cli_read", "cli_send")
           /\ KeepsShares(p)
  BY <1>9 DEF Goes, KeepsShares
<1> QED BY <1>1, <1>4, <1>5, <1>6, <1>7, <1>8, <1>9 DEF PlayerOutcome

\* What an enclave stores under the number of its peer.
LEMMA PairStored ==
  ASSUME ~JunkParses, N = 2, ProtocolInv, PairInv, NEW p \in Players, PeerStored(p)
  PROVE  seed'[p] = PairSum
<1>1. other[p] \in Players BY DEF ProtocolInv, TypeOK
<1>2. other[p] # p
  BY <1>1 DEF PeerStored, ProtocolInv, RoleInv, Serving, Attending, Dialing, Talking, Players
<1>3. pc[p] \in {"srv_share", "cli_add"} BY DEF PeerStored
<1>4. PICK m \in Sent(other[p], p) : seed'[p] = addHex(seed[p], m.seeds)
  BY DEF PeerStored, Adds, Forged
<1>5. seed[p] = OwnSeed(p) BY <1>3 DEF PairInv, Ended
<1>6. m.seeds = OwnSeed(other[p]) BY <1>1, <1>2 DEF PairInv
<1> QED BY <1>1, <1>2, <1>4, <1>5, <1>6, PairSums

LEMMA PairStep ==
  ASSUME HostsFit, ~JunkParses, N = 2, ProtocolInv, ProtocolInv', OrderInv, ExchangeInv, PairInv,
         Outcome
  PROVE  PairInv'
<1>0. PairSum' = PairSum /\ \A q \in Players : OwnSeed(q)' = OwnSeed(q)
  BY DEF PairSum, addHex, OwnSeed
<1>1. ASSUME NEW p \in Players, pc'[p] \notin Ended \cup {"launch"} PROVE seed'[p] = OwnSeed(p)
  BY <1>1, PairPlaces DEF PairInv
<1>2. ASSUME NEW p \in Players, NEW q \in Players, p # q, NEW m \in Sent(q, p)'
      PROVE  m.seeds = OwnSeed(q)
  <2>1. m \in Sent(q, p) \/ (m = MyShare(q) /\ Sends(q, p))
    BY <1>2, SentStep DEF SentOnly, Forged
  <2>2. CASE m \in Sent(q, p) BY <1>2, <2>2 DEF PairInv
  <2>3. CASE m = MyShare(q) /\ Sends(q, p)
    <3>1. m.seeds = seed[q] BY <2>3 DEF MyShare
    <3>2. pc[q] \in {"srv_send", "cli_send"} BY <2>3 DEF Sends
    <3> QED BY <3>1, <3>2 DEF PairInv, Ended
  <2> QED BY <2>1, <2>2, <2>3
<1>3. ASSUME NEW p \in Players, pc'[p] = "launch" PROVE seed'[p] = PairSum
  <2>1. (pc[p] = "launch" /\ seed'[p] = seed[p]) \/ PeerStored(p)
    BY <1>3, PairPlaces DEF Ended
  <2> QED BY <2>1, PairStored DEF PairInv
<1>4. ASSUME NEW p \in Players, NEW command \in launched'[p]
      PROVE  command.prngseed = PairSum /\ command.keys = [q \in Players |-> q]
  <2>1. CASE command \in launched[p] BY <2>1 DEF PairInv
  <2>2. CASE pc[p] = "launch" /\ command.prngseed = seed[p] /\ command.keys = macKeys[p]
    BY <2>2, AllStored DEF PairInv
  <2> QED BY <2>1, <2>2, LaunchedStep
<1> QED BY <1>0, <1>1, <1>2, <1>3, <1>4 DEF PairInv

LEMMA PairInit == ASSUME Init PROVE PairInv
<1>1. \A p \in Players : seed[p] = OwnSeed(p) /\ pc[p] = "start" /\ launched[p] = {} BY DEF Init
<1>2. \A p, q \in Players : p # q => Sent(q, p) = {} BY NothingSent
<1> QED BY <1>1, <1>2 DEF PairInv

\* Two enclaves that generate do so from the same seed and the same MAC key
\* shares, whatever fails and whenever (Seed and Player_MAC_Keys_p/2 at the
\* end of main): each has added the other one's random value to its own
\* exactly once, and a peer's value is only what it was before the peer has
\* added anything.  Two is the number of players that kii-run.sh accepts.
THEOREM PairRandomness ==
  ASSUME HostsFit, ~JunkParses, N = 2
  PROVE  Spec => []SameRandomness
<1> DEFINE Inv == ProtocolInv /\ OrderInv /\ ExchangeInv /\ PairInv
<1>1. Init => Inv BY ProtocolInit, OrderInit, ExchangeInit, PairInit
<1>2. Inv /\ [Next]_vars => Inv' BY ExchangeStep, PairStep
<1>3. Inv => SameRandomness BY DEF PairInv, SameRandomness
<1> HIDE DEF Inv
<1> QED BY <1>1, <1>2, <1>3, PTL DEF Spec

\* Both players have a part in the seed of an enclave that generates, without
\* an exception for shares that are missing: such an enclave does not get
\* there (addHex and the early returns in server.c and client.c).  The sum of
\* the two values does not wrap for any modulus of the seeds.
THEOREM EveryoneHasAPart ==
  ASSUME HostsFit, ~JunkParses, N = 2
  PROVE  Spec => []EveryoneContributes
<1> DEFINE Inv == ProtocolInv /\ OrderInv /\ ExchangeInv /\ PairInv
<1>1. Init => Inv BY ProtocolInit, OrderInit, ExchangeInit, PairInit
<1>2. Inv /\ [Next]_vars => Inv' BY ExchangeStep, PairStep
<1>3. Inv => EveryoneContributes
  <2> SUFFICES ASSUME Inv, NEW p \in Players, NEW q \in Players, NEW command \in launched[p]
               PROVE  command.prngseed[q] > 0
    BY DEF EveryoneContributes
  <2>1. command.prngseed = PairSum BY DEF PairInv
  <2>2. q = 0 \/ q = 1 BY DEF Players
  <2>3. OwnSeed(0)[q] + OwnSeed(1)[q] = 1
    <3>1. q \in Players \cup {Junk} OBVIOUS
    <3> QED BY <2>2, <3>1 DEF OwnSeed
  <2>4. PairSum[q] = 1 % SeedModulus BY <2>3 DEF PairSum, addHex
  <2>5. 1 % SeedModulus = 1 BY TeeAssumption
  <2> QED BY <2>1, <2>4, <2>5
<1> HIDE DEF Inv
<1> QED BY <1>1, <1>2, <1>3, PTL DEF Spec

-----------------------------------------------------------------------------
(***************************************************************************)
(* Any number of players: who is told the shares.                          *)
(***************************************************************************)
\* Whoever a server serves, and the first server of a client, is attested.
\* From its later servers a client hears nothing, so that it tells them
\* nothing before the connection is gone.
TrustInv ==
  /\ \A s \in Players : pc[s] \in Attending => served[s] \in attested[s]
  /\ \A c \in Players : pc[c] \in Talking /\ other[c] = N - 1 => N - 1 \in attested[c]
  /\ \A c, s \in Players : c < s =>
       /\ Elements(link[<<c, s>>].up) \cap SecretShare # {} => s \in attested[c]
       /\ link[<<c, s>>].down # <<>> => c \in attested[s]

LEMMA TrustStep ==
  ASSUME ProtocolInv, TrustInv, Outcome
  PROVE  TrustInv'
<1> USE DEF Before, Attending, Talking
<1>1. \A p \in Players : PlayerOutcome(p) BY PlayerStep
<1>2. \A p \in Players :
        /\ AfterServer(p) = (IF p < N - 1 THEN "cli_setup" ELSE "launch")
        /\ AfterLocal(p) = (IF p > 0 THEN "srv_setup" ELSE AfterServer(p))
  BY AfterFacts
<1>3. \A p \in Players : attested[p] \subseteq attested'[p]
  BY <1>1 DEF PlayerOutcome, KeepsOn, KeepsPeers
<1>4. ASSUME NEW s \in Players, pc'[s] \in Attending PROVE served'[s] \in attested'[s]
  <2>1. pc[s] \in Attending => served[s] \in attested[s] BY DEF TrustInv
  <2>2. \/ pc[s] \in Attending /\ served'[s] = served[s] /\ attested'[s] = attested[s]
        \/ served'[s] = Head(backlog[s]) /\ attested'[s] = attested[s] \cup {Head(backlog[s])}
    BY <1>1, <1>2, <1>4 DEF PlayerOutcome, KeepsOn, KeepsPlace, KeepsPeers, Goes
  <2> QED BY <2>1, <2>2
<1>5. ASSUME NEW c \in Players, pc'[c] \in Talking, other'[c] = N - 1 PROVE N - 1 \in attested'[c]
  <2>1. pc[c] \in Talking /\ other[c] = N - 1 => N - 1 \in attested[c] BY DEF TrustInv
  <2>2. \/ pc[c] \in Talking /\ other'[c] = other[c] /\ attested'[c] = attested[c]
        \/ other'[c] = other[c] /\ attested'[c] = attested[c] \cup {other[c]}
    BY <1>1, <1>2, <1>5 DEF PlayerOutcome, KeepsOn, KeepsPlace, KeepsPeers, Goes
  <2> QED BY <1>5, <2>1, <2>2
<1>6. ASSUME NEW c \in Players, NEW s \in Players, c < s,
             NEW m \in Elements(link'[<<c, s>>].up), m \in SecretShare
      PROVE  s \in attested'[c]
  <2> DEFINE u == link[<<c, s>>].up
             v == link'[<<c, s>>].up
  <2>1. \/ v \in {u, <<>>}
        \/ u # <<>> /\ v = Tail(u)
        \/ v = Append(u, Info(c))
        \/ v = Append(u, MyShare(c)) /\ Sends(c, s)
    BY <1>6, WireStep DEF WireChange
  <2>2. u \in Seq(PlayerInfo \cup SecretShare)
    <3>1. TypeOK BY DEF ProtocolInv
    <3>2. link[<<c, s>>] \in Links BY <1>6, <3>1, PairFacts, LinkFacts
    <3> QED BY <3>1, <3>2, LinkFacts
  <2>3. Info(c) \in PlayerInfo BY QueueFacts DEF ProtocolInv
  <2>4. c \in Int /\ s \in Int BY DEF Players
  <2>5. m \in Elements(u) => s \in attested[c] BY <1>6 DEF TrustInv
  <2>6. ASSUME Sends(c, s) PROVE s \in attested[c]
    <3>1. other[c] = s /\ pc[c] = "cli_send" /\ link[<<c, s>>].alive
      BY <1>6, <2>4, <2>6 DEF Sends
    <3>2. s = N - 1 BY <1>6, <3>1 DEF ProtocolInv, ChannelInv
    <3> QED BY <3>1, <3>2 DEF TrustInv
  <2>7. m \in Elements(v) BY <1>6
  <2> HIDE DEF u, v
  <2>8. CASE v \in {u, <<>>} BY <1>3, <2>2, <2>5, <2>7, <2>8, QueueElements
  <2>9. CASE u # <<>> /\ v = Tail(u) BY <1>3, <2>2, <2>5, <2>7, <2>9, QueueElements
  <2>10. CASE v = Append(u, Info(c))
    <3>1. m \in Elements(u) \cup {Info(c)} BY <2>2, <2>3, <2>7, <2>10, QueueElements
    <3>2. m # Info(c) BY <1>6, <2>3, InfoIsNoShare
    <3> QED BY <1>3, <2>5, <3>1, <3>2
  <2>11. CASE v = Append(u, MyShare(c)) /\ Sends(c, s) BY <1>3, <2>6, <2>11
  <2> QED BY <2>1, <2>8, <2>9, <2>10, <2>11
<1>7. ASSUME NEW c \in Players, NEW s \in Players, c < s, link'[<<c, s>>].down # <<>>
      PROVE  c \in attested'[s]
  <2>1. \/ link'[<<c, s>>].down = link[<<c, s>>].down
        \/ Sends(s, c)
    BY <1>7, WireStep DEF WireChange
  <2>2. CASE link'[<<c, s>>].down = link[<<c, s>>].down BY <1>3, <1>7, <2>2 DEF TrustInv
  <2>3. CASE Sends(s, c)
    <3>1. c \in Int /\ s \in Int BY DEF Players
    <3>2. other[s] = c /\ pc[s] = "srv_send" BY <1>7, <2>3, <3>1 DEF Sends
    <3>3. served[s] = c BY <3>2 DEF ProtocolInv, RoleInv
    <3> QED BY <1>3, <3>2, <3>3 DEF TrustInv
  <2> QED BY <2>1, <2>2, <2>3
<1>8. SecretShare' = SecretShare BY DEF SecretShare, Seeds, Shares
<1>9. \A c, s \in Players :
        c < s /\ Elements(link'[<<c, s>>].up) \cap SecretShare # {} => s \in attested'[c]
  BY <1>6
<1> QED BY <1>4, <1>5, <1>7, <1>8, <1>9 DEF TrustInv, Elements

\* Whatever fails, with any number of players and in any environment, also
\* where an unread buffer unpacks or a host does not fit, an enclave hands its
\* shares only to an enclave whose quote it has verified.  With a server it
\* has no handshake with, a client reads first, and nothing comes before the
\* connection is gone (the order of reads and writes in client.c, and
\* mbedtls_ssl_setup without a reset).
THEOREM SharesStayWithAttested == Spec => []SharesOnlyToAttested
<1> DEFINE Inv == ProtocolInv /\ TrustInv
<1>1. Init => Inv
  <2>1. ASSUME Init PROVE TrustInv
    <3>1. \A p \in Players : pc[p] = "start" BY <2>1 DEF Init
    <3>2. \A c, s \in Players : c < s =>
            link[<<c, s>>].up = <<>> /\ link[<<c, s>>].down = <<>>
      BY <2>1, PairFacts DEF Init
    <3>3. Elements(<<>>) = {} BY DEF Elements
    <3> QED BY <3>1, <3>2, <3>3 DEF TrustInv, Attending, Talking
  <2> QED BY <2>1, ProtocolInit
<1>2. Inv /\ [Next]_vars => Inv' BY ProtocolStep, TrustStep
<1>3. Inv => SharesOnlyToAttested
  <2> SUFFICES ASSUME Inv, NEW pair \in Pairs
               PROVE  /\ (\E i \in DOMAIN link[pair].up : link[pair].up[i] \in SecretShare)
                           => pair[2] \in attested[pair[1]]
                      /\ link[pair].down # <<>> => pair[1] \in attested[pair[2]]
    BY DEF SharesOnlyToAttested
  <2>1. PICK c \in Players, s \in Players : c < s /\ pair = <<c, s>> BY PairFacts DEF Pairs
  <2>2. link[<<c, s>>].up \in Seq(PlayerInfo \cup SecretShare)
    <3>1. TypeOK BY DEF ProtocolInv
    <3>2. link[<<c, s>>] \in Links BY <2>1, <3>1, PairFacts, LinkFacts
    <3> QED BY <3>1, <3>2, LinkFacts
  <2>3. DOMAIN link[<<c, s>>].up = 1 .. Len(link[<<c, s>>].up) BY <2>2
  <2>4. ASSUME NEW i \in DOMAIN link[<<c, s>>].up, link[<<c, s>>].up[i] \in SecretShare
        PROVE  s \in attested[c]
    <3>1. link[<<c, s>>].up[i] \in Elements(link[<<c, s>>].up) BY <2>3 DEF Elements
    <3> QED BY <2>1, <2>4, <3>1 DEF TrustInv
  <2>5. link[<<c, s>>].down # <<>> => c \in attested[s] BY <2>1 DEF TrustInv
  <2> QED BY <2>1, <2>4, <2>5
<1> HIDE DEF Inv
<1> QED BY <1>1, <1>2, <1>3, PTL DEF Spec
=============================================================================
