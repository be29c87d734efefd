------------------------- MODULE ExchangesStreamProofs -------------------------
(***************************************************************************)
(* The proofs that the two ends of an exchange hear what they have to,     *)
(* that bodies and datagrams arrive in order and whole, and that a fetch   *)
(* keeps the promise of Streams.                                           *)
(***************************************************************************)
EXTENDS ExchangesProofs

-----------------------------------------------------------------------------
(* Channels that are the same to somebody who looks at the messages M only *)

Of(id) == {m \in RequestMessage : m.id = id}
ChunksOf(id) == {m \in RequestMessage : IsChunk(m, id)}

\* They have the same of these messages, in the same order.
SameIn(new, ch, M) ==
    \E d \in {0, 1} :
        /\ \A k \in DOMAIN new : new[k] \in M => k + d \in DOMAIN ch /\ new[k] = ch[k + d]
        /\ \A k \in DOMAIN ch : ch[k] \in M => k - d \in DOMAIN new /\ new[k - d] = ch[k]

LEMMA SameRefl ==
    ASSUME NEW ch \in Seq(RequestMessage), NEW M
    PROVE  SameIn(ch, ch, M)
<1>1. \A k \in DOMAIN ch : k + 0 = k /\ k - 0 = k
    OBVIOUS
<1> QED
    BY <1>1 DEF SameIn

LEMMA SameLess ==
    ASSUME NEW new, NEW ch, NEW M, NEW N, N \subseteq M, SameIn(new, ch, M)
    PROVE  SameIn(new, ch, N)
BY DEF SameIn

LEMMA SameConcat ==
    ASSUME NEW ch \in Seq(RequestMessage), NEW ms \in Seq(RequestMessage), NEW M,
           \A k \in DOMAIN ms : ms[k] \notin M
    PROVE  SameIn(ch \o ms, ch, M)
<1> DEFINE new == ch \o ms
<1>1. /\ \A k \in DOMAIN ch : k \in DOMAIN new /\ new[k] = ch[k]
      /\ \A k \in DOMAIN new : (k \in DOMAIN ch /\ new[k] = ch[k]) \/ new[k] \notin M
    BY ConcatElements
<1>2. (\A k \in DOMAIN ch : k - 0 = k) /\ DOMAIN new \subseteq Nat
    BY ConcatElements
<1> HIDE DEF new
<1>3. SameIn(new, ch, M)
    <2>1. \A k \in DOMAIN new : new[k] \in M => k + 0 \in DOMAIN ch /\ new[k] = ch[k + 0]
        BY <1>1, <1>2
    <2>2. \A k \in DOMAIN ch : ch[k] \in M => k - 0 \in DOMAIN new /\ new[k - 0] = ch[k]
        BY <1>1, <1>2
    <2> QED
        BY <2>1, <2>2 DEF SameIn
<1> QED
    BY <1>3 DEF new

LEMMA SameTail ==
    ASSUME NEW ch \in Seq(RequestMessage), ch # <<>>, NEW M, Head(ch) \notin M
    PROVE  SameIn(Tail(ch), ch, M)
<1> DEFINE new == Tail(ch)
<1>1. /\ Head(ch) = ch[1]
      /\ \A k \in DOMAIN new : k + 1 \in DOMAIN ch /\ new[k] = ch[k + 1]
      /\ \A k \in DOMAIN ch : k # 1 => k - 1 \in DOMAIN new /\ new[k - 1] = ch[k]
    BY TailElements
<1> HIDE DEF new
<1>2. SameIn(new, ch, M)
    BY <1>1 DEF SameIn
<1> QED
    BY <1>2 DEF new

\* What is in flight looks the same.
LEMMA SameChunks ==
    ASSUME NEW new \in Seq(RequestMessage), NEW ch \in Seq(RequestMessage), NEW id \in Ids,
           SameIn(new, ch, ChunksOf(id))
    PROVE  /\ \A got, top : InFlight(ch, id, got, top) => InFlight(new, id, got, top)
           /\ \A got, top : Reaches(ch, id, got, top) => Reaches(new, id, got, top)
<1>1. PICK d \in {0, 1} :
          /\ \A k \in DOMAIN new : new[k] \in ChunksOf(id) => k + d \in DOMAIN ch /\ new[k] = ch[k + d]
          /\ \A k \in DOMAIN ch : ch[k] \in ChunksOf(id) => k - d \in DOMAIN new /\ new[k - d] = ch[k]
    BY DEF SameIn
<1>2. /\ \A k \in DOMAIN new : IsChunk(new[k], id) => new[k] \in ChunksOf(id)
      /\ \A k \in DOMAIN ch : IsChunk(ch[k], id) => ch[k] \in ChunksOf(id)
    BY ChannelElements DEF ChunksOf
<1>3. DOMAIN new \subseteq Nat /\ DOMAIN ch \subseteq Nat
    OBVIOUS
<1>4. ASSUME NEW got, NEW top, InFlight(ch, id, got, top) PROVE InFlight(new, id, got, top)
    <2> SUFFICES ASSUME NEW k \in DOMAIN new, IsChunk(new[k], id)
                 PROVE  /\ got < new[k].chunk
                        /\ new[k].chunk <= top
                        /\ \A j \in DOMAIN new : IsChunk(new[j], id) /\ j < k =>
                              new[j].chunk < new[k].chunk
                        /\ \A v \in got + 1 .. new[k].chunk - 1 :
                              \E j \in DOMAIN new : IsChunk(new[j], id) /\ new[j].chunk = v
        BY DEF InFlight
    <2>1. k + d \in DOMAIN ch /\ new[k] = ch[k + d] /\ IsChunk(ch[k + d], id)
        BY <1>1, <1>2
    <2>2. got < new[k].chunk /\ new[k].chunk <= top
        BY <1>4, <2>1 DEF InFlight
    <2>3. ASSUME NEW j \in DOMAIN new, IsChunk(new[j], id), j < k
          PROVE  new[j].chunk < new[k].chunk
        <3>1. j + d \in DOMAIN ch /\ new[j] = ch[j + d] /\ IsChunk(ch[j + d], id) /\ j + d < k + d
            BY <1>1, <1>2, <1>3, <2>3
        <3> QED
            BY <1>4, <2>1, <3>1 DEF InFlight
    <2>4. ASSUME NEW v \in got + 1 .. new[k].chunk - 1
          PROVE  \E j \in DOMAIN new : IsChunk(new[j], id) /\ new[j].chunk = v
        <3>1. PICK j \in DOMAIN ch : IsChunk(ch[j], id) /\ ch[j].chunk = v
            BY <1>4, <2>1 DEF InFlight
        <3> QED
            BY <1>1, <1>2, <3>1
    <2> QED
        BY <2>2, <2>3, <2>4
<1>5. ASSUME NEW got, NEW top, Reaches(ch, id, got, top) PROVE Reaches(new, id, got, top)
    BY <1>1, <1>2, <1>5 DEF Reaches
<1> QED
    BY <1>4, <1>5

\* So does everything else that is known of messages about id.
LEMMA SameNews ==
    ASSUME NEW new \in Seq(RequestMessage), NEW ch \in Seq(RequestMessage), NEW id \in Ids,
           SameIn(new, ch, Of(id))
    PROVE  /\ \A t : Carries(new, t, id) <=> Carries(ch, t, id)
           /\ \A t : Once(ch, t, id) => Once(new, t, id)
           /\ \A k \in DOMAIN new : new[k].id = id => \E j \in DOMAIN ch : new[k] = ch[j]
           /\ ChunksFirst(ch, id) => ChunksFirst(new, id)
           /\ ResponseFirst(ch, id) => ResponseFirst(new, id)
<1>1. PICK d \in {0, 1} :
          /\ \A k \in DOMAIN new : new[k] \in Of(id) => k + d \in DOMAIN ch /\ new[k] = ch[k + d]
          /\ \A k \in DOMAIN ch : ch[k] \in Of(id) => k - d \in DOMAIN new /\ new[k - d] = ch[k]
    BY DEF SameIn
<1>2. /\ \A k \in DOMAIN new : new[k].id = id => new[k] \in Of(id)
      /\ \A k \in DOMAIN ch : ch[k].id = id => ch[k] \in Of(id)
    BY ChannelElements DEF Of
<1>3. DOMAIN new \subseteq Nat /\ DOMAIN ch \subseteq Nat
    OBVIOUS
<1>a. \A k \in DOMAIN new : new[k].id = id => k + d \in DOMAIN ch /\ new[k] = ch[k + d]
    BY <1>1, <1>2
<1>b. \A k \in DOMAIN ch : ch[k].id = id => k - d \in DOMAIN new /\ new[k - d] = ch[k]
    BY <1>1, <1>2
<1>4. \A t : Carries(new, t, id) <=> Carries(ch, t, id)
    BY <1>a, <1>b DEF Carries
<1>5. ASSUME NEW t, Once(ch, t, id) PROVE Once(new, t, id)
    <2> SUFFICES ASSUME NEW k \in DOMAIN new, NEW j \in DOMAIN new,
                        new[k].type = t, new[k].id = id, new[j].type = t, new[j].id = id
                 PROVE  k = j
        BY DEF Once
    <2>1. k + d = j + d
        BY <1>a, <1>5 DEF Once
    <2> QED
        BY <1>3, <2>1
<1>6. ASSUME ChunksFirst(ch, id) PROVE ChunksFirst(new, id)
    <2> SUFFICES ASSUME NEW k \in DOMAIN new, NEW j \in DOMAIN new,
                        new[k].type = "HTTP_BODY_END", new[k].id = id, IsChunk(new[j], id)
                 PROVE  j < k
        BY DEF ChunksFirst
    <2>1. new[j].id = id
        BY DEF IsChunk
    <2>2. j + d < k + d
        BY <1>a, <1>6, <2>1 DEF ChunksFirst
    <2> QED
        BY <1>3, <2>2
<1>7. ASSUME ResponseFirst(ch, id) PROVE ResponseFirst(new, id)
    <2> SUFFICES ASSUME NEW k \in DOMAIN new, IsChunk(new[k], id)
                 PROVE  \E j \in DOMAIN new : j < k /\ new[j].type = "HTTP_RESPONSE" /\ new[j].id = id
        BY DEF ResponseFirst
    <2>1. k + d \in DOMAIN ch /\ IsChunk(ch[k + d], id)
        BY <1>a DEF IsChunk
    <2>2. PICK j \in DOMAIN ch : j < k + d /\ ch[j].type = "HTTP_RESPONSE" /\ ch[j].id = id
        BY <1>7, <2>1 DEF ResponseFirst
    <2>3. j - d \in DOMAIN new /\ new[j - d] = ch[j] /\ j - d < k
        BY <1>3, <1>b, <2>2
    <2> QED
        BY <2>2, <2>3
<1>8. \A k \in DOMAIN new : new[k].id = id => \E j \in DOMAIN ch : new[k] = ch[j]
    BY <1>a
<1> QED
    BY <1>4, <1>5, <1>6, <1>7, <1>8

-----------------------------------------------------------------------------
(* What is carried, and what is in flight                                  *)

LEMMA CarriesConcat ==
    ASSUME NEW ch \in Seq(RequestMessage), NEW ms \in Seq(RequestMessage), NEW t, NEW id
    PROVE  Carries(ch \o ms, t, id) <=> Carries(ch, t, id) \/ Carries(ms, t, id)
<1> DEFINE new == ch \o ms
<1>1. /\ Len(new) = Len(ch) + Len(ms)
      /\ \A k \in 1 .. Len(ch) : new[k] = ch[k]
      /\ \A k \in 1 .. Len(ms) : new[Len(ch) + k] = ms[k]
      /\ DOMAIN new = 1 .. Len(new) /\ DOMAIN ch = 1 .. Len(ch) /\ DOMAIN ms = 1 .. Len(ms)
      /\ Len(ch) \in Nat /\ Len(ms) \in Nat
    BY ConcatProperties
<1>2. \A k \in DOMAIN new : \/ k \in DOMAIN ch /\ new[k] = ch[k]
                            \/ \E j \in DOMAIN ms : new[k] = ms[j]
    BY ConcatElements
<1>3. \A k \in DOMAIN ch : k \in DOMAIN new /\ new[k] = ch[k]
    BY <1>1
<1>4. \A k \in DOMAIN ms : Len(ch) + k \in DOMAIN new /\ new[Len(ch) + k] = ms[k]
    BY <1>1
<1> HIDE DEF new
<1>5. ASSUME Carries(ms, t, id) PROVE Carries(new, t, id)
    <2>1. PICK k \in DOMAIN ms : ms[k].type = t /\ ms[k].id = id
        BY <1>5 DEF Carries
    <2> QED
        BY <1>4, <2>1 DEF Carries
<1>6. Carries(new, t, id) <=> Carries(ch, t, id) \/ Carries(ms, t, id)
    BY <1>2, <1>3, <1>5 DEF Carries
<1> QED
    BY <1>6 DEF new

LEMMA CarriesOne ==
    ASSUME NEW m \in RequestMessage, NEW t, NEW id
    PROVE  Carries(<<m>>, t, id) <=> m.type = t /\ m.id = id
BY DEF Carries

LEMMA CarriesAppend ==
    ASSUME NEW ch \in Seq(RequestMessage), NEW m \in RequestMessage, NEW t, NEW id
    PROVE  Carries(Append(ch, m), t, id) <=> Carries(ch, t, id) \/ (m.type = t /\ m.id = id)
<1> DEFINE new == Append(ch, m)
<1>1. /\ DOMAIN new = DOMAIN ch \cup {Len(ch) + 1}
      /\ \A k \in DOMAIN ch : new[k] = ch[k]
      /\ new[Len(ch) + 1] = m
    BY AppendElements
<1> HIDE DEF new
<1> QED
    BY <1>1 DEF Carries, new

LEMMA CarriesTail ==
    ASSUME NEW ch \in Seq(RequestMessage), ch # <<>>, NEW t, NEW id
    PROVE  Carries(ch, t, id) <=>
               (Head(ch).type = t /\ Head(ch).id = id) \/ Carries(Tail(ch), t, id)
<1> DEFINE new == Tail(ch)
<1>1. /\ Head(ch) = ch[1] /\ 1 \in DOMAIN ch
      /\ \A k \in DOMAIN new : k + 1 \in DOMAIN ch /\ new[k] = ch[k + 1]
    BY TailElements
<1>2. \A k \in DOMAIN ch : k # 1 => k - 1 \in DOMAIN new /\ new[k - 1] = ch[k]
    BY TailElements
<1> HIDE DEF new
<1> QED
    BY <1>1, <1>2 DEF Carries, new

LEMMA CarriesNothing == \A t, id : ~Carries(<<>>, t, id)
BY DEF Carries

\* The chunk after the last one sent continues what is in flight.
LEMMA AppendNext ==
    ASSUME NEW ch \in Seq(RequestMessage), NEW m \in RequestMessage, NEW id \in Ids,
           NEW got \in Nat, NEW top \in Nat, got <= top,
           IsChunk(m, id), m.chunk = top + 1,
           InFlight(ch, id, got, top), Reaches(ch, id, got, top)
    PROVE  /\ InFlight(Append(ch, m), id, got, top + 1)
           /\ Reaches(Append(ch, m), id, got, top + 1)
<1> DEFINE new == Append(ch, m)
           n == Len(ch) + 1
<1>1. /\ DOMAIN new = DOMAIN ch \cup {n}
      /\ \A k \in DOMAIN ch : new[k] = ch[k] /\ k < n /\ k \in Nat
      /\ new[n] = m /\ n \in Nat
    BY AppendElements
<1>2. \A k \in DOMAIN ch : ch[k].chunk \in Nat
    BY ChannelElements
<1> HIDE DEF new, n
<1>3. ASSUME NEW v \in got + 1 .. top
      PROVE  \E j \in DOMAIN ch : IsChunk(ch[j], id) /\ ch[j].chunk = v
    <2>1. PICK k \in DOMAIN ch : IsChunk(ch[k], id) /\ ch[k].chunk = top
        BY <1>3 DEF Reaches
    <2>2. CASE v = top
        BY <2>1, <2>2
    <2>3. CASE v # top
        <3>1. v \in got + 1 .. ch[k].chunk - 1
            BY <1>3, <2>1, <2>3
        <3> QED
            BY <2>1, <3>1 DEF InFlight
    <2> QED
        BY <2>2, <2>3
<1>4. ASSUME NEW k \in DOMAIN new, IsChunk(new[k], id)
      PROVE  /\ got < new[k].chunk
             /\ new[k].chunk <= top + 1
             /\ \A j \in DOMAIN new : IsChunk(new[j], id) /\ j < k => new[j].chunk < new[k].chunk
             /\ \A v \in got + 1 .. new[k].chunk - 1 :
                   \E j \in DOMAIN new : IsChunk(new[j], id) /\ new[j].chunk = v
    <2>1. CASE k = n
        <3>1. new[k].chunk = top + 1
            BY <1>1, <2>1
        <3>2. \A j \in DOMAIN new : IsChunk(new[j], id) /\ j < k => new[j].chunk <= top
            BY <1>1, <2>1 DEF InFlight
        <3>3. \A j \in DOMAIN new : j < k => new[j].chunk \in Nat
            BY <1>1, <1>2, <2>1
        <3>4. \A v \in got + 1 .. top :
                  \E j \in DOMAIN new : IsChunk(new[j], id) /\ new[j].chunk = v
            BY <1>1, <1>3
        <3> QED
            BY <3>1, <3>2, <3>3, <3>4
    <2>2. CASE k # n
        <3>1. k \in DOMAIN ch /\ new[k] = ch[k] /\ ch[k].chunk \in Nat
            BY <1>1, <1>2, <1>4, <2>2
        <3>2. /\ got < ch[k].chunk
              /\ ch[k].chunk <= top
              /\ \A j \in DOMAIN ch : IsChunk(ch[j], id) /\ j < k => ch[j].chunk < ch[k].chunk
              /\ \A v \in got + 1 .. ch[k].chunk - 1 :
                    \E j \in DOMAIN ch : IsChunk(ch[j], id) /\ ch[j].chunk = v
            BY <1>4, <3>1 DEF InFlight
        <3>3. \A j \in DOMAIN new : j < k => j \in DOMAIN ch /\ new[j] = ch[j]
            BY <1>1, <3>1
        <3> QED
            BY <1>1, <3>1, <3>2, <3>3
    <2> QED
        BY <2>1, <2>2
<1>5. InFlight(new, id, got, top + 1)
    BY <1>4 DEF InFlight
<1>6. Reaches(new, id, got, top + 1)
    BY <1>1 DEF Reaches
<1> QED
    BY <1>5, <1>6 DEF new

\* The first chunk in flight is the next one to be got.
LEMMA TailNext ==
    ASSUME NEW ch \in Seq(RequestMessage), ch # <<>>, NEW id \in Ids,
           NEW got \in Nat, NEW top \in Nat, IsChunk(Head(ch), id),
           InFlight(ch, id, got, top)
    PROVE  /\ Head(ch).chunk = got + 1
           /\ got + 1 <= top
           /\ InFlight(Tail(ch), id, got + 1, top)
           /\ Reaches(ch, id, got, top) => Reaches(Tail(ch), id, got + 1, top)
<1> DEFINE new == Tail(ch)
<1>1. /\ Head(ch) = ch[1] /\ 1 \in DOMAIN ch
      /\ \A k \in DOMAIN new : k + 1 \in DOMAIN ch /\ new[k] = ch[k + 1] /\ k \in Nat /\ k # 0
    BY TailElements
<1>2. \A k \in DOMAIN ch : k # 1 => k - 1 \in DOMAIN new /\ new[k - 1] = ch[k]
    BY TailElements
<1>3. \A k \in DOMAIN ch : ch[k].chunk \in Nat /\ k \in Nat /\ k # 0
    BY ChannelElements
<1> HIDE DEF new
<1>4. ch[1].chunk = got + 1 /\ got + 1 <= top
    <2>1. got < ch[1].chunk /\ ch[1].chunk <= top
        BY <1>1 DEF InFlight
    <2>2. ASSUME got + 1 < ch[1].chunk PROVE FALSE
        <3>1. got + 1 \in got + 1 .. ch[1].chunk - 1
            BY <1>1, <1>3, <2>2
        <3>2. PICK j \in DOMAIN ch : IsChunk(ch[j], id) /\ ch[j].chunk = got + 1
            BY <1>1, <3>1 DEF InFlight
        <3>3. 1 < j
            BY <1>3, <2>2, <3>2
        <3>4. ch[1].chunk < ch[j].chunk
            BY <1>1, <3>2, <3>3 DEF InFlight
        <3> QED
            BY <1>1, <1>3, <2>2, <3>2, <3>4
    <2> QED
        BY <1>1, <1>3, <2>1, <2>2
<1>5. \A k \in DOMAIN ch : k # 1 /\ IsChunk(ch[k], id) => got + 1 < ch[k].chunk
    BY <1>1, <1>3, <1>4 DEF InFlight
<1>6. ASSUME NEW k \in DOMAIN new, IsChunk(new[k], id)
      PROVE  /\ got + 1 < new[k].chunk
             /\ new[k].chunk <= top
             /\ \A j \in DOMAIN new : IsChunk(new[j], id) /\ j < k => new[j].chunk < new[k].chunk
             /\ \A v \in (got + 1) + 1 .. new[k].chunk - 1 :
                   \E j \in DOMAIN new : IsChunk(new[j], id) /\ new[j].chunk = v
    <2>1. k + 1 \in DOMAIN ch /\ k + 1 # 1 /\ new[k] = ch[k + 1] /\ IsChunk(ch[k + 1], id)
        BY <1>1, <1>6
    <2>2. got + 1 < new[k].chunk /\ new[k].chunk <= top
        BY <1>5, <2>1 DEF InFlight
    <2>3. \A j \in DOMAIN new : IsChunk(new[j], id) /\ j < k => new[j].chunk < new[k].chunk
        BY <1>1, <2>1 DEF InFlight
    <2>4. ASSUME NEW v \in (got + 1) + 1 .. new[k].chunk - 1
          PROVE  \E j \in DOMAIN new : IsChunk(new[j], id) /\ new[j].chunk = v
        <3>1. v \in got + 1 .. ch[k + 1].chunk - 1 /\ v # got + 1
            BY <1>3, <2>1
        <3>2. PICK j \in DOMAIN ch : IsChunk(ch[j], id) /\ ch[j].chunk = v
            BY <2>1, <3>1 DEF InFlight
        <3>3. j # 1
            BY <1>4, <3>1, <3>2
        <3> QED
            BY <1>2, <3>2, <3>3
    <2> QED
        BY <2>2, <2>3, <2>4
<1>7. InFlight(new, id, got + 1, top)
    BY <1>6 DEF InFlight
<1>8. ASSUME Reaches(ch, id, got, top) PROVE Reaches(new, id, got + 1, top)
    <2>1. PICK k \in DOMAIN ch : IsChunk(ch[k], id) /\ ch[k].chunk = top
        BY <1>4, <1>8 DEF Reaches
    <2>2. CASE k = 1
        BY <1>4, <2>1, <2>2 DEF Reaches
    <2>3. CASE k # 1
        BY <1>2, <2>1, <2>3 DEF Reaches
    <2> QED
        BY <2>2, <2>3
<1> QED
    BY <1>1, <1>4, <1>7, <1>8 DEF new

\* A chunk in flight is one more than was got before it could be sent.
LEMMA MoreInFlight ==
    ASSUME NEW ch \in Seq(RequestMessage), NEW id \in Ids, NEW got \in Nat, NEW top \in Nat,
           InFlight(ch, id, got, top)
    PROVE  InFlight(ch, id, got, top + 1)
<1>1. \A k \in DOMAIN ch : ch[k].chunk \in Nat
    BY ChannelElements
<1> QED
    BY <1>1 DEF InFlight

LEMMA ChunksFirstAppend ==
    ASSUME NEW ch \in Seq(RequestMessage), NEW m \in RequestMessage, NEW id \in Ids,
           ~IsChunk(m, id), ChunksFirst(ch, id),
           m.type # "HTTP_BODY_END" \/ m.id # id \/ ~Carries(ch, "HTTP_BODY_END", id)
    PROVE  ChunksFirst(Append(ch, m), id)
<1> DEFINE new == Append(ch, m)
           n == Len(ch) + 1
<1>1. /\ DOMAIN new = DOMAIN ch \cup {n}
      /\ \A k \in DOMAIN ch : new[k] = ch[k] /\ k < n
      /\ new[n] = m
    BY AppendElements
<1> HIDE DEF new, n
<1>2. ChunksFirst(new, id)
    BY <1>1 DEF ChunksFirst
<1> QED
    BY <1>2 DEF new

LEMMA ChunksFirstTail ==
    ASSUME NEW ch \in Seq(RequestMessage), ch # <<>>, NEW id \in Ids, ChunksFirst(ch, id)
    PROVE  /\ ChunksFirst(Tail(ch), id)
           /\ Head(ch).type = "HTTP_BODY_END" /\ Head(ch).id = id =>
                 \A k \in DOMAIN ch : ~IsChunk(ch[k], id)
<1> DEFINE new == Tail(ch)
<1>1. /\ Head(ch) = ch[1] /\ 1 \in DOMAIN ch
      /\ \A k \in DOMAIN new : k + 1 \in DOMAIN ch /\ new[k] = ch[k + 1] /\ k \in Nat
    BY TailElements
<1>2. \A k \in DOMAIN ch : ~(k < 1)
    OBVIOUS
<1> HIDE DEF new
<1>3. ChunksFirst(new, id)
    BY <1>1 DEF ChunksFirst
<1>4. Head(ch).type = "HTTP_BODY_END" /\ Head(ch).id = id => \A k \in DOMAIN ch : ~IsChunk(ch[k], id)
    BY <1>1, <1>2 DEF ChunksFirst
<1> QED
    BY <1>3, <1>4 DEF new

LEMMA ResponseFirstAppend ==
    ASSUME NEW ch \in Seq(RequestMessage), NEW m \in RequestMessage, NEW id \in Ids, ResponseFirst(ch, id),
           ~IsChunk(m, id) \/ Carries(ch, "HTTP_RESPONSE", id)
    PROVE  ResponseFirst(Append(ch, m), id)
<1> DEFINE new == Append(ch, m)
           n == Len(ch) + 1
<1>1. /\ DOMAIN new = DOMAIN ch \cup {n}
      /\ \A k \in DOMAIN ch : new[k] = ch[k] /\ k < n
      /\ new[n] = m
    BY AppendElements
<1> HIDE DEF new, n
<1>2. ResponseFirst(new, id)
    BY <1>1 DEF ResponseFirst, Carries
<1> QED
    BY <1>2 DEF new

LEMMA ResponseFirstTail ==
    ASSUME NEW ch \in Seq(RequestMessage), ch # <<>>, NEW id \in Ids, ResponseFirst(ch, id)
    PROVE  /\ ~IsChunk(Head(ch), id)
           /\ Head(ch).type # "HTTP_RESPONSE" \/ Head(ch).id # id => ResponseFirst(Tail(ch), id)
<1> DEFINE new == Tail(ch)
<1>1. /\ Head(ch) = ch[1] /\ 1 \in DOMAIN ch /\ \A k \in DOMAIN ch : k \in Nat /\ k >= 1
      /\ \A k \in DOMAIN new : k + 1 \in DOMAIN ch /\ new[k] = ch[k + 1] /\ k \in Nat
    BY TailElements
<1>2. \A k \in DOMAIN ch : k # 1 => k - 1 \in DOMAIN new /\ new[k - 1] = ch[k]
    BY TailElements
<1> HIDE DEF new
<1>3. ~IsChunk(ch[1], id)
    BY <1>1 DEF ResponseFirst
<1>4. ASSUME ch[1].type # "HTTP_RESPONSE" \/ ch[1].id # id PROVE ResponseFirst(new, id)
    <2> SUFFICES ASSUME NEW k \in DOMAIN new, IsChunk(new[k], id)
                 PROVE  \E j \in DOMAIN new :
                            j < k /\ new[j].type = "HTTP_RESPONSE" /\ new[j].id = id
        BY DEF ResponseFirst
    <2>1. PICK j \in DOMAIN ch : j < k + 1 /\ ch[j].type = "HTTP_RESPONSE" /\ ch[j].id = id
        BY <1>1 DEF ResponseFirst
    <2>2. j # 1 /\ j - 1 \in DOMAIN new /\ new[j - 1] = ch[j] /\ j - 1 < k
        BY <1>1, <1>2, <1>4, <2>1
    <2> QED
        BY <2>1, <2>2
<1> QED
    BY <1>1, <1>3, <1>4 DEF new

\* Behind another message about id its exchange does not begin.
LEMMA NothingBeginsLate ==
    ASSUME NEW ch \in Seq(RequestMessage), ch # <<>>, NEW id \in Ids, BeginsWith(ch, id),
           Head(ch).id = id
    PROVE  \A t \in {"DNS_QUERY", "HTTP_REQUEST", "UDP_BIND"} : ~Carries(Tail(ch), t, id)
<1> DEFINE new == Tail(ch)
<1>1. /\ 1 \in DOMAIN ch /\ ch[1].id = id
      /\ \A k \in DOMAIN new : k + 1 \in DOMAIN ch /\ new[k] = ch[k + 1] /\ k \in Nat /\ k # 0
    BY TailElements
<1> HIDE DEF new
<1>2. ASSUME NEW k \in DOMAIN new, Begins(new[k]), new[k].id = id
      PROVE  FALSE
    <2>1. k + 1 <= 1
        BY <1>1, <1>2 DEF BeginsWith
    <2> QED
        BY <1>1, <2>1
<1>3. \A t \in {"DNS_QUERY", "HTTP_REQUEST", "UDP_BIND"} : ~Carries(new, t, id)
    BY <1>2 DEF Carries, Begins
<1> QED
    BY <1>3 DEF new

-----------------------------------------------------------------------------
(* Sending, as the exchange of one id sees it                              *)

\* What the client sends reaches the channel of a session both ends believe in.
LEMMA SendIsHeard ==
    ASSUME KindInv, HomeInv, NEW ms, Send(ms)
    PROVE  \A s \in Sessions : up'[s] = IF LinkUp(s) THEN up[s] \o ms ELSE up[s]
<1>1. up \in [Sessions -> Seq(Asked)] /\ (cws => sess \in Sessions) /\ (cws => ~isClosed)
    BY WireAssumption DEF KindInv, TypeOK, ChannelsAgree, Sessions, HomeInv, OpenEnds
<1> QED
    BY <1>1 DEF Send, LinkUp

\* So does what the server sends: a transport that is closed has no WebSocket.
LEMMA ReplyIsHeard ==
    ASSUME KindInv, HomeInv, NEW s \in Sessions, NEW m, Reply(s, m)
    PROVE  \A z \in Sessions :
               down'[z] = IF z = s /\ LinkUp(s) THEN Append(down[z], m) ELSE down[z]
<1>1. down \in [Sessions -> Seq(Answered)] /\ (sws[s] => tstate[s] # "closed")
    BY DEF KindInv, ChannelsAgree, HomeInv, OpenEnds
<1> QED
    BY <1>1 DEF Reply, LinkUp

LEMMA ReplyTwiceIsHeard ==
    ASSUME KindInv, HomeInv, NEW s \in Sessions, NEW m, NEW n, ReplyTwice(s, m, n)
    PROVE  \A z \in Sessions :
               down'[z] = IF z = s /\ LinkUp(s) THEN down[z] \o <<m, n>> ELSE down[z]
<1>1. down \in [Sessions -> Seq(Answered)] /\ (sws[s] => tstate[s] # "closed")
    BY DEF KindInv, ChannelsAgree, HomeInv, OpenEnds
<1> QED
    BY <1>1 DEF ReplyTwice, LinkUp

\* A new exchange: its id was not spoken of.
LEMMA NewIdIsFresh ==
    ASSUME KindInv, NEW k, TakeId(k)
    PROVE  /\ nextId \in Ids /\ sess \in Sessions /\ kind[nextId] = "none" /\ home[nextId] = 0
           /\ home'[nextId] = sess /\ kind'[nextId] = k
           /\ \A id \in Ids : id # nextId => home'[id] = home[id] /\ kind'[id] = kind[id]
<1>t. ClientTypes /\ ClientAgrees
    BY TypesOfParts
<1>1. nextId \in Ids /\ sess \in Sessions /\ nextId >= nextId
    BY <1>t, WireAssumption DEF ClientTypes, Sessions, Ids, TakeId
<1>2. kind[nextId] = "none" /\ home[nextId] = 0
    BY <1>t, <1>1 DEF ClientAgrees
<1>3. home \in [Ids -> 0 .. MaxSessions] /\ kind \in [Ids -> Kind]
    BY <1>t DEF ClientTypes, RequestTypeOK
<1> QED
    BY <1>1, <1>2, <1>3 DEF TakeId

\* The kind of an exchange stays what it is.
LEMMA KindsStay ==
    ASSUME KindInv, RequestNext
    PROVE  \A id \in Ids : kind[id] # "none" => kind'[id] = kind[id]
<1>1. UNCHANGED kind \/ \E k : TakeId(k)
    BY DEF RequestNext, UDPDriver, QueryDNS, FetchHTTP, Await, ReapRequests, SendBodyChunk,
           SendBodyEnd, GiveUp, CancelBody, DnsResponse, HttpResponse, BodyChunk, BodyEnd,
           Stray, UdpBind, UdpSend, UdpDrop, UdpHears, requestVars
<1> QED
    BY <1>1, NewIdIsFresh

\* What is said is said about ids that were handed out.
LEMMA NobodySpeaksOfIt ==
    ASSUME KindInv, NEW id \in Ids, kind[id] = "none"
    PROVE  \A s \in Sessions :
               /\ \A k \in DOMAIN up[s] : up[s][k].id # id
               /\ \A k \in DOMAIN down[s] : down[s][k].id # id
               /\ stage[s][id] = "none" /\ loop[s][id] = "none"
               /\ id \notin queries[s] \cup lookups[s]
<1>1. ASSUME NEW s \in Sessions, NEW k \in DOMAIN up[s] PROVE up[s][k] \in Asked
    BY <1>1 DEF KindInv, ChannelsAgree
<1>2. ASSUME NEW s \in Sessions, NEW k \in DOMAIN down[s] PROVE down[s][k] \in Answered
    BY <1>2 DEF KindInv, ChannelsAgree
<1>3. \A s \in Sessions : /\ stage[s][id] = "none" /\ loop[s][id] = "none"
                          /\ id \notin queries[s] \cup lookups[s]
    BY DEF KindInv, ServerAgrees
<1> QED
    BY <1>1, <1>2, <1>3, MessagesAgree

-----------------------------------------------------------------------------
(* Request bodies                                                          *)

\* Requests have bodies, and only in the session of the request.
LEMMA BodiesAreAtHome ==
    ASSUME KindInv, HomeInv, NEW id \in Ids, NEW s \in Sessions
    PROVE  /\ id \in bodies[s] => stage[s][id] = "fetching" \/ stage[s][id] = "streaming"
           /\ id \in bodies[s] \cup finished[s] \/ uploaded[s][id] # <<>> =>
                 home[id] = s /\ kind[id] = "http"
<1>1. id \in bodies[s] => stage[s][id] = "fetching" \/ stage[s][id] = "streaming"
    BY DEF HomeInv, MapsAreClean
<1>2. id \in bodies[s] \cup finished[s] \/ uploaded[s][id] # <<>> => stage[s][id] # "none"
    BY <1>1 DEF HomeInv, WorkIsAtHome
<1> QED
    BY <1>1, <1>2 DEF HomeInv, WorkIsAtHome, KindInv, ServerAgrees

\* A step that only lets the upload of id fade.
UpKept(s, id) ==
    \/ up'[s] = <<>> /\ ~LinkUp(s)'
    \/ /\ SameIn(up'[s], up[s], ChunksOf(id))
       /\ id \in pending' /\ Carries(up'[s], "HTTP_BODY_END", id) =>
             /\ Carries(up[s], "HTTP_BODY_END", id)
             /\ ChunksFirst(up[s], id) => ChunksFirst(up'[s], id)

UploadFades(s, id) ==
    /\ home'[id] = s /\ uploaded'[s][id] = uploaded[s][id] /\ sent'[id] = sent[id]
    /\ writing'[id] => writing[id]
    /\ id \in torn => id \in torn'
    /\ id \in pending' => id \in pending
    /\ id \in finished'[s] => id \in finished[s]
    /\ TakesBody(id)' => TakesBody(id)
    /\ LinkUp(s)' => LinkUp(s)
    /\ UpKept(s, id)

LEMMA UploadFading ==
    ASSUME KindInv, KindInv', NEW s \in Sessions, NEW id \in Ids, home[id] = s,
           UploadGood(id), UploadFades(s, id)
    PROVE  UploadGood(id)'
<1> DEFINE ch == up[s]
           new == up'[s]
           r == uploaded[s][id]
           n == sent[id]
<1>t. /\ ch \in Seq(RequestMessage) /\ new \in Seq(RequestMessage)
    BY DEF KindInv, TypeOK
<1>f. /\ home'[id] = s /\ uploaded'[s][id] = r /\ sent'[id] = n
      /\ TakesBody(id)' => TakesBody(id)
      /\ LinkUp(s)' => LinkUp(s)
      /\ Wanted(id)' => Wanted(id)
      /\ writing'[id] => writing[id]
      /\ id \in finished'[s] => id \in finished[s]
    BY DEF UploadFades, Wanted
<1>g. /\ \A k \in DOMAIN r : r[k] = k
      /\ Len(r) <= n
      /\ TakesBody(id) => InFlight(ch, id, Len(r), n)
      /\ TakesBody(id) /\ LinkUp(s) => Reaches(ch, id, Len(r), n)
      /\ Wanted(id) /\ Carries(ch, "HTTP_BODY_END", id) =>
            /\ ~writing[id]
            /\ ChunksFirst(ch, id)
            /\ TakesBody(id) => Reaches(ch, id, Len(r), n)
      /\ id \in finished[s] => (~writing[id] /\ Len(r) = n) \/ ~Wanted(id)
    BY DEF UploadGood, UploadOf, Delivery
<1>k. UpKept(s, id)
    BY DEF UploadFades
<1>1. TakesBody(id)' => InFlight(new, id, Len(r), n)
    <2>1. CASE new = <<>>
        BY <2>1 DEF InFlight
    <2>2. CASE SameIn(new, ch, ChunksOf(id))
        BY <1>t, <1>f, <1>g, <2>2, SameChunks
    <2> QED
        BY <1>k, <2>1, <2>2 DEF UpKept
<1>2. TakesBody(id)' /\ LinkUp(s)' => Reaches(new, id, Len(r), n)
    BY <1>t, <1>f, <1>g, <1>k, SameChunks DEF UpKept
<1>3. Wanted(id)' /\ Carries(new, "HTTP_BODY_END", id) =>
          /\ ~writing'[id]
          /\ ChunksFirst(new, id)
          /\ TakesBody(id)' => Reaches(new, id, Len(r), n)
    <2>1. CASE new = <<>>
        BY <2>1, CarriesNothing
    <2>2. CASE /\ SameIn(new, ch, ChunksOf(id))
               /\ id \in pending' /\ Carries(new, "HTTP_BODY_END", id) =>
                     /\ Carries(ch, "HTTP_BODY_END", id)
                     /\ ChunksFirst(ch, id) => ChunksFirst(new, id)
        <3>1. Wanted(id)' => id \in pending'
            BY DEF Wanted
        <3> QED
            BY <1>t, <1>f, <1>g, <2>2, <3>1, SameChunks
    <2> QED
        BY <1>k, <2>1, <2>2 DEF UpKept
<1>4. id \in finished'[s] => (~writing'[id] /\ Len(r) = n) \/ ~Wanted(id)'
    BY <1>f, <1>g
<1>5. UploadOf(id)'
    <2>1. Delivery(r, new, id, n, TakesBody(id)', LinkUp(s)')
        BY <1>g, <1>1, <1>2 DEF Delivery
    <2> QED
        BY <1>f, <2>1 DEF UploadOf, LinkUp
<1> QED
    BY <1>f, <1>3, <1>4, <1>5 DEF UploadGood

\* The client says nothing of the upload of id, or nothing at all.
LEMMA ClientSaysLittle ==
    ASSUME KindInv, HomeInv, NEW s \in Sessions, NEW id \in Ids, home[id] = s,
           NEW ms \in Seq(RequestMessage),
           up'[s] = up[s] \/ up'[s] = up[s] \o ms,
           \A k \in DOMAIN ms : ms[k].id = id =>
               /\ ms[k].type \notin {"HTTP_BODY_CHUNK", "UDP_DATA", "HTTP_REQUEST"}
               /\ id \in pending' => ms[k].type # "HTTP_BODY_END",
           UNCHANGED <<uploaded, bodies, finished>>,
           home'[id] = s, sent'[id] = sent[id], writing'[id] => writing[id],
           id \in torn => id \in torn', id \in pending' => id \in pending,
           LinkUp(s)' => LinkUp(s)
    PROVE  UploadFades(s, id)
<1> DEFINE ch == up[s]
           new == up'[s]
<1>t. ch \in Seq(RequestMessage)
    BY DEF KindInv, TypeOK
<1>1. CASE new = ch
    <2>1. SameIn(new, ch, ChunksOf(id))
        BY <1>1, <1>t, SameRefl
    <2>2. UpKept(s, id)
        BY <1>1, <2>1 DEF UpKept
    <2>3. TakesBody(id)' => TakesBody(id)
        BY <1>1 DEF TakesBody
    <2> QED
        BY <2>2, <2>3 DEF UploadFades
<1>2. CASE new = ch \o ms
    <2>1. SameIn(new, ch, ChunksOf(id))
        <3>1. \A k \in DOMAIN ms : ms[k] \notin ChunksOf(id)
            BY DEF ChunksOf, IsChunk
        <3> QED
            BY <1>2, <1>t, <3>1, SameConcat
    <2>2. \A t : Carries(new, t, id) <=> Carries(ch, t, id) \/ Carries(ms, t, id)
        BY <1>2, <1>t, CarriesConcat
    <2>3. ~Carries(ms, "HTTP_REQUEST", id) /\ (id \in pending' => ~Carries(ms, "HTTP_BODY_END", id))
        BY DEF Carries
    <2>4. ASSUME id \in pending', ChunksFirst(ch, id) PROVE ChunksFirst(new, id)
        <3>1. \A k \in DOMAIN new : \/ k \in DOMAIN ch /\ new[k] = ch[k]
                                    \/ new[k].id # id
                                    \/ ~IsChunk(new[k], id) /\ new[k].type # "HTTP_BODY_END"
            <4>1. \A k \in DOMAIN new : \/ k \in DOMAIN ch /\ new[k] = ch[k]
                                        \/ \E j \in DOMAIN ms : new[k] = ms[j]
                BY <1>2, <1>t, ConcatElements
            <4> QED
                BY <2>4, <4>1 DEF IsChunk
        <3>2. \A k \in DOMAIN new : IsChunk(new[k], id) => new[k].id = id
            BY DEF IsChunk
        <3> HIDE DEF ch, new
        <3> QED
            BY <2>4, <3>1, <3>2 DEF ChunksFirst
    <2>5. UpKept(s, id)
        BY <2>1, <2>2, <2>3, <2>4 DEF UpKept
    <2>6. TakesBody(id)' => TakesBody(id)
        BY <2>2, <2>3 DEF TakesBody
    <2> QED
        BY <2>5, <2>6 DEF UploadFades
<1> QED
    BY <1>1, <1>2

\* A request begins with nothing sent and nothing received.
LEMMA NewUpload ==
    ASSUME KindInv, HomeInv, NEW k, TakeId(k), NEW id \in Ids, id = nextId,
           NEW m \in RequestMessage, m.id = id,
           m.type \in {"DNS_QUERY", "HTTP_REQUEST", "UDP_BIND"}, Send(<<m>>),
           UNCHANGED <<sess, cws, sws, sent, uploaded, bodies, finished>>
    PROVE  UploadGood(id)'
<1>s. PICK s \in Sessions : s = sess
    BY NewIdIsFresh
<1> DEFINE new == up'[s]
<1>1. /\ kind[id] = "none" /\ home'[id] = s
    BY <1>s, NewIdIsFresh
<1>2. sent'[id] = 0 /\ id \notin finished'[s] /\ uploaded'[s][id] = <<>>
    <2>1. id \notin finished[s] /\ uploaded[s][id] = <<>>
        BY <1>1, BodiesAreAtHome
    <2>2. sent[id] = 0
        BY <1>1 DEF KindInv, ClientAgrees
    <2> QED
        BY <2>1, <2>2
<1>3. \A j \in DOMAIN new : ~IsChunk(new[j], id) /\ (new[j].id = id => new[j].type # "HTTP_BODY_END")
    <2>1. up[s] \in Seq(RequestMessage) /\ \A j \in DOMAIN up[s] : up[s][j].id # id
        BY <1>1, NobodySpeaksOfIt DEF KindInv, TypeOK
    <2>2. <<m>> \in Seq(RequestMessage) /\ (new = up[s] \/ new = up[s] \o <<m>>)
        <3>1. \A z \in Sessions : up'[z] = IF LinkUp(z) THEN up[z] \o <<m>> ELSE up[z]
            BY SendIsHeard
        <3>2. up'[s] = IF LinkUp(s) THEN up[s] \o <<m>> ELSE up[s]
            BY <3>1
        <3>3. <<m>> \in Seq(RequestMessage)
            OBVIOUS
        <3> QED
            BY <3>2, <3>3
    <2>3. \A j \in DOMAIN new : \/ j \in DOMAIN up[s] /\ new[j] = up[s][j]
                                \/ \E i \in DOMAIN <<m>> : new[j] = <<m>>[i]
        BY <2>1, <2>2, ConcatElements
    <2>4. \A j \in DOMAIN new : new[j].id # id \/ new[j] = m
        BY <2>1, <2>3
    <2> QED
        BY <2>4 DEF IsChunk
<1> HIDE DEF new
<1>4. InFlight(new, id, 0, 0) /\ Reaches(new, id, 0, 0) /\ ~Carries(new, "HTTP_BODY_END", id)
    BY <1>3 DEF InFlight, Reaches, Carries
<1>5. \A P, Q : Delivery(<<>>, new, id, 0, P, Q)
    <2>1. Len(<<>>) = 0 /\ DOMAIN <<>> = {}
        OBVIOUS
    <2> QED
        BY <1>4, <2>1 DEF Delivery
<1>6. /\ home'[id] = s /\ uploaded'[s][id] = <<>> /\ sent'[id] = 0 /\ id \notin finished'[s]
      /\ ~Carries(new, "HTTP_BODY_END", id) /\ new = up'[s]
    BY <1>1, <1>2, <1>4 DEF new
<1>7. Delivery(<<>>, up'[s], id, 0, TakesBody(id)', LinkUp(s)')
    BY <1>5, <1>6
<1> QED
    BY <1>6, <1>7 DEF UploadGood, UploadOf, LinkUp

\* The caller's body goes on: its next chunk follows what is on its way.
LEMMA UploadGoesOn ==
    ASSUME KindInv, HomeInv, NEW id \in Ids, home[id] # 0, UploadGood(id), SendBodyChunk(id),
           UNCHANGED serverVars
    PROVE  UploadGood(id)'
<1>s. PICK s \in Sessions : s = home[id]
    BY WireAssumption DEF KindInv, TypeOK, Sessions
<1> DEFINE ch == up[s]
           new == up'[s]
           r == uploaded[s][id]
           n == sent[id]
           m == Chunk("HTTP_BODY_CHUNK", id, n + 1)
<1>t. /\ ch \in Seq(RequestMessage) /\ m \in RequestMessage /\ n \in Nat
      /\ r \in Seq(1 .. MaxChunks) /\ Len(r) \in Nat
      /\ sent \in [Ids -> 0 .. MaxChunks] /\ writing[id] /\ sent[id] < MaxChunks
    <2>1. r \in Seq(1 .. MaxChunks)
        BY DEF KindInv, TypeOK, HttpTypeOK
    <2>2. ch \in Seq(RequestMessage) /\ sent \in [Ids -> 0 .. MaxChunks]
        BY DEF KindInv, TypeOK
    <2>3. writing[id] /\ sent[id] < MaxChunks
        BY DEF SendBodyChunk
    <2>4. n \in Nat /\ n + 1 \in 0 .. MaxChunks + 1
        BY <2>2, <2>3, WireAssumption
    <2> QED
        BY <2>1, <2>2, <2>3, <2>4 DEF Chunk, RequestMessage, RequestType
<1>f. /\ home'[id] = s /\ uploaded'[s][id] = r /\ sent'[id] = n + 1 /\ writing'[id]
      /\ finished' = finished /\ bodies' = bodies /\ torn' = torn /\ pending' = pending
      /\ sess' = sess /\ cws' = cws /\ sws' = sws
    BY <1>s, <1>t DEF SendBodyChunk, serverVars, httpVars, requestVars
<1>c. new = IF LinkUp(s) THEN Append(ch, m) ELSE ch
    <2>1. \A z \in Sessions : up'[z] = IF LinkUp(z) THEN up[z] \o <<m>> ELSE up[z]
        BY SendIsHeard DEF SendBodyChunk
    <2>2. ch \o <<m>> = Append(ch, m)
        BY <1>t, AppendIsConcat
    <2> QED
        BY <2>1, <2>2
<1>m. IsChunk(m, id) /\ m.chunk = n + 1 /\ m.type = "HTTP_BODY_CHUNK" /\ m.id = id
    BY DEF IsChunk, Chunk
<1>g. /\ \A k \in DOMAIN r : r[k] = k
      /\ Len(r) <= n
      /\ TakesBody(id) => InFlight(ch, id, Len(r), n)
      /\ TakesBody(id) /\ LinkUp(s) => Reaches(ch, id, Len(r), n)
      /\ Wanted(id) => ~Carries(ch, "HTTP_BODY_END", id)
      /\ id \in finished[s] => ~Wanted(id)
    BY <1>s, <1>t DEF UploadGood, UploadOf, Delivery
<1> HIDE DEF ch, new, r, n, m
<1>1. CASE LinkUp(s)
    <2>1. \A t : Carries(new, t, id) <=> Carries(ch, t, id) \/ (m.type = t /\ m.id = id)
        BY <1>1, <1>c, <1>t, CarriesAppend
    <2>2. TakesBody(id)' => TakesBody(id)
        BY <1>f, <1>m, <1>s, <2>1 DEF TakesBody, ch, new
    <2>3. TakesBody(id) => InFlight(new, id, Len(r), n + 1) /\ Reaches(new, id, Len(r), n + 1)
        BY <1>1, <1>c, <1>g, <1>m, <1>t, AppendNext
    <2>4. Wanted(id) => ~Carries(new, "HTTP_BODY_END", id)
        BY <1>g, <1>m, <2>1
    <2> QED
        BY <2>2, <2>3, <2>4, <1>f, <1>g, <1>t
        DEF UploadGood, UploadOf, Delivery, Wanted, ch, new, r, n
<1>2. CASE ~LinkUp(s)
    <2>1. new = ch /\ ~LinkUp(s)'
        BY <1>2, <1>c, <1>f DEF LinkUp
    <2>2. TakesBody(id)' => TakesBody(id)
        BY <1>f, <1>s, <2>1 DEF TakesBody, ch, new
    <2>3. TakesBody(id) => InFlight(new, id, Len(r), n + 1)
        BY <1>g, <1>t, <2>1, MoreInFlight
    <2> QED
        BY <2>1, <2>2, <2>3, <1>f, <1>g, <1>t
        DEF UploadGood, UploadOf, Delivery, Wanted, ch, new, r, n
<1> QED
    BY <1>1, <1>2

\* The caller's body ends: the end follows all of it, if the link is up.
LEMMA UploadEnds ==
    ASSUME KindInv, HomeInv, NEW id \in Ids, home[id] # 0, UploadGood(id), SendBodyEnd(id),
           UNCHANGED serverVars
    PROVE  UploadGood(id)'
<1>s. PICK s \in Sessions : s = home[id]
    BY WireAssumption DEF KindInv, TypeOK, Sessions
<1> DEFINE ch == up[s]
           new == up'[s]
           r == uploaded[s][id]
           n == sent[id]
           m == Msg("HTTP_BODY_END", id)
<1>t. /\ ch \in Seq(RequestMessage) /\ m \in RequestMessage /\ writing[id]
      /\ writing \in [Ids -> BOOLEAN]
    <2>1. 0 \in 0 .. MaxChunks + 1
        BY WireAssumption
    <2>2. m \in RequestMessage
        BY <2>1 DEF Msg, RequestMessage, RequestType
    <2> QED
        BY <2>2 DEF KindInv, TypeOK, SendBodyEnd
<1>f. /\ home'[id] = s /\ uploaded'[s][id] = r /\ sent'[id] = n /\ ~writing'[id]
      /\ finished' = finished /\ bodies' = bodies /\ (id \in torn => id \in torn') /\ pending' = pending
      /\ sess' = sess /\ cws' = cws /\ sws' = sws
    BY <1>s, <1>t DEF SendBodyEnd, serverVars, httpVars
<1>c. new = IF LinkUp(s) THEN Append(ch, m) ELSE ch
    <2>1. \A z \in Sessions : up'[z] = IF LinkUp(z) THEN up[z] \o <<m>> ELSE up[z]
        BY SendIsHeard DEF SendBodyEnd
    <2>2. ch \o <<m>> = Append(ch, m)
        BY <1>t, AppendIsConcat
    <2> QED
        BY <2>1, <2>2
<1>m. ~IsChunk(m, id) /\ m.type = "HTTP_BODY_END" /\ m.id = id
    BY DEF IsChunk, Msg
<1>g. /\ \A k \in DOMAIN r : r[k] = k
      /\ Len(r) <= n
      /\ TakesBody(id) => InFlight(ch, id, Len(r), n)
      /\ TakesBody(id) /\ LinkUp(s) => Reaches(ch, id, Len(r), n)
      /\ Wanted(id) => ~Carries(ch, "HTTP_BODY_END", id)
      /\ id \in finished[s] => ~Wanted(id)
    BY <1>s, <1>t DEF UploadGood, UploadOf, Delivery
<1> HIDE DEF ch, new, r, n, m
<1>1. CASE LinkUp(s)
    <2>1. \A t : Carries(new, t, id) <=> Carries(ch, t, id) \/ (m.type = t /\ m.id = id)
        BY <1>1, <1>c, <1>t, CarriesAppend
    <2>2. TakesBody(id)' => TakesBody(id)
        BY <1>f, <1>m, <1>s, <2>1 DEF TakesBody, ch, new
    <2>3. TakesBody(id) => InFlight(new, id, Len(r), n) /\ Reaches(new, id, Len(r), n)
        <3>1. SameIn(new, ch, ChunksOf(id))
            <4>1. <<m>> \in Seq(RequestMessage) /\ ch \o <<m>> = new
                BY <1>1, <1>c, <1>t, AppendIsConcat
            <4>2. \A k \in DOMAIN <<m>> : <<m>>[k] \notin ChunksOf(id)
                BY <1>m DEF ChunksOf
            <4> QED
                BY <1>t, <4>1, <4>2, SameConcat
        <3>2. new \in Seq(RequestMessage)
            BY <1>1, <1>c, <1>t
        <3> QED
            BY <1>1, <1>g, <1>t, <3>1, <3>2, SameChunks
    <2>4. Wanted(id) => ChunksFirst(new, id)
        <3>1. ~Carries(ch, "HTTP_BODY_END", id) => ChunksFirst(ch, id)
            BY DEF Carries, ChunksFirst
        <3> QED
            BY <1>1, <1>c, <1>g, <1>m, <1>t, <3>1, ChunksFirstAppend
    <2> QED
        BY <2>2, <2>3, <2>4, <1>f, <1>g, <1>t
        DEF UploadGood, UploadOf, Delivery, Wanted, ch, new, r, n
<1>2. CASE ~LinkUp(s)
    <2>1. new = ch /\ ~LinkUp(s)'
        BY <1>2, <1>c, <1>f DEF LinkUp
    <2>2. TakesBody(id)' => TakesBody(id)
        BY <1>f, <1>s, <2>1 DEF TakesBody, ch, new
    <2> QED
        BY <2>1, <2>2, <1>f, <1>g, <1>t
        DEF UploadGood, UploadOf, Delivery, Wanted, ch, new, r, n
<1> QED
    BY <1>1, <1>2

LEMMA ClientKeepsUploads ==
    ASSUME KindInv, HomeInv, KindInv', RequestNext, UNCHANGED serverVars,
           NEW id \in Ids, kind'[id] = "http", kind[id] = "http" => UploadGood(id)
    PROVE  UploadGood(id)'
<1>t. ClientTypes /\ ClientAgrees /\ WaitingIsTimed
    BY TypesOfParts
<1>v. UNCHANGED <<uploaded, bodies, finished>>
    BY DEF serverVars, httpVars
<1>e. <<>> \in Seq(RequestMessage)
    OBVIOUS
<1>h. home'[id] # 0 /\ (home[id] # 0 => UploadGood(id))
    <2>1. home'[id] # 0
        BY DEF KindInv, ClientAgrees
    <2>2. kind[id] # "none" => kind'[id] = kind[id]
        BY KindsStay
    <2>3. kind[id] = "none" <=> home[id] = 0
        BY <1>t DEF ClientAgrees
    <2> QED
        BY <2>1, <2>2, <2>3
\* Nothing is said of the upload of id.
<1>little. ASSUME NEW ms \in Seq(RequestMessage), UNCHANGED up \/ Send(ms),
                  \A k \in DOMAIN ms : ms[k].id = id =>
                      /\ ms[k].type \notin {"HTTP_BODY_CHUNK", "UDP_DATA", "HTTP_REQUEST"}
                      /\ id \in pending' => ms[k].type # "HTTP_BODY_END",
                  home[id] # 0, home'[id] = home[id], UNCHANGED <<sess, sws>>, cws' => cws,
                  sent'[id] = sent[id], writing'[id] => writing[id],
                  id \in torn => id \in torn', id \in pending' => id \in pending
           PROVE  UploadGood(id)'
    <2>1. PICK s \in Sessions : s = home[id]
        BY <1>t, <1>little, WireAssumption DEF ClientTypes, Sessions
    <2>2. up'[s] = up[s] \/ up'[s] = up[s] \o ms
        <3>1. CASE Send(ms)
            <4>1. \A z \in Sessions : up'[z] = IF LinkUp(z) THEN up[z] \o ms ELSE up[z]
                BY <3>1, SendIsHeard
            <4> QED
                BY <4>1
        <3> QED
            BY <1>little, <3>1
    <2>3. LinkUp(s)' => LinkUp(s)
        BY <1>little DEF LinkUp
    <2>4. UploadFades(s, id)
        BY <1>v, <1>little, <2>1, <2>2, <2>3, ClientSaysLittle
    <2> QED
        BY <1>h, <1>little, <2>1, <2>4, UploadFading
<1>quiet. ASSUME UNCHANGED <<up, home, sess, sws, sent>>, cws' => cws,
                 writing'[id] => writing[id], id \in torn => id \in torn',
                 id \in pending' => id \in pending
          PROVE  UploadGood(id)'
    <2>1. home[id] # 0 /\ home'[id] = home[id] /\ sent'[id] = sent[id]
        BY <1>h, <1>quiet
    <2>2. \A k \in DOMAIN <<>> : FALSE
        OBVIOUS
    <2> QED
        BY <1>e, <1>quiet, <1>little, <2>1, <2>2
<1>one. ASSUME NEW m \in RequestMessage, UNCHANGED up \/ Send(<<m>>),
               m.id = id =>
                   /\ m.type \notin {"HTTP_BODY_CHUNK", "UDP_DATA", "HTTP_REQUEST"}
                   /\ id \in pending' => m.type # "HTTP_BODY_END",
               home[id] # 0, home'[id] = home[id], UNCHANGED <<sess, cws, sws>>,
               sent'[id] = sent[id], writing'[id] => writing[id],
               id \in torn => id \in torn', id \in pending' => id \in pending
        PROVE  UploadGood(id)'
    <2>1. <<m>> \in Seq(RequestMessage) /\ \A k \in DOMAIN <<m>> : <<m>>[k] = m
        OBVIOUS
    <2> QED
        BY <1>one, <1>little, <2>1
\* A new exchange.
<1>new. ASSUME NEW k, TakeId(k), NEW m \in RequestMessage, m.id = nextId,
               m.type \in {"DNS_QUERY", "HTTP_REQUEST", "UDP_BIND"}, Send(<<m>>),
               UNCHANGED <<sess, cws, sws, sent, torn>>,
               id # nextId => writing'[id] = writing[id] /\ (id \in pending' => id \in pending)
        PROVE  UploadGood(id)'
    <2>1. CASE id = nextId
        BY <1>v, <1>new, <2>1, NewUpload
    <2>2. CASE id # nextId
        <3>1. home'[id] = home[id]
            BY <1>new, <2>2, NewIdIsFresh
        <3> QED
            BY <1>h, <1>new, <1>one, <2>2, <3>1
    <2> QED
        BY <2>1, <2>2
<1>number. 0 \in 0 .. MaxChunks + 1 /\ 1 \in 0 .. MaxChunks + 1
    BY WireAssumption
<1>1. CASE QueryDNS
    <2>1. Await("dns") /\ Send(<<Msg("DNS_QUERY", nextId)>>)
          /\ UNCHANGED <<sess, cws, sws, sent, torn, writing>>
        BY <1>1 DEF QueryDNS
    <2>2. nextId \in Ids
        BY <2>1, NewIdIsFresh DEF Await
    <2>3. Msg("DNS_QUERY", nextId) \in RequestMessage
        BY <1>number, <2>2 DEF RequestMessage, RequestType, Msg
    <2> QED
        BY <1>new, <2>1, <2>3 DEF Await, Msg
<1>2. CASE FetchHTTP
    <2>1. PICK body \in BOOLEAN, announced \in BOOLEAN :
              /\ Await("http")
              /\ writing' = [writing EXCEPT ![nextId] = body]
              /\ Send(<<Chunk("HTTP_REQUEST", nextId, Flag(announced))>>)
              /\ UNCHANGED <<sess, cws, sws, sent, torn>>
        BY <1>2 DEF FetchHTTP
    <2>2. nextId \in Ids
        BY <2>1, NewIdIsFresh DEF Await
    <2>3. Chunk("HTTP_REQUEST", nextId, Flag(announced)) \in RequestMessage
        BY <1>number, <2>2 DEF RequestMessage, RequestType, Chunk, Flag
    <2>4. id # nextId => writing'[id] = writing[id] /\ (id \in pending' => id \in pending)
        BY <1>t, <2>1 DEF Await, ClientTypes
    <2> QED
        BY <1>new, <2>1, <2>3, <2>4 DEF Await, Chunk
<1>3. CASE UdpBind
    <2>1. TakeId("udp") /\ Send(<<Msg("UDP_BIND", nextId)>>)
          /\ UNCHANGED <<sess, cws, sws, sent, torn, writing, pending>>
        BY <1>3 DEF UdpBind
    <2>2. nextId \in Ids
        BY <2>1, NewIdIsFresh
    <2>3. Msg("UDP_BIND", nextId) \in RequestMessage
        BY <1>number, <2>2 DEF RequestMessage, RequestType, Msg
    <2> QED
        BY <1>new, <2>1, <2>3 DEF Msg
<1>id. ASSUME UNCHANGED home
       PROVE  home[id] # 0 /\ home'[id] = home[id] /\ UploadGood(id)
    BY <1>h, <1>id
<1>4. ASSUME NEW x \in Ids, SendBodyChunk(x) PROVE UploadGood(id)'
    <2>1. UNCHANGED <<home, sess, cws, sws, writing, torn, pending>>
        BY <1>4 DEF SendBodyChunk, requestVars
    <2>2. CASE x = id
        BY <1>4, <1>id, <2>1, <2>2, UploadGoesOn
    <2>3. CASE x # id
        <3>1. /\ sent[x] + 1 \in 0 .. MaxChunks + 1
              /\ Send(<<Chunk("HTTP_BODY_CHUNK", x, sent[x] + 1)>>) /\ sent'[id] = sent[id]
            BY <1>4, <1>t, <2>3, WireAssumption DEF SendBodyChunk, ClientTypes
        <3>2. Chunk("HTTP_BODY_CHUNK", x, sent[x] + 1) \in RequestMessage
            BY <3>1 DEF RequestMessage, RequestType, Chunk
        <3> QED
            BY <1>id, <1>one, <2>1, <2>3, <3>1, <3>2 DEF Chunk
    <2> QED
        BY <2>2, <2>3
<1>5. ASSUME NEW x \in Ids, SendBodyEnd(x) PROVE UploadGood(id)'
    <2>1. UNCHANGED <<home, sess, cws, sws, sent, pending>>
        BY <1>5 DEF SendBodyEnd
    <2>2. CASE x = id
        BY <1>5, <1>id, <2>1, <2>2, UploadEnds
    <2>3. CASE x # id
        <3>1. /\ Send(<<Msg("HTTP_BODY_END", x)>>) /\ writing'[id] = writing[id]
              /\ id \in torn => id \in torn'
            BY <1>5, <1>t, <2>3 DEF SendBodyEnd, ClientTypes
        <3>2. Msg("HTTP_BODY_END", x) \in RequestMessage
            BY <1>number DEF RequestMessage, RequestType, Msg
        <3> QED
            BY <1>id, <1>one, <2>1, <2>3, <3>1, <3>2 DEF Msg
    <2> QED
        BY <2>2, <2>3
<1>farewell. ASSUME NEW x \in Ids, kind[x] # "none"
             PROVE  /\ Farewell(kind[x], x) \in RequestMessage
                    /\ Farewell(kind[x], x).id = x
                    /\ Farewell(kind[x], x).type \in {"ERROR", "HTTP_BODY_END", "UDP_CLOSE"}
    BY <1>farewell, <1>number, <1>t
    DEF ClientTypes, RequestTypeOK, Kind, Farewell, Msg, RequestMessage, RequestType
<1>6. ASSUME NEW x \in Ids, GiveUp(x) PROVE UploadGood(id)'
    <2>1. /\ UNCHANGED <<home, sess, cws, sws, sent, writing, torn>> /\ pending' = pending \ {x}
          /\ Send(<<Farewell(kind[x], x)>>)
        BY <1>6 DEF GiveUp, requestVars
    <2>2. kind[x] # "none"
        BY <1>6, <1>t DEF GiveUp, WaitingIsTimed, ClientAgrees
    <2> QED
        BY <1>farewell, <1>id, <1>one, <2>1, <2>2
<1>7. ASSUME NEW x \in Ids, CancelBody(x) PROVE UploadGood(id)'
    BY <1>7, <1>quiet DEF CancelBody, wireVars, requestVars
<1>8. CASE ReapRequests
    <2>1. PICK oldest \in Ids :
              /\ pending' = pending \ {x \in pending : x <= oldest}
              /\ \E l \in Listing({x \in pending : x <= oldest}) :
                     Send([k \in DOMAIN l |-> Farewell(kind[l[k]], l[k])])
        BY <1>8 DEF ReapRequests
    <2> DEFINE stale == {x \in pending : x <= oldest}
    <2>2. PICK l \in Listing(stale) : Send([k \in DOMAIN l |-> Farewell(kind[l[k]], l[k])])
        BY <2>1
    <2>3. stale \subseteq Ids /\ Cardinality(stale) \in Nat
        BY <1>t, FewerPending
    <2>4. l \in [1 .. Cardinality(stale) -> stale]
        BY <2>2 DEF Listing
    <2> DEFINE n == Cardinality(stale)
               ms == [k \in DOMAIN l |-> Farewell(kind[l[k]], l[k])]
    <2>5. \A k \in DOMAIN l : /\ l[k] \in stale
                              /\ ms[k] \in RequestMessage /\ ms[k].id = l[k]
                              /\ ms[k].type \in {"ERROR", "HTTP_BODY_END", "UDP_CLOSE"}
        <3>1. \A x \in stale : x \in Ids /\ kind[x] # "none"
            BY <1>t, <2>3 DEF ClientAgrees
        <3> QED
            BY <1>farewell, <2>4, <3>1
    <2>6. ms \in [1 .. n -> RequestMessage] /\ n \in Nat /\ DOMAIN ms = DOMAIN l
        BY <2>3, <2>4, <2>5
    <2> HIDE DEF n, ms
    <2>7. ms \in Seq(RequestMessage)
        BY <2>6, SeqDef
    <2>8. UNCHANGED <<home, sess, cws, sws, sent, writing, torn>> /\ Send(ms)
        BY <1>8, <2>2 DEF ReapRequests, requestVars, ms
    <2>9. \A k \in DOMAIN ms : ms[k].id = id =>
              /\ ms[k].type \notin {"HTTP_BODY_CHUNK", "UDP_DATA", "HTTP_REQUEST"}
              /\ id \notin pending'
        BY <2>1, <2>5, <2>6
    <2>10. id \in pending' => id \in pending
        BY <2>1
    <2> QED
        BY <1>id, <1>little, <2>7, <2>8, <2>9, <2>10
<1>9. ASSUME NEW x \in Ids, UdpSend(x) PROVE UploadGood(id)'
    <2>1. UNCHANGED <<home, sess, cws, sws, writing, torn, pending, kind>> /\ kind[x] = "udp"
        BY <1>9, <1>t DEF UdpSend, requestVars, ClientAgrees
    <2>2. x # id
        BY <2>1
    <2>3. /\ sent[x] + 1 \in 0 .. MaxChunks + 1
          /\ Send(<<Chunk("UDP_DATA", x, sent[x] + 1)>>) /\ sent'[id] = sent[id]
        BY <1>9, <1>t, <2>2, WireAssumption DEF UdpSend, ClientTypes
    <2>4. Chunk("UDP_DATA", x, sent[x] + 1) \in RequestMessage
        BY <2>3 DEF RequestMessage, RequestType, Chunk
    <2> QED
        BY <1>id, <1>one, <2>1, <2>2, <2>3, <2>4 DEF Chunk
<1>10. ASSUME NEW x \in Ids, UdpDrop(x) PROVE UploadGood(id)'
    <2>1. /\ UNCHANGED <<home, sess, cws, sws, sent, writing, torn, pending>>
          /\ Send(<<Msg("UDP_CLOSE", x)>>)
        BY <1>10 DEF UdpDrop
    <2>2. Msg("UDP_CLOSE", x) \in RequestMessage
        BY <1>number DEF RequestMessage, RequestType, Msg
    <2> QED
        BY <1>id, <1>one, <2>1, <2>2 DEF Msg
<1>11. CASE DnsResponse
    BY <1>11, <1>quiet DEF DnsResponse, requestVars
<1>12. CASE HttpResponse \/ BodyChunk
    BY <1>12, <1>quiet DEF HttpResponse, BodyChunk, requestVars
<1>13. CASE BodyEnd
    BY <1>13, <1>quiet DEF BodyEnd, requestVars
<1>14. CASE Stray
    <2>1. PICK m : /\ Take(m) /\ m.id \notin pending
                   /\ IF m.type \in {"HTTP_BODY_CHUNK", "UDP_DATA"}
                      THEN Send(<<Farewell(kind[m.id], m.id)>>)
                      ELSE UNCHANGED <<queue, up>>
        BY <1>14 DEF Stray
    <2>2. UNCHANGED <<home, sess, cws, sws, sent, writing, torn, pending, kind>>
        BY <1>14 DEF Stray, requestVars
    <2>3. m.id \in Ids /\ kind[m.id] # "none"
        BY <2>1, <2>2, TakeAgrees, MessagesAgree
    <2> QED
        BY <1>farewell, <1>id, <1>one, <2>1, <2>2, <2>3
<1>15. CASE UdpHears
    BY <1>15, <1>quiet DEF UdpHears
<1>16. CASE StreamError /\ UNCHANGED requestVars
    BY <1>16, <1>quiet DEF StreamError, requestVars
<1>17. CASE (ClientLinkClosed \/ HeartbeatTimeout) /\ UNCHANGED requestVars
    <2>1. UNCHANGED <<up, home, sess, sws, sent, writing, torn>> /\ (cws' => cws)
        BY <1>17 DEF ClientLinkClosed, HeartbeatTimeout, requestVars
    <2>2. id \in pending' => id \in pending
        BY <1>17 DEF ClientLinkClosed, HeartbeatTimeout, HandleDisconnect, RejectPending
    <2> QED
        BY <1>quiet, <2>1, <2>2
<1>18. CASE CloseClient /\ UNCHANGED requestVars
    BY <1>18, <1>quiet DEF CloseClient, RejectPending, requestVars
<1> QED
    BY <1>1, <1>2, <1>3, <1>4, <1>5, <1>6, <1>7, <1>8, <1>9, <1>10, <1>11, <1>12, <1>13,
       <1>14, <1>15, <1>16, <1>17, <1>18 DEF RequestNext, UDPDriver

\* The next chunk of a request body is put in it, if it is still there.
LEMMA UploadGrows ==
    ASSUME KindInv, HomeInv, NEW s \in Sessions, NEW id \in Ids, home[id] = s,
           UploadGood(id), NEW m \in RequestMessage, m.id = id, Receive(s, m),
           HandleBodyChunk(s, m),
           UNCHANGED <<home, sent, writing, torn, pending, sess, cws, sws>>
    PROVE  UploadGood(id)'
<1> DEFINE ch == up[s]
           new == up'[s]
           r == uploaded[s][id]
           n == sent[id]
<1>t. /\ ch \in Seq(RequestMessage) /\ ch # <<>> /\ n \in Nat
      /\ r \in Seq(1 .. MaxChunks) /\ Len(r) \in Nat /\ m = Head(ch) /\ new = Tail(ch)
      /\ IsChunk(m, id) /\ m.type = "HTTP_BODY_CHUNK" /\ m.chunk \in Nat
    <2>1. r \in Seq(1 .. MaxChunks)
        BY DEF KindInv, TypeOK, HttpTypeOK
    <2>2. ch \in Seq(RequestMessage) /\ n \in Nat /\ up \in [Sessions -> Seq(RequestMessage)]
        BY WireAssumption DEF KindInv, TypeOK
    <2>3. ch # <<>> /\ m = Head(ch) /\ new = Tail(ch)
        BY <2>2 DEF Receive
    <2>4. m.chunk \in Nat
        BY WireAssumption DEF RequestMessage
    <2> QED
        BY <2>1, <2>2, <2>3, <2>4 DEF IsChunk, HandleBodyChunk
<1>f. /\ home'[id] = s /\ sent'[id] = n /\ finished' = finished /\ bodies' = bodies
      /\ uploaded'[s][id] = IF id \in bodies[s] THEN Append(r, m.chunk) ELSE r
    <2>1. uploaded \in [Sessions -> [Ids -> Seq(1 .. MaxChunks)]]
        BY DEF KindInv, TypeOK, HttpTypeOK
    <2> QED
        BY <2>1 DEF HandleBodyChunk
<1>g. /\ \A k \in DOMAIN r : r[k] = k
      /\ Len(r) <= n
      /\ TakesBody(id) => InFlight(ch, id, Len(r), n)
      /\ TakesBody(id) /\ LinkUp(s) => Reaches(ch, id, Len(r), n)
      /\ Wanted(id) /\ Carries(ch, "HTTP_BODY_END", id) =>
            /\ ~writing[id]
            /\ ChunksFirst(ch, id)
            /\ TakesBody(id) => Reaches(ch, id, Len(r), n)
      /\ id \in finished[s] => (~writing[id] /\ Len(r) = n) \/ ~Wanted(id)
    BY DEF UploadGood, UploadOf, Delivery
<1>c. /\ \A t : Carries(new, t, id) => Carries(ch, t, id)
      /\ ChunksFirst(ch, id) => ChunksFirst(new, id)
    BY <1>t, CarriesTail, ChunksFirstTail
\* The request itself is not behind its body.
<1>b. ~Carries(new, "HTTP_REQUEST", id)
    <2>1. BeginsWith(ch, id)
        BY DEF HomeInv, BeginningsAreFresh
    <2> QED
        BY <1>t, <2>1, NothingBeginsLate
<1>w. Wanted(id)' = Wanted(id) /\ (LinkUp(s)' <=> LinkUp(s)) /\ writing' = writing
    BY DEF Wanted, LinkUp
<1>k. TakesBody(id)' <=> id \in bodies[s]
    BY <1>b, <1>f DEF TakesBody
<1> HIDE DEF ch, new, r, n
<1>1. CASE id \in bodies[s]
    <2>1. TakesBody(id)
        BY <1>1 DEF TakesBody
    <2>2. /\ m.chunk = Len(r) + 1
          /\ Len(r) + 1 <= n
          /\ InFlight(new, id, Len(r) + 1, n)
          /\ Reaches(ch, id, Len(r), n) => Reaches(new, id, Len(r) + 1, n)
        BY <1>g, <1>t, <2>1, TailNext
    <2> DEFINE q == Append(r, m.chunk)
    <2>3. Len(q) = Len(r) + 1 /\ \A k \in DOMAIN q : q[k] = k
        BY <1>g, <1>t, <2>2
    <2>4. id \notin finished[s]
        BY <1>1 DEF HomeInv, MapsAreClean
    <2> HIDE DEF q
    <2>5. uploaded'[s][id] = q
        BY <1>1, <1>f DEF q
    <2>6. Delivery(q, new, id, n, TakesBody(id)', LinkUp(s)')
        BY <1>g, <1>w, <2>1, <2>2, <2>3 DEF Delivery
    <2>7. Wanted(id)' /\ Carries(new, "HTTP_BODY_END", id) =>
              ~writing'[id] /\ ChunksFirst(new, id) /\ Reaches(new, id, Len(q), n)
        BY <1>c, <1>g, <1>w, <2>1, <2>2, <2>3
    <2> QED
        BY <1>f, <2>4, <2>5, <2>6, <2>7 DEF UploadGood, UploadOf, LinkUp, new
<1>2. CASE id \notin bodies[s]
    <2>1. Delivery(r, new, id, n, TakesBody(id)', LinkUp(s)')
        BY <1>2, <1>g, <1>k DEF Delivery
    <2>2. uploaded'[s][id] = r
        BY <1>2, <1>f
    <2>3. Wanted(id)' /\ Carries(new, "HTTP_BODY_END", id) => ~writing'[id] /\ ChunksFirst(new, id)
        BY <1>c, <1>g, <1>w
    <2>4. id \in finished[s] => (~writing'[id] /\ Len(r) = n) \/ ~Wanted(id)'
        BY <1>g, <1>w
    <2> QED
        BY <1>2, <1>f, <1>k, <2>1, <2>2, <2>3, <2>4 DEF UploadGood, UploadOf, LinkUp, new
<1> QED
    BY <1>1, <1>2

\* The end of a request body finds all of it there.
LEMMA UploadFinishes ==
    ASSUME KindInv, HomeInv, NEW s \in Sessions, NEW id \in Ids, home[id] = s,
           UploadGood(id), NEW m \in RequestMessage, m.id = id, Receive(s, m),
           HandleBodyEnd(s, m),
           UNCHANGED <<home, sent, writing, torn, pending, sess, cws, sws>>
    PROVE  UploadGood(id)'
<1> DEFINE ch == up[s]
           new == up'[s]
           r == uploaded[s][id]
           n == sent[id]
<1>t. /\ ch \in Seq(RequestMessage) /\ ch # <<>> /\ m = Head(ch) /\ new = Tail(ch)
      /\ m.type = "HTTP_BODY_END"
    BY DEF KindInv, TypeOK, Receive, HandleBodyEnd
<1>f. /\ home'[id] = s /\ sent'[id] = n /\ uploaded' = uploaded
      /\ id \notin bodies'[s]
      /\ id \in finished'[s] <=> id \in finished[s] \/ id \in bodies[s]
    <2>1. /\ finished \in [Sessions -> SUBSET Ids] /\ bodies \in [Sessions -> SUBSET Ids]
        BY DEF KindInv, TypeOK, HttpTypeOK
    <2> QED
        BY <2>1 DEF HandleBodyEnd
<1>g. /\ \A k \in DOMAIN r : r[k] = k
      /\ Len(r) <= n
      /\ Wanted(id) /\ Carries(ch, "HTTP_BODY_END", id) =>
            /\ ~writing[id]
            /\ ChunksFirst(ch, id)
            /\ TakesBody(id) => Reaches(ch, id, Len(r), n)
      /\ id \in finished[s] => (~writing[id] /\ Len(r) = n) \/ ~Wanted(id)
    BY DEF UploadGood, UploadOf, Delivery
<1>c. /\ \A t : Carries(new, t, id) => Carries(ch, t, id)
      /\ Carries(ch, "HTTP_BODY_END", id)
      /\ ChunksFirst(ch, id) =>
            ChunksFirst(new, id) /\ \A k \in DOMAIN ch : ~IsChunk(ch[k], id)
    BY <1>t, CarriesTail, ChunksFirstTail
<1>b. ~Carries(new, "HTTP_REQUEST", id)
    <2>1. BeginsWith(ch, id)
        BY DEF HomeInv, BeginningsAreFresh
    <2> QED
        BY <1>t, <2>1, NothingBeginsLate
<1>w. Wanted(id)' = Wanted(id) /\ writing' = writing
    BY DEF Wanted
<1>k. ~TakesBody(id)'
    BY <1>b, <1>f DEF TakesBody
<1> HIDE DEF ch, new, r, n
<1>1. id \in finished'[s] => (~writing'[id] /\ Len(r) = n) \/ ~Wanted(id)'
    <2>1. ASSUME Wanted(id), id \in bodies[s] PROVE ~writing[id] /\ Len(r) = n
        <3>1. TakesBody(id)
            BY <2>1 DEF TakesBody
        <3> QED
            BY <1>c, <1>g, <2>1, <3>1 DEF Reaches
    <2> QED
        BY <1>f, <1>g, <1>w, <2>1
<1>2. Wanted(id)' /\ Carries(new, "HTTP_BODY_END", id) => ~writing'[id] /\ ChunksFirst(new, id)
    BY <1>c, <1>g, <1>w
<1>3. Delivery(r, new, id, n, TakesBody(id)', LinkUp(s)')
    BY <1>g, <1>k DEF Delivery
<1> QED
    BY <1>f, <1>k, <1>1, <1>2, <1>3 DEF UploadGood, UploadOf, LinkUp, new, r, n

LEMMA ServerKeepsUploads ==
    ASSUME KindInv, HomeInv, KindInv', ServerNext, UNCHANGED <<clientVars, requestVars>>,
           NEW id \in Ids, kind[id] = "http", UploadGood(id)
    PROVE  UploadGood(id)'
<1>v. UNCHANGED <<home, kind, pending, sent, writing, torn>>
    BY DEF clientVars, requestVars
<1>s. PICK s \in Sessions : s = home[id]
    <2>1. home[id] \in 0 .. MaxSessions
        BY DEF KindInv, TypeOK
    <2>2. home[id] # 0
        BY DEF KindInv, ClientAgrees
    <2> QED
        BY <2>1, <2>2, WireAssumption DEF Sessions
<1>t. /\ up \in [Sessions -> Seq(RequestMessage)] /\ sws \in [Sessions -> BOOLEAN]
      /\ uploaded \in [Sessions -> [Ids -> Seq(1 .. MaxChunks)]]
      /\ bodies \in [Sessions -> SUBSET Ids] /\ finished \in [Sessions -> SUBSET Ids]
    BY DEF KindInv, TypeOK, HttpTypeOK
<1>fade. ASSUME uploaded'[s][id] = uploaded[s][id], id \in finished'[s] => id \in finished[s],
                TakesBody(id)' => TakesBody(id), UNCHANGED <<sess, cws>>, sws'[s] => sws[s],
                UpKept(s, id)
         PROVE  UploadGood(id)'
    <2>1. UploadFades(s, id)
        BY <1>v, <1>s, <1>fade DEF UploadFades, LinkUp
    <2> QED
        BY <1>s, <2>1, UploadFading
<1>still. ASSUME uploaded'[s][id] = uploaded[s][id], id \in finished'[s] => id \in finished[s],
                 id \in bodies'[s] => id \in bodies[s], UNCHANGED <<sess, cws>>, sws'[s] => sws[s],
                 up'[s] = up[s]
          PROVE  UploadGood(id)'
    <2>1. UpKept(s, id)
        <3>1. up[s] \in Seq(RequestMessage)
            BY <1>t
        <3>2. SameIn(up'[s], up[s], ChunksOf(id))
            BY <1>still, <3>1, SameRefl
        <3> QED
            BY <1>still, <3>2 DEF UpKept
    <2>2. TakesBody(id)' => TakesBody(id)
        BY <1>s, <1>v, <1>still DEF TakesBody
    <2> QED
        BY <1>fade, <1>still, <2>1, <2>2
<1>lost. ASSUME uploaded'[s][id] = uploaded[s][id], id \in finished'[s] => id \in finished[s],
                id \in bodies'[s] => id \in bodies[s], UNCHANGED <<sess, cws>>,
                up'[s] = <<>>, ~sws'[s]
         PROVE  UploadGood(id)'
    <2>1. UpKept(s, id)
        BY <1>lost DEF UpKept, LinkUp
    <2>2. TakesBody(id)' => TakesBody(id)
        BY <1>s, <1>v, <1>lost, CarriesNothing DEF TakesBody
    <2> QED
        BY <1>fade, <1>lost, <2>1, <2>2
\* A message that is none of its chunks is taken.
<1>past. ASSUME up[s] # <<>>, up'[s] = Tail(up[s]), Head(up[s]) \notin ChunksOf(id),
                uploaded'[s][id] = uploaded[s][id], id \in finished'[s] => id \in finished[s],
                UNCHANGED <<sess, cws, sws>>,
                \/ id \in bodies'[s] => id \in bodies[s]
                \/ Head(up[s]).type = "HTTP_REQUEST" /\ Head(up[s]).id = id
         PROVE  UploadGood(id)'
    <2>1. up[s] \in Seq(RequestMessage)
        BY <1>t
    <2>2. SameIn(up'[s], up[s], ChunksOf(id))
        BY <1>past, <2>1, SameTail
    <2>3. \A t : Carries(up[s], t, id) <=>
                     (Head(up[s]).type = t /\ Head(up[s]).id = id) \/ Carries(up'[s], t, id)
        BY <1>past, <2>1, CarriesTail
    <2>4. ChunksFirst(up[s], id) => ChunksFirst(up'[s], id)
        BY <1>past, <2>1, ChunksFirstTail
    <2>5. UpKept(s, id)
        BY <2>2, <2>3, <2>4 DEF UpKept
    <2>6. TakesBody(id)' => TakesBody(id)
        BY <1>past, <1>s, <1>v, <2>3 DEF TakesBody
    <2> QED
        BY <1>fade, <1>past, <2>5, <2>6
<1> SUFFICES ASSUME NEW z \in Sessions,
                    \/ Dispatch(z)
                    \/ ServerLinkClosed(z) \/ ServerHeartbeatTimeout(z) \/ CloseTransport(z)
                    \/ \E x \in Ids :
                          \/ DnsStep(z, x) /\ UNCHANGED <<httpVars, udpVars>>
                          \/ HttpStep(z, x) /\ UNCHANGED <<dnsVars, udpVars>>
                          \/ UdpStep(z, x) /\ UNCHANGED <<dnsVars, httpVars>>
             PROVE  UploadGood(id)'
    BY DEF ServerNext
<1>1. CASE Dispatch(z)
    <2>1. PICK m : /\ Receive(z, m)
                   /\ \/ HandleQuery(z, m) /\ UNCHANGED <<httpVars, udpVars>>
                      \/ HttpReceive(z, m) /\ UNCHANGED <<dnsVars, udpVars>>
                      \/ UdpReceive(z, m) /\ UNCHANGED <<dnsVars, httpVars>>
                      \/ m.type = "ERROR" /\ UNCHANGED <<dnsVars, httpVars, udpVars, down>>
                   /\ UNCHANGED <<sess, cws, sws>>
        BY <1>1 DEF Dispatch
    <2>2. /\ up[z] # <<>> /\ m = Head(up[z]) /\ up'[z] = Tail(up[z])
          /\ \A y \in Sessions : y # z => up'[y] = up[y]
        BY <1>t, <2>1 DEF Receive
    <2>3. m \in Asked /\ m \in RequestMessage /\ m.id \in Ids
        <3>1. up \in [Sessions -> Seq(Asked)]
            BY DEF KindInv, ChannelsAgree
        <3>2. m \in Asked
            BY <2>1, <3>1, ReceiveIsTyped
        <3> QED
            BY <3>2, MessagesAgree
    <2>4. CASE z # s
        <3>1. up'[s] = up[s]
            BY <2>2, <2>4
        <3>2. uploaded'[s] = uploaded[s] /\ finished'[s] = finished[s] /\ bodies'[s] = bodies[s]
            BY <1>t, <2>1, <2>4
            DEF HttpReceive, HandleRequest, HandleBodyChunk, HandleBodyEnd, httpVars
        <3> QED
            BY <1>still, <2>1, <3>1, <3>2
    <2>5. CASE z = s /\ UNCHANGED httpVars
                     /\ m.type \notin {"HTTP_REQUEST", "HTTP_BODY_CHUNK", "HTTP_BODY_END"}
        <3>1. m.id # id
            BY <2>3, <2>5 DEF Asked
        <3>2. m \notin ChunksOf(id)
            BY <3>1 DEF ChunksOf, IsChunk
        <3> QED
            BY <1>past, <2>1, <2>2, <2>5, <3>2 DEF httpVars
    <2>6. CASE z = s /\ HandleRequest(s, m)
        <3>1. m \notin ChunksOf(id)
            BY <2>6 DEF ChunksOf, IsChunk, HandleRequest
        <3>2. uploaded'[s][id] = uploaded[s][id] /\ finished' = finished
            BY <2>6 DEF HandleRequest
        <3>3. (id \in bodies'[s] => id \in bodies[s]) \/ (m.type = "HTTP_REQUEST" /\ m.id = id)
            BY <1>t, <2>6 DEF HandleRequest
        <3> QED
            BY <1>past, <2>1, <2>2, <2>6, <3>1, <3>2, <3>3
    <2>7. CASE z = s /\ HandleBodyChunk(s, m)
        <3>1. CASE m.id = id
            BY <1>s, <1>v, <2>1, <2>3, <2>7, <3>1, UploadGrows
        <3>2. CASE m.id # id
            <4>1. m \notin ChunksOf(id)
                BY <3>2 DEF ChunksOf, IsChunk
            <4>2. uploaded'[s][id] = uploaded[s][id] /\ UNCHANGED <<finished, bodies>>
                BY <1>t, <2>3, <2>7, <3>2 DEF HandleBodyChunk
            <4> QED
                BY <1>past, <2>1, <2>2, <2>7, <4>1, <4>2
        <3> QED
            BY <3>1, <3>2
    <2>8. CASE z = s /\ HandleBodyEnd(s, m)
        <3>1. CASE m.id = id
            BY <1>s, <1>v, <2>1, <2>3, <2>8, <3>1, UploadFinishes
        <3>2. CASE m.id # id
            <4>1. m \notin ChunksOf(id)
                BY <3>2 DEF ChunksOf, IsChunk
            <4>2. /\ uploaded' = uploaded
                  /\ id \in finished'[s] => id \in finished[s]
                  /\ id \in bodies'[s] => id \in bodies[s]
                BY <1>t, <2>8, <3>2 DEF HandleBodyEnd
            <4> QED
                BY <1>past, <2>1, <2>2, <2>8, <4>1, <4>2
        <3> QED
            BY <3>1, <3>2
    <2> QED
        BY <2>1, <2>4, <2>5, <2>6, <2>7, <2>8
        DEF HandleQuery, HttpReceive, UdpReceive, HandleBind, HandleUdpClose, HandleUdpData
<1>2. CASE ServerLinkClosed(z) \/ ServerHeartbeatTimeout(z)
    <2>1. UNCHANGED <<uploaded, finished, bodies, sess, cws>>
        BY <1>2 DEF ServerLinkClosed, ServerHeartbeatTimeout, LinkLost, HeartbeatLost, httpVars
    <2>2. \/ up'[s] = up[s] /\ sws'[s] = sws[s]
          \/ up'[s] = <<>> /\ ~sws'[s]
        BY <1>2, <1>t DEF ServerLinkClosed, ServerHeartbeatTimeout, LinkLost, HeartbeatLost
    <2> QED
        BY <1>still, <1>lost, <2>1, <2>2
<1>3. CASE CloseTransport(z)
    <2>1. /\ UNCHANGED <<uploaded, finished, sess, cws>>
          /\ id \in bodies'[s] => id \in bodies[s]
        BY <1>3, <1>t DEF CloseTransport, EndTransport, AbortAll
    <2>2. \/ up'[s] = up[s] /\ sws'[s] = sws[s]
          \/ up'[s] = <<>> /\ ~sws'[s]
        BY <1>3, <1>t DEF CloseTransport, EndTransport
    <2> QED
        BY <1>still, <1>lost, <2>1, <2>2
<1>4. ASSUME NEW x \in Ids,
             \/ DnsStep(z, x) /\ UNCHANGED <<httpVars, udpVars>>
             \/ UdpStep(z, x) /\ UNCHANGED <<dnsVars, httpVars>>
      PROVE  UploadGood(id)'
    <2>1. UNCHANGED <<uploaded, finished, bodies, sess, cws, sws, up>>
        BY <1>4 DEF DnsStep, QueryTimeout, LookupEnds, UdpStep, Datagram, SendDatagram, LoopEnds,
                    httpVars, wireVars
    <2> QED
        BY <1>still, <2>1
<1>5. ASSUME NEW x \in Ids, HttpStep(z, x)
      PROVE  UploadGood(id)'
    <2>1. UNCHANGED <<uploaded, finished, sess, cws, sws, up>>
        BY <1>5 DEF HttpStep, FetchEnds, FetchFails, Responds, RespondsWithoutBody, ReadBody,
                    BodyDone, CutOff, ReadFails, BodyCancelled, wireVars
    <2>2. UNCHANGED bodies \/ bodies' = [bodies EXCEPT ![z] = @ \ {x}]
        <3>1. CASE Responds(z, x) \/ ReadBody(z, x)
            BY <3>1 DEF Responds, ReadBody
        <3>2. CASE FetchFails(z, x) \/ RespondsWithoutBody(z, x) \/ BodyDone(z, x)
            BY <3>2 DEF FetchFails, RespondsWithoutBody, BodyDone, CleanupRequest
        <3>3. CASE CutOff(z, x) \/ ReadFails(z, x) \/ BodyCancelled(z, x)
            BY <3>3 DEF CutOff, ReadFails, BodyCancelled, CleanupRequest
        <3> QED
            BY <1>5, <3>1, <3>2, <3>3 DEF HttpStep, FetchEnds
    <2>3. id \in bodies'[s] => id \in bodies[s]
        BY <1>t, <2>2
    <2> QED
        BY <1>still, <2>1, <2>3
<1> QED
    BY <1>1, <1>2, <1>3, <1>4, <1>5

\* A new session is the session of no exchange yet, and ends the one before.
LEMMA OldSessionsAreOver ==
    ASSUME KindInv, NewSession, NEW id \in Ids, NEW s \in Sessions, home[id] = s
    PROVE  /\ up'[s] = up[s] /\ sws'[s] = sws[s] /\ ~LinkUp(s)' /\ sess' # s /\ down' = down
           /\ UNCHANGED <<nextId, home, pending, timer, call, reader, rcvd, sent, writing>>
           /\ UNCHANGED <<requestVars, dnsVars, httpVars, udpVars>>
<1>1. home[id] <= sess /\ sess \in 0 .. MaxSessions /\ up \in [Sessions -> Seq(RequestMessage)]
      /\ sws \in [Sessions -> BOOLEAN]
    BY DEF KindInv, TypeOK, ClientAgrees
<1>2. s # sess + 1 /\ sess' = sess + 1
    BY <1>1 DEF NewSession, Assign, Sessions
<1> QED
    BY <1>1, <1>2 DEF NewSession, Assign, AssignSocket, FlushQueue, LinkUp

LEMMA UploadsStayGood == Spec => []UploadsAreGood
<1>1. Init => UploadsAreGood
    BY DEF Init, RequestInit, UploadsAreGood
<1>2. KindInv /\ HomeInv /\ KindInv' /\ UploadsAreGood /\ [Next]_vars => UploadsAreGood'
    <2> SUFFICES ASSUME KindInv, HomeInv, KindInv', UploadsAreGood, [Next]_vars,
                        NEW id \in Ids, kind'[id] = "http"
                 PROVE  UploadGood(id)'
        BY DEF UploadsAreGood
    <2>h. kind[id] = "http" => UploadGood(id)
        BY DEF UploadsAreGood
    <2>1. CASE RequestNext /\ UNCHANGED serverVars
        BY <2>h, <2>1, ClientKeepsUploads
    <2>2. CASE ServerNext /\ UNCHANGED <<clientVars, requestVars>>
        BY <2>h, <2>2, ServerKeepsUploads DEF requestVars
    <2>3. ASSUME UNCHANGED <<home, uploaded, sent, writing, torn, pending, finished, bodies, kind>>,
                 NEW s \in Sessions, s = home[id], up'[s] = up[s], LinkUp(s)' => LinkUp(s)
          PROVE  UploadGood(id)'
        <3>1. up[s] \in Seq(RequestMessage)
            BY DEF KindInv, TypeOK
        <3>2. SameIn(up'[s], up[s], ChunksOf(id))
            BY <2>3, <3>1, SameRefl
        <3>3. UploadFades(s, id)
            BY <2>3, <3>2 DEF UploadFades, UpKept, TakesBody
        <3> QED
            BY <2>h, <2>3, <3>3, UploadFading
    <2>4. kind[id] = "http" => home[id] \in Sessions
        <3>1. home[id] \in 0 .. MaxSessions
            BY DEF KindInv, TypeOK
        <3>2. kind[id] = "http" => home[id] # 0
            BY DEF KindInv, ClientAgrees
        <3> QED
            BY <3>1, <3>2, WireAssumption DEF Sessions
    <2>5. CASE NewSession
        <3>1. kind[id] = "http"
            BY <2>5 DEF NewSession, requestVars
        <3>2. PICK s \in Sessions : s = home[id]
            BY <2>4, <3>1
        <3>3. /\ up'[s] = up[s] /\ ~LinkUp(s)'
              /\ UNCHANGED <<home, sent, writing, pending>>
              /\ UNCHANGED <<requestVars, httpVars>>
            BY <2>5, <3>2, OldSessionsAreOver
        <3> QED
            BY <2>3, <3>2, <3>3 DEF requestVars, httpVars
    <2>6. CASE UNCHANGED vars
        <3>1. UNCHANGED <<home, uploaded, sent, writing, torn, pending, finished, bodies, kind,
                          up, sess, cws, sws>>
            BY <2>6 DEF vars, wireVars, clientVars, requestVars, serverVars, httpVars
        <3>2. PICK s \in Sessions : s = home[id]
            BY <2>4, <3>1
        <3>3. up'[s] = up[s] /\ (LinkUp(s)' => LinkUp(s))
            BY <3>1 DEF LinkUp
        <3> QED
            BY <2>3, <3>1, <3>2, <3>3
    <2> QED
        BY <2>1, <2>2, <2>5, <2>6 DEF Next
<1> QED
    BY <1>1, <1>2, KindsHold, EverythingIsAtHome, PTL DEF Spec

\* What handleBodyChunk enqueues for a request is the body its caller gave to
\* fetchHTTP, in order and without gaps, in the session of the call only:
\* sendBody looks neither at the call nor at the link, and still no chunk is
\* lost, repeated or taken for the body of another request.
THEOREM UploadsInOrder == Spec => []UploadInOrder
<1>1. KindInv /\ HomeInv /\ UploadsAreGood => UploadInOrder
    <2> SUFFICES ASSUME KindInv, HomeInv, UploadsAreGood,
                        NEW id \in Ids, NEW s \in Sessions, uploaded[s][id] # <<>>
                 PROVE  /\ s = home[id]
                        /\ Len(uploaded[s][id]) <= sent[id]
                        /\ \A k \in DOMAIN uploaded[s][id] : uploaded[s][id][k] = k
        BY DEF UploadInOrder
    <2>1. home[id] = s /\ kind[id] = "http"
        BY BodiesAreAtHome
    <2> QED
        BY <2>1 DEF UploadsAreGood, UploadGood, UploadOf, Delivery
<1> QED
    BY <1>1, KindsHold, EverythingIsAtHome, UploadsStayGood, PTL

\* When handleBodyEnd closes a request body, the target has the whole of it,
\* unless the caller's body had failed or the client had given the request up:
\* the HTTP_BODY_END of sendBody's finally never overtakes a chunk.
THEOREM UploadsAreComplete == Spec => []UploadEndIsComplete
<1>1. KindInv /\ HomeInv /\ UploadsAreGood => UploadEndIsComplete
    <2> SUFFICES ASSUME KindInv, HomeInv, UploadsAreGood,
                        NEW s \in Sessions, NEW id \in finished[s]
                 PROVE  \/ ~writing[id] /\ Len(uploaded[s][id]) = sent[id]
                        \/ id \in torn
                        \/ id \notin pending
        BY DEF UploadEndIsComplete
    <2>1. id \in Ids
        BY DEF KindInv, TypeOK, HttpTypeOK
    <2>2. home[id] = s /\ kind[id] = "http"
        BY <2>1, BodiesAreAtHome
    <2> QED
        BY <2>1, <2>2 DEF UploadsAreGood, UploadGood, Wanted
<1> QED
    BY <1>1, KindsHold, EverythingIsAtHome, UploadsStayGood, PTL

-----------------------------------------------------------------------------
(* Steps that an exchange fades with                                       *)

\* What is in the channel down goes on as it was, is lost with the link, or is
\* taken by a client that has given the exchange up.
DownKept(s, id) ==
    \/ SameIn(down'[s], down[s], Of(id))
    \/ down'[s] = <<>> /\ ~LinkUp(s)'
    \/ down[s] # <<>> /\ down'[s] = Tail(down[s]) /\ id \notin pending' \cup interest'

ClientFades(id) ==
    /\ rcvd'[id] = rcvd[id]
    /\ kind[id] = "http" /\ call'[id] = "connected" => call[id] = "connected"
    /\ reader'[id] \in {"none", "open"} => reader'[id] = reader[id]
    /\ id \in pending' => id \in pending /\ (call'[id] = "waiting" => call[id] = "waiting")
    /\ id \in interest' => id \in interest

ServerFades(s, id) ==
    /\ stage'[s][id] = stage[s][id] /\ produced'[s][id] = produced[s][id]
    /\ SentDown(s, id)' = SentDown(s, id)
    /\ loop'[s][id] = "none" <=> loop[s][id] = "none"
    /\ id \in sockets'[s] => id \in sockets[s]
    /\ LinkUp(s)' /\ id \in sockets[s] => id \in sockets'[s]

\* A request that is on its way or in progress stays so.
RequestKept(s, id) ==
    LinkUp(s)' /\ id \in pending' /\ call'[id] = "waiting" =>
        /\ id \in queries[s] => id \in queries'[s]
        /\ Carries(up[s], "DNS_QUERY", id) => Carries(up'[s], "DNS_QUERY", id)
        /\ Carries(up[s], "HTTP_REQUEST", id) => Carries(up'[s], "HTTP_REQUEST", id)

Fades(s, id) ==
    /\ home'[id] = s /\ kind'[id] = kind[id]
    /\ LinkUp(s)' => LinkUp(s)
    /\ ClientFades(id) /\ ServerFades(s, id) /\ RequestKept(s, id) /\ DownKept(s, id)

LEMMA OnceTail ==
    ASSUME NEW ch \in Seq(RequestMessage), ch # <<>>, NEW t, NEW id, Once(ch, t, id)
    PROVE  /\ Once(Tail(ch), t, id)
           /\ Head(ch).type = t /\ Head(ch).id = id => ~Carries(Tail(ch), t, id)
<1> DEFINE new == Tail(ch)
<1>1. /\ Head(ch) = ch[1] /\ 1 \in DOMAIN ch
      /\ \A k \in DOMAIN new : k + 1 \in DOMAIN ch /\ new[k] = ch[k + 1] /\ k \in Nat /\ k # 0
    BY TailElements
<1> HIDE DEF new
<1>2. Once(new, t, id)
    <2> SUFFICES ASSUME NEW k \in DOMAIN new, NEW j \in DOMAIN new,
                        new[k].type = t, new[k].id = id, new[j].type = t, new[j].id = id
                 PROVE  k = j
        BY DEF Once
    <2>1. k + 1 = j + 1
        BY <1>1 DEF Once
    <2> QED
        BY <1>1, <2>1
<1>3. ASSUME Head(ch).type = t, Head(ch).id = id, NEW k \in DOMAIN new, new[k].type = t, new[k].id = id
      PROVE  FALSE
    <2>1. k + 1 = 1
        BY <1>1, <1>3 DEF Once
    <2> QED
        BY <1>1, <2>1
<1>4. Head(ch).type = t /\ Head(ch).id = id => ~Carries(new, t, id)
    BY <1>3 DEF Carries
<1> QED
    BY <1>2, <1>4 DEF new

\* What of a channel is left, is seen in it before.
LEMMA KeptElements ==
    ASSUME KindInv, KindInv', NEW s \in Sessions, NEW id \in Ids, DownKept(s, id)
    PROVE  /\ \A k \in DOMAIN down'[s] : down'[s][k].id = id =>
                  \E j \in DOMAIN down[s] : down'[s][k] = down[s][j]
           /\ \A t : Carries(down'[s], t, id) => Carries(down[s], t, id)
           /\ \A t : Once(down[s], t, id) => Once(down'[s], t, id)
           /\ ChunksFirst(down[s], id) => ChunksFirst(down'[s], id)
           /\ LinkUp(s)' /\ id \in pending' \cup interest' =>
                 \A t : Carries(down[s], t, id) => Carries(down'[s], t, id)
           /\ id \in pending' \cup interest' =>
                 /\ ResponseFirst(down[s], id) => ResponseFirst(down'[s], id)
                 /\ \A got, top : InFlight(down[s], id, got, top) => InFlight(down'[s], id, got, top)
                 /\ LinkUp(s)' \/ Carries(down'[s], "HTTP_BODY_END", id) =>
                       \A got, top : Reaches(down[s], id, got, top) =>
                                     Reaches(down'[s], id, got, top)
<1> DEFINE ch == down[s]
           new == down'[s]
<1>t. ch \in Seq(RequestMessage) /\ new \in Seq(RequestMessage)
    BY DEF KindInv, TypeOK
<1>1. CASE SameIn(new, ch, Of(id))
    <2>1. ChunksOf(id) \subseteq Of(id)
        BY DEF ChunksOf, Of, IsChunk
    <2>2. SameIn(new, ch, ChunksOf(id))
        BY <1>1, <2>1, SameLess
    <2> QED
        BY <1>1, <1>t, <2>2, SameNews, SameChunks
<1>2. CASE new = <<>> /\ ~LinkUp(s)'
    <2>1. DOMAIN new = {}
        BY <1>2
    <2> QED
        BY <1>2, <2>1 DEF Carries, Once, ChunksFirst, ResponseFirst, InFlight
<1>3. CASE ch # <<>> /\ new = Tail(ch) /\ id \notin pending' \cup interest'
    <2>1. \A t : Carries(new, t, id) => Carries(ch, t, id)
        BY <1>3, <1>t, CarriesTail
    <2>2. \A k \in DOMAIN new : \E j \in DOMAIN ch : new[k] = ch[j]
        BY <1>3, <1>t, TailElements
    <2>3. \A t : Once(ch, t, id) => Once(new, t, id)
        BY <1>3, <1>t, OnceTail
    <2> QED
        BY <1>3, <1>t, <2>1, <2>2, <2>3, ChunksFirstTail
<1> QED
    BY <1>1, <1>2, <1>3 DEF DownKept

LEMMA DnsFading ==
    ASSUME KindInv, KindInv', NEW s \in Sessions, NEW id \in Ids, home[id] = s,
           kind[id] = "dns", DnsGood(id), Fades(s, id)
    PROVE  DnsGood(id)'
<1>1. home'[id] = s /\ rcvd'[id] = <<>>
    BY DEF DnsGood, Fades, ClientFades
<1>2. ASSUME id \in pending', call'[id] = "waiting", LinkUp(s)'
      PROVE  \/ Carries(up'[s], "DNS_QUERY", id)
             \/ id \in queries'[s]
             \/ Carries(down'[s], "DNS_RESPONSE", id)
             \/ Carries(down'[s], "ERROR", id)
    <2>1. \/ Carries(up[s], "DNS_QUERY", id)
          \/ id \in queries[s]
          \/ Carries(down[s], "DNS_RESPONSE", id)
          \/ Carries(down[s], "ERROR", id)
        BY <1>2 DEF DnsGood, Fades, ClientFades
    <2>2. \A t : Carries(down[s], t, id) => Carries(down'[s], t, id)
        BY <1>2, KeptElements DEF Fades
    <2> QED
        BY <1>2, <2>1, <2>2 DEF Fades, RequestKept
<1>3. LinkUp(home[id])' => LinkUp(s)'
    BY <1>1 DEF LinkUp
<1> QED
    BY <1>1, <1>2, <1>3 DEF DnsGood

LEMMA HttpFading ==
    ASSUME KindInv, KindInv', NEW s \in Sessions, NEW id \in Ids, home[id] = s,
           kind[id] = "http", HttpGood(id), Fades(s, id)
    PROVE  HttpGood(id)'
<1> DEFINE ch == down[s]
           new == down'[s]
           how == stage[s][id]
           n == produced[s][id]
           r == rcvd[id]
<1>f. /\ home'[id] = s /\ kind'[id] = "http" /\ rcvd'[id] = r
      /\ stage'[s][id] = how /\ produced'[s][id] = n
      /\ LinkUp(s)' => LinkUp(s)
      /\ call'[id] = "connected" => call[id] = "connected"
      /\ reader'[id] \in {"none", "open"} => reader'[id] = reader[id]
      /\ id \in pending' => id \in pending /\ (call'[id] = "waiting" => call[id] = "waiting")
      /\ RequestKept(s, id) /\ DownKept(s, id)
    BY DEF Fades, ClientFades, ServerFades
<1>l. /\ Listens(id)' => Listens(id) /\ id \in pending'
      /\ (LinkUp(home[id])' <=> LinkUp(s)')
    BY <1>f DEF Listens, LinkUp
<1>g. /\ \A k \in DOMAIN ch : ch[k].id = id => TrueNews(ch[k], how, n)
      /\ Once(ch, "HTTP_RESPONSE", id)
      /\ call[id] = "connected" =>
            /\ how \notin {"none", "fetching"}
            /\ ~Carries(ch, "HTTP_RESPONSE", id)
            /\ reader[id] = "none" => how = "done" /\ n = 0
      /\ id \in pending /\ call[id] = "waiting" =>
            /\ ResponseFirst(ch, id)
            /\ LinkUp(s) => \/ Carries(up[s], "HTTP_REQUEST", id)
                            \/ how = "fetching"
                            \/ Carries(ch, "HTTP_RESPONSE", id)
                            \/ Carries(ch, "ERROR", id)
      /\ \A k \in DOMAIN r : r[k] = k
      /\ Len(r) <= n
      /\ Listens(id) => InFlight(ch, id, Len(r), n)
      /\ Listens(id) /\ LinkUp(s) => Reaches(ch, id, Len(r), n)
      /\ Carries(ch, "HTTP_BODY_END", id) =>
            /\ ChunksFirst(ch, id)
            /\ Listens(id) /\ how = "done" => Reaches(ch, id, Len(r), n)
    BY DEF HttpGood, Delivery
<1>k. /\ \A k \in DOMAIN new : new[k].id = id => \E j \in DOMAIN ch : new[k] = ch[j]
      /\ \A t : Carries(new, t, id) => Carries(ch, t, id)
      /\ \A t : Once(ch, t, id) => Once(new, t, id)
      /\ ChunksFirst(ch, id) => ChunksFirst(new, id)
      /\ LinkUp(s)' /\ id \in pending' => \A t : Carries(ch, t, id) => Carries(new, t, id)
      /\ id \in pending' =>
            /\ ResponseFirst(ch, id) => ResponseFirst(new, id)
            /\ \A got, top : InFlight(ch, id, got, top) => InFlight(new, id, got, top)
            /\ LinkUp(s)' \/ Carries(new, "HTTP_BODY_END", id) =>
                  \A got, top : Reaches(ch, id, got, top) => Reaches(new, id, got, top)
    BY <1>f, KeptElements
<1> HIDE DEF ch, new, how, n, r
<1>1. \A k \in DOMAIN new : new[k].id = id => TrueNews(new[k], how, n)
    BY <1>g, <1>k
<1>2. Once(new, "HTTP_RESPONSE", id)
    BY <1>g, <1>k
<1>3. call'[id] = "connected" =>
          /\ how \notin {"none", "fetching"}
          /\ ~Carries(new, "HTTP_RESPONSE", id)
          /\ reader'[id] = "none" => how = "done" /\ n = 0
    BY <1>f, <1>g, <1>k
<1>4. id \in pending' /\ call'[id] = "waiting" =>
          /\ ResponseFirst(new, id)
          /\ LinkUp(s)' => \/ Carries(up'[s], "HTTP_REQUEST", id)
                           \/ how = "fetching"
                           \/ Carries(new, "HTTP_RESPONSE", id)
                           \/ Carries(new, "ERROR", id)
    BY <1>f, <1>g, <1>k DEF RequestKept
<1>5. Delivery(r, new, id, n, Listens(id)', LinkUp(s)')
    BY <1>f, <1>g, <1>k, <1>l DEF Delivery
<1>6. Carries(new, "HTTP_BODY_END", id) =>
          /\ ChunksFirst(new, id)
          /\ Listens(id)' /\ how = "done" => Reaches(new, id, Len(r), n)
    BY <1>g, <1>k, <1>l
<1>7. /\ new = down'[s] /\ how = stage'[s][id] /\ n = produced'[s][id] /\ r = rcvd'[id]
      /\ home'[id] = s
    BY <1>f DEF new, how, n, r
<1> HIDE DEF Delivery, Listens, LinkUp
<1> QED
    BY <1>1, <1>2, <1>3, <1>4, <1>5, <1>6, <1>7, <1>l DEF HttpGood

LEMMA UdpFading ==
    ASSUME KindInv, KindInv', NEW s \in Sessions, NEW id \in Ids, home[id] = s,
           kind[id] = "udp", UdpGood(id), Fades(s, id)
    PROVE  UdpGood(id)'
<1> DEFINE ch == down[s]
           new == down'[s]
           n == SentDown(s, id)
           r == rcvd[id]
           isOver == loop[s][id] # "none" /\ id \notin sockets[s]
           isOver2 == loop'[s][id] # "none" /\ id \notin sockets'[s]
<1>f. /\ home'[id] = s /\ kind'[id] = "udp" /\ rcvd'[id] = r /\ SentDown(s, id)' = n
      /\ LinkUp(s)' => LinkUp(s)
      /\ isOver => isOver2
      /\ LinkUp(s)' /\ isOver2 => isOver
      /\ id \in interest' => id \in interest
      /\ DownKept(s, id)
    BY DEF Fades, ClientFades, ServerFades
<1>l. /\ Listens(id)' <=> id \in interest'
      /\ Listens(id) <=> id \in interest
      /\ (LinkUp(home[id])' <=> LinkUp(s)')
    BY <1>f DEF Listens, LinkUp
<1>g. /\ Carries(ch, "UDP_CLOSE", id) => isOver
      /\ Once(ch, "UDP_CLOSE", id)
      /\ id \in interest /\ LinkUp(s) /\ isOver => Carries(ch, "UDP_CLOSE", id)
      /\ \A k \in DOMAIN r : r[k] = k
      /\ Len(r) <= n
      /\ Listens(id) => InFlight(ch, id, Len(r), n)
      /\ Listens(id) /\ LinkUp(s) => Reaches(ch, id, Len(r), n)
    BY DEF UdpGood, Delivery
<1>k. /\ \A t : Carries(new, t, id) => Carries(ch, t, id)
      /\ \A t : Once(ch, t, id) => Once(new, t, id)
      /\ LinkUp(s)' /\ id \in interest' => \A t : Carries(ch, t, id) => Carries(new, t, id)
      /\ id \in interest' =>
            /\ \A got, top : InFlight(ch, id, got, top) => InFlight(new, id, got, top)
            /\ LinkUp(s)' => \A got, top : Reaches(ch, id, got, top) => Reaches(new, id, got, top)
    BY <1>f, KeptElements
<1> HIDE DEF ch, new, n, r, isOver, isOver2
<1>1. /\ Carries(new, "UDP_CLOSE", id) => isOver2
      /\ Once(new, "UDP_CLOSE", id)
      /\ id \in interest' /\ LinkUp(s)' /\ isOver2 => Carries(new, "UDP_CLOSE", id)
    BY <1>f, <1>g, <1>k
<1>2. Delivery(r, new, id, n, Listens(id)', LinkUp(s)')
    BY <1>f, <1>g, <1>k, <1>l DEF Delivery
<1>3. /\ new = down'[s] /\ n = SentDown(s, id)' /\ r = rcvd'[id] /\ home'[id] = s
      /\ isOver2 <=> loop'[s][id] # "none" /\ id \notin sockets'[s]
    BY <1>f DEF new, n, r, isOver2
<1>4. SentDown(home[id], id)' = SentDown(s, id)'
    BY <1>f DEF SentDown
<1> HIDE DEF Delivery, Listens, LinkUp, SentDown
<1> QED
    BY <1>1, <1>2, <1>3, <1>4, <1>l DEF UdpGood

LEMMA Fading ==
    ASSUME KindInv, KindInv', NEW s \in Sessions, NEW id \in Ids, home[id] = s,
           Good(id), Fades(s, id)
    PROVE  Good(id)'
<1>1. kind'[id] = kind[id]
    BY DEF Fades
<1> QED
    BY <1>1, DnsFading, HttpFading, UdpFading DEF Good

-----------------------------------------------------------------------------
(* The client, exchange by exchange                                        *)

\* The client takes nothing back.
LEMMA NothingIsTakenBack ==
    ASSUME KindInv, Speaks, NEW s \in Sessions, NEW t, NEW id, Carries(up[s], t, id)
    PROVE  Carries(up'[s], t, id)
<1>1. up[s] \in Seq(RequestMessage) /\ Asked' \subseteq RequestMessage
    BY DEF KindInv, TypeOK, Asked, Counted
<1>2. ASSUME NEW ms \in Seq(Asked'), Says(ms) PROVE Carries(up'[s], t, id)
    <2>1. ms \in Seq(RequestMessage)
        BY <1>1, ChannelsGrow
    <2>2. Carries(up[s] \o ms, t, id)
        BY <1>1, <2>1, CarriesConcat
    <2>3. up'[s] = up[s] \/ up'[s] = up[s] \o ms
        BY <1>2 DEF Says
    <2> QED
        BY <2>2, <2>3
<1>3. ASSUME NEW m \in Asked', SaysFirst(m) PROVE Carries(up'[s], t, id)
    <2>1. Carries(Append(up[s], m), t, id)
        BY <1>1, CarriesAppend
    <2>2. up'[s] = up[s] \/ up'[s] = Append(up[s], m)
        BY <1>3 DEF SaysFirst
    <2> QED
        BY <2>1, <2>2
<1> QED
    BY <1>2, <1>3 DEF Speaks

\* What the server has to do with an exchange fades with every step of the
\* client.
LEMMA ClientFading ==
    ASSUME KindInv, HomeInv, KindInv', RequestNext, UNCHANGED serverVars,
           NEW s \in Sessions, NEW id \in Ids, home[id] = s, Good(id),
           ClientFades(id), DownKept(s, id)
    PROVE  Good(id)'
<1>1. Speaks /\ KeepsSession
    BY ClientMoves
<1>2. kind[id] # "none"
    BY WireAssumption DEF KindInv, ClientAgrees, Sessions
<1>3. home'[id] = s /\ kind'[id] = kind[id] /\ (LinkUp(s)' => LinkUp(s))
    BY <1>1, <1>2, KindsStay DEF KeepsSession, LinkUp
<1>4. UNCHANGED <<queries, stage, produced, sockets, loop, datagrams>>
    BY DEF serverVars, dnsVars, httpVars, udpVars
<1>5. ServerFades(s, id)
    BY <1>3, <1>4 DEF ServerFades, SentDown
<1>6. RequestKept(s, id)
    BY <1>1, <1>4, NothingIsTakenBack DEF RequestKept
<1>7. Fades(s, id)
    BY <1>3, <1>5, <1>6 DEF Fades
<1> QED
    BY <1>7, Fading

\* A message that is taken is about an exchange of this session.
LEMMA TakeIsHeard ==
    ASSUME KindInv, HomeInv, NEW m, Take(m)
    PROVE  /\ sess \in Sessions /\ m \in Answered /\ m \in RequestMessage /\ m.id \in Ids
           /\ home[m.id] = sess /\ kind[m.id] # "none"
           /\ down[sess] \in Seq(RequestMessage) /\ down[sess] # <<>> /\ m = Head(down[sess])
           /\ \A s \in Sessions : down'[s] = IF s = sess THEN Tail(down[s]) ELSE down[s]
<1>2. sess \in Sessions /\ down \in [Sessions -> Seq(RequestMessage)]
    BY WireAssumption DEF KindInv, TypeOK, Sessions, Take
<1>3. /\ down[sess] \in Seq(RequestMessage) /\ down[sess] # <<>> /\ m = Head(down[sess])
      /\ \A s \in Sessions : down'[s] = IF s = sess THEN Tail(down[s]) ELSE down[s]
    BY <1>2 DEF Take
<1>4. Head(down[sess]) = down[sess][1] /\ 1 \in DOMAIN down[sess]
    BY <1>3, TailElements
<1>1. m \in Answered /\ m \in RequestMessage /\ m.id \in Ids /\ kind[m.id] # "none"
    <2>1. down[sess] \in Seq(Answered)
        BY <1>2 DEF KindInv, ChannelsAgree
    <2>2. m \in Answered
        BY <1>3, <1>4, <2>1
    <2> QED
        BY <2>2, MessagesAgree
<1>5. home[m.id] = sess
    BY <1>2, <1>3, <1>4 DEF HomeInv, AnswersAreAtHome
<1> QED
    BY <1>1, <1>2, <1>3, <1>5

\* To other exchanges it makes no difference, nor to one that is given up.
LEMMA TakingKeeps ==
    ASSUME KindInv, HomeInv, NEW m, Take(m), NEW s \in Sessions, NEW id \in Ids,
           m.id # id \/ id \notin pending' \cup interest'
    PROVE  DownKept(s, id)
<1>1. /\ down[s] \in Seq(RequestMessage)
      /\ s = sess => down[s] # <<>> /\ m = Head(down[s]) /\ down'[s] = Tail(down[s])
      /\ s # sess => down'[s] = down[s]
    BY TakeIsHeard DEF KindInv, TypeOK
<1>2. CASE s # sess
    BY <1>1, <1>2, SameRefl DEF DownKept
<1>3. CASE s = sess /\ m.id # id
    <2>1. Head(down[s]) \notin Of(id)
        BY <1>1, <1>3 DEF Of
    <2> QED
        BY <1>1, <1>3, <2>1, SameTail DEF DownKept
<1>4. CASE s = sess /\ id \notin pending' \cup interest'
    BY <1>1, <1>4 DEF DownKept
<1> QED
    BY <1>2, <1>3, <1>4

\* An exchange begins with its request on the way, and nothing else.
LEMMA NewExchange ==
    ASSUME KindInv, HomeInv, NEW k, TakeId(k), NEW id \in Ids, id = nextId,
           NEW m \in RequestMessage, m.id = id, Send(<<m>>),
           \/ k = "dns" /\ m.type = "DNS_QUERY" /\ call'[id] = "waiting"
           \/ k = "http" /\ m.type = "HTTP_REQUEST" /\ call'[id] = "waiting"
           \/ k = "udp",
           UNCHANGED <<sess, cws, sws, down, rcvd, serverVars>>
    PROVE  Good(id)'
<1>s. PICK s \in Sessions : s = sess
    BY NewIdIsFresh
<1> DEFINE ch == down[s]
<1>1. kind[id] = "none" /\ home'[id] = s /\ kind'[id] = k
    BY <1>s, NewIdIsFresh
<1>2. /\ \A j \in DOMAIN ch : ch[j].id # id
      /\ stage[s][id] = "none" /\ loop[s][id] = "none"
    BY <1>1, NobodySpeaksOfIt
<1>3. produced[s][id] = 0 /\ datagrams[s][id] = 0
    BY <1>2 DEF HomeInv, WorkIsAtHome
<1>4. rcvd[id] = <<>>
    BY <1>1 DEF KindInv, ClientAgrees
<1>5. /\ stage'[s][id] = "none" /\ produced'[s][id] = 0 /\ loop'[s][id] = "none"
      /\ datagrams'[s][id] = 0 /\ down'[s] = ch /\ rcvd'[id] = <<>>
    BY <1>2, <1>3, <1>4 DEF serverVars, httpVars, udpVars
<1>6. SentDown(s, id)' = 0
    BY <1>5 DEF SentDown
<1>7. LinkUp(s)' => Carries(up'[s], m.type, id)
    <2>1. LinkUp(s)' => LinkUp(s)
        BY DEF LinkUp
    <2>2. \A z \in Sessions : up'[z] = IF LinkUp(z) THEN up[z] \o <<m>> ELSE up[z]
        BY SendIsHeard
    <2>3. up[s] \in Seq(RequestMessage) /\ <<m>> \in Seq(RequestMessage)
        BY DEF KindInv, TypeOK
    <2>4. Carries(up[s] \o <<m>>, m.type, id)
        BY <2>3, CarriesConcat, CarriesOne
    <2> QED
        BY <2>1, <2>2, <2>4
<1> HIDE DEF ch
<1>8. \A j \in DOMAIN ch : ~IsChunk(ch[j], id)
    BY <1>2 DEF IsChunk, ch
<1>9. /\ \A t : ~Carries(ch, t, id) /\ Once(ch, t, id)
      /\ ResponseFirst(ch, id)
      /\ InFlight(ch, id, 0, 0) /\ Reaches(ch, id, 0, 0)
    BY <1>2, <1>8 DEF Carries, Once, ResponseFirst, InFlight, Reaches, ch
<1>10. \A P, Q : Delivery(<<>>, ch, id, 0, P, Q)
    <2>1. Len(<<>>) = 0 /\ DOMAIN <<>> = {}
        OBVIOUS
    <2> QED
        BY <1>9, <2>1 DEF Delivery
<1>11. LinkUp(home[id])' <=> LinkUp(s)'
    BY <1>1 DEF LinkUp
<1>12. SentDown(home[id], id)' = 0
    BY <1>1, <1>6 DEF SentDown
<1>13. down'[s] = ch
    BY <1>5
<1>14. k = "dns" => DnsGood(id)'
    BY <1>1, <1>5, <1>7, <1>11 DEF DnsGood
<1>15. ASSUME k = "http" PROVE HttpGood(id)'
    <2>1. call'[id] = "waiting" /\ (LinkUp(s)' => Carries(up'[s], "HTTP_REQUEST", id))
        BY <1>7, <1>15
    <2>2. \A j \in DOMAIN ch : ch[j].id # id
        BY <1>2 DEF ch
    <2> HIDE DEF Delivery, Listens, LinkUp
    <2> QED
        BY <1>1, <1>5, <1>9, <1>10, <1>11, <1>13, <2>1, <2>2 DEF HttpGood
<1>16. ASSUME k = "udp" PROVE UdpGood(id)'
    <2> HIDE DEF Delivery, Listens, LinkUp, SentDown
    <2> QED
        BY <1>1, <1>5, <1>9, <1>10, <1>11, <1>12, <1>13 DEF UdpGood
<1> QED
    BY <1>1, <1>14, <1>15, <1>16 DEF Good

\* The caller gets its Response: the only one, and no chunk came before it.
LEMMA ResponseComes ==
    ASSUME KindInv, HomeInv, NEW m, Take(m), NEW id \in Ids, m.id = id, Good(id),
           m.type = "HTTP_RESPONSE", id \in pending,
           call' = [call EXCEPT ![id] = "connected"],
           reader' = [reader EXCEPT ![id] = IF m.chunk = 1 THEN "open" ELSE "none"],
           UNCHANGED <<sess, cws, sws, home, kind, rcvd, pending, interest, serverVars>>
    PROVE  Good(id)'
<1>s. PICK s \in Sessions : s = sess
    BY TakeIsHeard
<1> DEFINE ch == down[s]
           new == down'[s]
           how == stage[s][id]
           n == produced[s][id]
           r == rcvd[id]
<1>t. /\ ch \in Seq(RequestMessage) /\ ch # <<>> /\ m = Head(ch) /\ new = Tail(ch)
      /\ home[id] = s /\ m \in Answered
    BY <1>s, TakeIsHeard
<1>h. kind[id] = "http" /\ HttpGood(id)
    BY <1>t DEF Answered, Good
<1>c. call[id] \in {"waiting", "connected"} /\ (reader[id] # "none" => call[id] = "connected")
      /\ call'[id] = "connected" /\ reader'[id] \in {"open", "none"}
      /\ (reader'[id] = "none" => m.chunk # 1)
    <2>1. call \in [Ids -> CallState] /\ reader \in [Ids -> ReaderState]
        BY DEF KindInv, TypeOK
    <2> QED
        BY <2>1 DEF KindInv, ClientAgrees
<1>g. /\ \A k \in DOMAIN ch : ch[k].id = id => TrueNews(ch[k], how, n)
      /\ Once(ch, "HTTP_RESPONSE", id)
      /\ call[id] = "connected" => ~Carries(ch, "HTTP_RESPONSE", id)
      /\ \A k \in DOMAIN r : r[k] = k
      /\ Len(r) <= n
      /\ Listens(id) => InFlight(ch, id, Len(r), n)
      /\ Listens(id) /\ LinkUp(s) => Reaches(ch, id, Len(r), n)
      /\ Carries(ch, "HTTP_BODY_END", id) =>
            /\ ChunksFirst(ch, id)
            /\ Listens(id) /\ how = "done" => Reaches(ch, id, Len(r), n)
    BY <1>h, <1>t DEF HttpGood, Delivery
<1>f. /\ home'[id] = s /\ rcvd'[id] = r /\ stage'[s][id] = how /\ produced'[s][id] = n
      /\ (LinkUp(home[id])' <=> LinkUp(s)') /\ (LinkUp(s)' <=> LinkUp(s)) /\ kind'[id] = "http"
    BY <1>h, <1>t DEF serverVars, httpVars, LinkUp
<1> HIDE DEF ch, new, how, n, r
<1>1. Carries(ch, "HTTP_RESPONSE", id) /\ TrueNews(m, how, n)
    <2>1. 1 \in DOMAIN ch /\ ch[1] = m
        BY <1>t, TailElements
    <2> QED
        BY <1>g, <2>1 DEF Carries
<1>2. how \notin {"none", "fetching"} /\ (reader'[id] = "none" => how = "done" /\ n = 0)
    BY <1>1, <1>c DEF TrueNews
<1>3. Once(new, "HTTP_RESPONSE", id) /\ ~Carries(new, "HTTP_RESPONSE", id)
    BY <1>g, <1>t, OnceTail
<1>4. Listens(id)
    BY <1>1, <1>c, <1>g, <1>h DEF Listens
<1>5. SameIn(new, ch, ChunksOf(id)) /\ new \in Seq(RequestMessage)
    <2>1. Head(ch) \notin ChunksOf(id)
        BY <1>t DEF ChunksOf, IsChunk
    <2> QED
        BY <1>t, <2>1, SameTail, TailElements
<1>6. /\ InFlight(new, id, Len(r), n)
      /\ Reaches(ch, id, Len(r), n) => Reaches(new, id, Len(r), n)
    BY <1>4, <1>5, <1>g, <1>t, SameChunks
<1>7. \A k \in DOMAIN new : new[k].id = id => TrueNews(new[k], how, n)
    BY <1>g, <1>t, TailElements
<1>8. Carries(new, "HTTP_BODY_END", id) =>
          /\ ChunksFirst(new, id)
          /\ how = "done" => Reaches(new, id, Len(r), n)
    <2>1. Carries(new, "HTTP_BODY_END", id) => Carries(ch, "HTTP_BODY_END", id)
        BY <1>t, CarriesTail
    <2> QED
        BY <1>4, <1>6, <1>g, <1>t, <2>1, ChunksFirstTail
<1>9. Delivery(r, new, id, n, Listens(id)', LinkUp(s)')
    BY <1>4, <1>6, <1>f, <1>g DEF Delivery
<1>10. /\ new = down'[s] /\ how = stage'[s][id] /\ n = produced'[s][id] /\ r = rcvd'[id]
       /\ home'[id] = s
    BY <1>f DEF new
<1> HIDE DEF Delivery, Listens, LinkUp
<1>11. HttpGood(id)'
    BY <1>2, <1>3, <1>7, <1>8, <1>9, <1>10, <1>c, <1>f DEF HttpGood
<1> QED
    BY <1>11, <1>f DEF Good

\* The caller gets the next chunk of its Response.
LEMMA ChunkComes ==
    ASSUME KindInv, HomeInv, NEW m, Take(m), NEW id \in Ids, m.id = id, Good(id),
           m.type = "HTTP_BODY_CHUNK", id \in pending,
           rcvd' = IF reader[id] = "open" THEN [rcvd EXCEPT ![id] = Append(@, m.chunk)]
                                          ELSE rcvd,
           UNCHANGED <<sess, cws, sws, home, kind, call, reader, pending, interest, serverVars>>
    PROVE  Good(id)'
<1>s. PICK s \in Sessions : s = sess
    BY TakeIsHeard
<1> DEFINE ch == down[s]
           new == down'[s]
           how == stage[s][id]
           n == produced[s][id]
           r == rcvd[id]
           q == rcvd'[id]
<1>t. /\ ch \in Seq(RequestMessage) /\ ch # <<>> /\ m = Head(ch) /\ new = Tail(ch)
      /\ home[id] = s /\ m \in Answered /\ IsChunk(m, id)
    BY <1>s, TakeIsHeard DEF IsChunk
<1>h. kind[id] = "http" /\ HttpGood(id)
    BY <1>t DEF Answered, Good
<1>c. call[id] \in {"waiting", "connected"}
    BY DEF KindInv, ClientAgrees
<1>n. n \in Nat /\ Len(r) \in Nat /\ r \in Seq(Nat)
    <2>1. n \in 0 .. MaxChunks /\ r \in Seq(1 .. MaxChunks)
        BY DEF KindInv, TypeOK, HttpTypeOK
    <2> QED
        BY <2>1, WireAssumption
<1>r. q = IF reader[id] = "open" THEN Append(r, m.chunk) ELSE r
    <2>1. rcvd \in [Ids -> Seq(1 .. MaxChunks)]
        BY DEF KindInv, TypeOK
    <2> QED
        BY <2>1
<1>g. /\ \A k \in DOMAIN ch : ch[k].id = id => TrueNews(ch[k], how, n)
      /\ Once(ch, "HTTP_RESPONSE", id)
      /\ call[id] = "connected" =>
            /\ how \notin {"none", "fetching"}
            /\ ~Carries(ch, "HTTP_RESPONSE", id)
            /\ reader[id] = "none" => how = "done" /\ n = 0
      /\ call[id] = "waiting" => ResponseFirst(ch, id)
      /\ \A k \in DOMAIN r : r[k] = k
      /\ Len(r) <= n
      /\ Listens(id) => InFlight(ch, id, Len(r), n)
      /\ Listens(id) /\ LinkUp(s) => Reaches(ch, id, Len(r), n)
      /\ Carries(ch, "HTTP_BODY_END", id) =>
            /\ ChunksFirst(ch, id)
            /\ Listens(id) /\ how = "done" => Reaches(ch, id, Len(r), n)
    BY <1>h, <1>t DEF HttpGood, Delivery
<1>f. /\ home'[id] = s /\ rcvd'[id] = q /\ stage'[s][id] = how /\ produced'[s][id] = n
      /\ (LinkUp(home[id])' <=> LinkUp(s)') /\ (LinkUp(s)' <=> LinkUp(s)) /\ kind'[id] = "http"
      /\ (Listens(id)' <=> Listens(id)) /\ call' = call /\ reader' = reader
    BY <1>h, <1>t DEF serverVars, httpVars, LinkUp, Listens
<1> HIDE DEF ch, new, how, n, r, q
\* It has its Response, and that one has a body.
<1>1. call[id] = "connected"
    BY <1>c, <1>g, <1>t, ResponseFirstTail
<1>2. Listens(id) => /\ m.chunk = Len(r) + 1 /\ Len(r) + 1 <= n
                     /\ InFlight(new, id, Len(r) + 1, n)
                     /\ Reaches(ch, id, Len(r), n) => Reaches(new, id, Len(r) + 1, n)
    BY <1>g, <1>n, <1>t, TailNext
<1>3. reader[id] # "none"
    <2>1. reader[id] = "none" => Listens(id) /\ n = 0
        BY <1>1, <1>g, <1>h DEF Listens
    <2> QED
        BY <1>2, <1>n, <2>1
<1>4. Listens(id) <=> reader[id] = "open"
    BY <1>3, <1>h DEF Listens
<1>5. /\ \A k \in DOMAIN q : q[k] = k
      /\ Len(q) <= n
      /\ Listens(id) => Len(q) = Len(r) + 1
    <2>1. CASE reader[id] = "open"
        <3>1. q = Append(r, Len(r) + 1) /\ Len(r) + 1 <= n
            BY <1>2, <1>4, <1>r, <2>1
        <3>2. Len(q) = Len(r) + 1 /\ \A k \in DOMAIN q : q[k] = k
            BY <1>g, <1>n, <3>1
        <3> QED
            BY <3>1, <3>2
    <2>2. CASE reader[id] # "open"
        BY <1>4, <1>g, <1>r, <2>2
    <2> QED
        BY <2>1, <2>2
<1>6. Delivery(q, new, id, n, Listens(id)', LinkUp(s)')
    BY <1>2, <1>5, <1>f, <1>g DEF Delivery
<1>7. \A k \in DOMAIN new : new[k].id = id => TrueNews(new[k], how, n)
    BY <1>g, <1>t, TailElements
<1>8. Once(new, "HTTP_RESPONSE", id) /\ ~Carries(new, "HTTP_RESPONSE", id)
    BY <1>1, <1>g, <1>t, OnceTail, CarriesTail
<1>9. Carries(new, "HTTP_BODY_END", id) =>
          /\ ChunksFirst(new, id)
          /\ Listens(id) /\ how = "done" => Reaches(new, id, Len(q), n)
    <2>1. Carries(new, "HTTP_BODY_END", id) => Carries(ch, "HTTP_BODY_END", id)
        BY <1>t, CarriesTail
    <2> QED
        BY <1>2, <1>5, <1>g, <1>t, <2>1, ChunksFirstTail
<1>10. /\ new = down'[s] /\ how = stage'[s][id] /\ n = produced'[s][id] /\ q = rcvd'[id]
       /\ home'[id] = s
    BY <1>f DEF new
<1> HIDE DEF Delivery, Listens, LinkUp
<1>11. HttpGood(id)'
    BY <1>1, <1>3, <1>6, <1>7, <1>8, <1>9, <1>10, <1>f, <1>g DEF HttpGood
<1> QED
    BY <1>11, <1>f DEF Good

\* A driver hears of its socket what is no end: an answer, or the next datagram.
LEMMA DatagramComes ==
    ASSUME KindInv, HomeInv, NEW m, Take(m), NEW id \in Ids, m.id = id, Good(id),
           m.type \notin {"UDP_CLOSE", "ERROR"}, id \in interest,
           rcvd' = IF m.type = "UDP_DATA" THEN [rcvd EXCEPT ![id] = Append(@, m.chunk)]
                                          ELSE rcvd,
           UNCHANGED <<sess, cws, sws, home, kind, interest, serverVars>>
    PROVE  Good(id)'
<1>s. PICK s \in Sessions : s = sess
    BY TakeIsHeard
<1> DEFINE ch == down[s]
           new == down'[s]
           n == SentDown(s, id)
           r == rcvd[id]
           q == rcvd'[id]
           isOver == loop[s][id] # "none" /\ id \notin sockets[s]
<1>t. /\ ch \in Seq(RequestMessage) /\ ch # <<>> /\ m = Head(ch) /\ new = Tail(ch)
      /\ home[id] = s /\ m \in Answered
    BY <1>s, TakeIsHeard
<1>h. kind[id] = "udp" /\ UdpGood(id) /\ Listens(id)
    BY DEF KindInv, ClientAgrees, Good, Listens
<1>m. IsChunk(m, id) <=> m.type = "UDP_DATA"
    BY <1>h, <1>t DEF IsChunk, Answered
<1>n. n \in Nat /\ Len(r) \in Nat /\ r \in Seq(Nat)
    <2>1. datagrams[s][id] \in Nat /\ r \in Seq(1 .. MaxChunks)
        BY WireAssumption DEF KindInv, TypeOK, UdpTypeOK
    <2>2. loop[s][id] = "holding" => datagrams[s][id] # 0
        BY DEF KindInv, ServerAgrees
    <2> QED
        BY <1>h, <2>1, <2>2, WireAssumption DEF SentDown
<1>r. q = IF m.type = "UDP_DATA" THEN Append(r, m.chunk) ELSE r
    <2>1. rcvd \in [Ids -> Seq(1 .. MaxChunks)]
        BY DEF KindInv, TypeOK
    <2> QED
        BY <2>1
<1>g. /\ Carries(ch, "UDP_CLOSE", id) => isOver
      /\ Once(ch, "UDP_CLOSE", id)
      /\ LinkUp(s) /\ isOver => Carries(ch, "UDP_CLOSE", id)
      /\ \A k \in DOMAIN r : r[k] = k
      /\ Len(r) <= n
      /\ InFlight(ch, id, Len(r), n)
      /\ LinkUp(s) => Reaches(ch, id, Len(r), n)
    BY <1>h, <1>t DEF UdpGood, Delivery
<1>f. /\ home'[id] = s /\ kind'[id] = "udp" /\ (LinkUp(home[id])' <=> LinkUp(s)') /\ (LinkUp(s)' <=> LinkUp(s))
      /\ loop' = loop /\ sockets' = sockets /\ SentDown(home[id], id)' = n
    BY <1>h, <1>t DEF serverVars, httpVars, udpVars, LinkUp, SentDown
<1> HIDE DEF ch, new, n, r, q
<1>1. (Carries(new, "UDP_CLOSE", id) <=> Carries(ch, "UDP_CLOSE", id)) /\ Once(new, "UDP_CLOSE", id)
    BY <1>g, <1>t, CarriesTail, OnceTail
<1>2. Delivery(q, new, id, n, Listens(id)', LinkUp(s)')
    <2>1. CASE m.type = "UDP_DATA"
        <3>1. /\ m.chunk = Len(r) + 1 /\ Len(r) + 1 <= n
              /\ InFlight(new, id, Len(r) + 1, n)
              /\ Reaches(ch, id, Len(r), n) => Reaches(new, id, Len(r) + 1, n)
            BY <1>g, <1>m, <1>n, <1>t, <2>1, TailNext
        <3>2. q = Append(r, Len(r) + 1)
            BY <1>r, <2>1, <3>1
        <3>3. Len(q) = Len(r) + 1 /\ \A k \in DOMAIN q : q[k] = k
            BY <1>g, <1>n, <3>2
        <3> QED
            BY <1>f, <1>g, <3>1, <3>3 DEF Delivery
    <2>2. CASE m.type # "UDP_DATA"
        <3>1. SameIn(new, ch, ChunksOf(id)) /\ new \in Seq(RequestMessage)
            <4>1. Head(ch) \notin ChunksOf(id)
                BY <1>m, <1>t, <2>2 DEF ChunksOf
            <4> QED
                BY <1>t, <4>1, SameTail, TailElements
        <3>2. /\ InFlight(new, id, Len(r), n)
              /\ Reaches(ch, id, Len(r), n) => Reaches(new, id, Len(r), n)
            BY <1>g, <1>t, <3>1, SameChunks
        <3> QED
            BY <1>f, <1>g, <1>r, <2>2, <3>2 DEF Delivery
    <2> QED
        BY <2>1, <2>2
<1>3. new = down'[s] /\ q = rcvd'[id]
    BY DEF new, q
<1> HIDE DEF Delivery, Listens, LinkUp, SentDown
<1>4. UdpGood(id)'
    BY <1>1, <1>2, <1>3, <1>f, <1>g DEF UdpGood
<1> QED
    BY <1>4, <1>f DEF Good

LEMMA ClientServes ==
    ASSUME KindInv, HomeInv, KindInv', RequestNext, UNCHANGED serverVars,
           NEW id \in Ids, kind'[id] # "none", Good(id)
    PROVE  Good(id)'
<1>t. ClientTypes /\ ClientAgrees
    BY TypesOfParts
<1>y. /\ call \in [Ids -> CallState] /\ reader \in [Ids -> ReaderState]
      /\ rcvd \in [Ids -> Seq(1 .. MaxChunks)]
    BY <1>t DEF ClientTypes
<1>d. /\ \A z \in Sessions : down[z] \in Seq(RequestMessage)
    BY DEF KindInv, TypeOK
<1>home. ASSUME kind[id] # "none" PROVE \E s \in Sessions : s = home[id]
    <2>1. home[id] # 0 /\ home[id] \in 0 .. MaxSessions
        BY <1>home, <1>t DEF ClientAgrees, ClientTypes
    <2> QED
        BY <2>1, WireAssumption DEF Sessions
\* Nothing is taken.
<1>kept. ASSUME kind[id] # "none", UNCHANGED down, ClientFades(id) PROVE Good(id)'
    <2>1. PICK s \in Sessions : s = home[id]
        BY <1>kept, <1>home
    <2>2. DownKept(s, id)
        BY <1>d, <1>kept, SameRefl DEF DownKept
    <2> QED
        BY <1>kept, <2>1, <2>2, ClientFading
\* A message is taken that changes nothing for this exchange.
<1>took. ASSUME kind[id] # "none", NEW m, Take(m), m.id # id \/ id \notin pending' \cup interest',
                ClientFades(id)
         PROVE  Good(id)'
    <2>1. PICK s \in Sessions : s = home[id]
        BY <1>took, <1>home
    <2>2. DownKept(s, id)
        BY <1>took, TakingKeeps
    <2> QED
        BY <1>took, <2>1, <2>2, ClientFading
\* A new exchange.
<1>new. ASSUME NEW k, TakeId(k), NEW m \in RequestMessage, m.id = nextId, Send(<<m>>),
               \/ k = "dns" /\ m.type = "DNS_QUERY" /\ call'[nextId] = "waiting"
               \/ k = "http" /\ m.type = "HTTP_REQUEST" /\ call'[nextId] = "waiting"
               \/ k = "udp",
               UNCHANGED <<sess, cws, sws, down, rcvd, reader>>,
               id # nextId => /\ call'[id] = call[id]
                              /\ id \in pending' => id \in pending
                              /\ id \in interest' => id \in interest
        PROVE  Good(id)'
    <2>1. CASE id = nextId
        BY <1>new, <2>1, NewExchange
    <2>2. CASE id # nextId
        <3>1. kind[id] # "none"
            BY <1>new, <2>2, NewIdIsFresh
        <3>2. ClientFades(id)
            BY <1>new, <2>2 DEF ClientFades
        <3> QED
            BY <1>kept, <1>new, <3>1, <3>2
    <2> QED
        BY <2>1, <2>2
<1>number. 0 \in 0 .. MaxChunks + 1 /\ 1 \in 0 .. MaxChunks + 1
    BY WireAssumption
<1>1. CASE QueryDNS
    <2>1. /\ Await("dns") /\ Send(<<Msg("DNS_QUERY", nextId)>>)
          /\ UNCHANGED <<sess, cws, sws, down, rcvd, reader, interest>>
        BY <1>1 DEF QueryDNS
    <2>2. nextId \in Ids
        BY <2>1, NewIdIsFresh DEF Await
    <2>3. Msg("DNS_QUERY", nextId) \in RequestMessage
        BY <1>number, <2>2 DEF RequestMessage, RequestType, Msg
    <2>4. /\ call'[nextId] = "waiting"
          /\ id # nextId => call'[id] = call[id] /\ (id \in pending' => id \in pending)
        BY <1>y, <2>1, <2>2 DEF Await
    <2> QED
        BY <1>new, <2>1, <2>3, <2>4 DEF Await, Msg
<1>2. CASE FetchHTTP
    <2>1. PICK announced \in BOOLEAN :
              /\ Await("http")
              /\ Send(<<Chunk("HTTP_REQUEST", nextId, Flag(announced))>>)
        BY <1>2 DEF FetchHTTP
    <2>5. UNCHANGED <<sess, cws, sws, down, rcvd, reader, interest>>
        BY <1>2 DEF FetchHTTP
    <2>2. nextId \in Ids
        BY <2>1, NewIdIsFresh DEF Await
    <2>3. Chunk("HTTP_REQUEST", nextId, Flag(announced)) \in RequestMessage
        BY <1>number, <2>2 DEF RequestMessage, RequestType, Chunk, Flag
    <2>4. /\ call'[nextId] = "waiting"
          /\ id # nextId => call'[id] = call[id] /\ (id \in pending' => id \in pending)
        BY <1>y, <2>1, <2>2 DEF Await
    <2> QED
        BY <1>new, <2>1, <2>3, <2>4, <2>5 DEF Await, Chunk
<1>3. CASE UdpBind
    <2>1. /\ TakeId("udp") /\ Send(<<Msg("UDP_BIND", nextId)>>)
          /\ UNCHANGED <<sess, cws, sws, down, rcvd, reader, pending, call>>
          /\ interest' = interest \cup {nextId}
        BY <1>3 DEF UdpBind
    <2>2. nextId \in Ids
        BY <2>1, NewIdIsFresh
    <2>3. Msg("UDP_BIND", nextId) \in RequestMessage
        BY <1>number, <2>2 DEF RequestMessage, RequestType, Msg
    <2> QED
        BY <1>new, <2>1, <2>3 DEF Msg
<1>4. ASSUME NEW x \in Ids,
             SendBodyChunk(x) \/ SendBodyEnd(x) \/ UdpSend(x) \/ UdpDrop(x)
      PROVE  Good(id)'
    <2>1. /\ UNCHANGED <<down, kind, rcvd, call, reader, pending>>
          /\ id \in interest' => id \in interest
        BY <1>4 DEF SendBodyChunk, SendBodyEnd, UdpSend, UdpDrop, requestVars
    <2> QED
        BY <1>kept, <2>1 DEF ClientFades
<1>5. ASSUME NEW x \in Ids, GiveUp(x) PROVE Good(id)'
    <2>1. /\ UNCHANGED <<down, kind, rcvd, reader, interest>> /\ pending' = pending \ {x}
          /\ call' = [call EXCEPT ![x] = "failed"]
        BY <1>5 DEF GiveUp, requestVars
    <2>2. call'[id] = call[id] \/ call'[id] = "failed"
        BY <1>y, <2>1
    <2> QED
        BY <1>kept, <2>1, <2>2 DEF ClientFades
<1>6. ASSUME NEW x \in Ids, CancelBody(x) PROVE Good(id)'
    <2>1. /\ UNCHANGED <<down, kind, rcvd, call, pending, interest>>
          /\ reader' = [reader EXCEPT ![x] = "cancelled"]
        BY <1>6 DEF CancelBody, requestVars, wireVars
    <2>2. reader'[id] = reader[id] \/ reader'[id] = "cancelled"
        BY <1>y, <2>1
    <2> QED
        BY <1>kept, <2>1, <2>2 DEF ClientFades
<1>7. CASE ReapRequests
    <2>1. /\ UNCHANGED <<down, kind, rcvd, call, reader, interest>>
          /\ id \in pending' => id \in pending
        BY <1>7 DEF ReapRequests, requestVars
    <2> QED
        BY <1>kept, <2>1 DEF ClientFades
\* An id of the pending map is not the id of a UDP socket.
<1>only. id \in pending => id \notin interest
    BY <1>t DEF ClientAgrees
<1>8. CASE DnsResponse
    <2>1. PICK m : /\ Take(m) /\ m.id \in pending /\ m.type = "DNS_RESPONSE"
                   /\ call' = [call EXCEPT ![m.id] = "connected"]
                   /\ pending' = pending \ {m.id}
        BY <1>8 DEF DnsResponse
    <2>2. UNCHANGED <<kind, rcvd, reader, interest>>
        BY <1>8 DEF DnsResponse, requestVars
    <2>3. kind[m.id] = "dns" /\ m.id \in Ids
        BY <2>1, TakeIsHeard DEF Answered
    <2>4. IF id = m.id THEN call'[id] = "connected" ELSE call'[id] = call[id]
        BY <1>y, <2>1
    <2>5. ClientFades(id)
        BY <2>1, <2>2, <2>3, <2>4 DEF ClientFades
    <2> QED
        BY <1>only, <1>took, <2>1, <2>2, <2>5
<1>9. CASE HttpResponse
    <2>1. PICK m : /\ Take(m) /\ m.id \in pending /\ m.type = "HTTP_RESPONSE"
                   /\ call' = [call EXCEPT ![m.id] = "connected"]
                   /\ reader' = [reader EXCEPT ![m.id] = IF m.chunk = 1 THEN "open" ELSE "none"]
        BY <1>9 DEF HttpResponse
    <2>2. UNCHANGED <<sess, cws, sws, home, kind, rcvd, pending, interest>>
        BY <1>9 DEF HttpResponse, requestVars
    <2>3. CASE m.id = id
        BY <2>1, <2>2, <2>3, ResponseComes
    <2>4. CASE m.id # id
        <3>1. call'[id] = call[id] /\ reader'[id] = reader[id]
            BY <1>y, <2>1, <2>4
        <3>2. ClientFades(id)
            BY <2>2, <3>1 DEF ClientFades
        <3> QED
            BY <1>took, <2>1, <2>2, <2>4, <3>2
    <2> QED
        BY <2>3, <2>4
<1>10. CASE BodyChunk
    <2>1. PICK m : /\ Take(m) /\ m.id \in pending /\ m.type = "HTTP_BODY_CHUNK"
                   /\ rcvd' = IF reader[m.id] = "open"
                              THEN [rcvd EXCEPT ![m.id] = Append(@, m.chunk)]
                              ELSE rcvd
        BY <1>10 DEF BodyChunk
    <2>2. UNCHANGED <<sess, cws, sws, home, kind, call, reader, pending, interest>>
        BY <1>10 DEF BodyChunk, requestVars
    <2>3. CASE m.id = id
        BY <2>1, <2>2, <2>3, ChunkComes
    <2>4. CASE m.id # id
        <3>1. rcvd'[id] = rcvd[id]
            BY <1>y, <2>1, <2>4
        <3>2. ClientFades(id)
            BY <2>2, <3>1 DEF ClientFades
        <3> QED
            BY <1>took, <2>1, <2>2, <2>4, <3>2
    <2> QED
        BY <2>3, <2>4
<1>11. CASE BodyEnd
    <2>1. PICK m : /\ Take(m) /\ m.id \in pending
                   /\ reader' = [reader EXCEPT ![m.id] = IF @ = "open" THEN "closed" ELSE @]
                   /\ pending' = pending \ {m.id}
        BY <1>11 DEF BodyEnd
    <2>2. UNCHANGED <<kind, call, rcvd, interest>>
        BY <1>11 DEF BodyEnd, requestVars
    <2>3. reader'[id] = reader[id] \/ reader'[id] = "closed"
        BY <1>y, <2>1
    <2>4. ClientFades(id)
        BY <2>1, <2>2, <2>3 DEF ClientFades
    <2> QED
        BY <1>only, <1>took, <2>1, <2>2, <2>4
<1>12. CASE Stray
    <2>1. PICK m : Take(m) /\ m.id \notin pending \cup interest
        BY <1>12 DEF Stray
    <2>2. UNCHANGED <<kind, call, reader, pending, rcvd, interest>>
        BY <1>12 DEF Stray, requestVars
    <2>3. ClientFades(id)
        BY <2>2 DEF ClientFades
    <2> QED
        BY <1>took, <2>1, <2>2, <2>3
<1>13. CASE UdpHears
    <2>1. PICK m : /\ Take(m) /\ m.id \in interest
                   /\ rcvd' = IF m.type = "UDP_DATA" THEN [rcvd EXCEPT ![m.id] = Append(@, m.chunk)]
                                                     ELSE rcvd
                   /\ interest' = IF m.type \in {"UDP_CLOSE", "ERROR"} THEN interest \ {m.id}
                                                                       ELSE interest
        BY <1>13 DEF UdpHears
    <2>2. UNCHANGED <<sess, cws, sws, home, kind, call, reader, pending>>
        BY <1>13 DEF UdpHears
    <2>3. CASE m.id = id /\ m.type \notin {"UDP_CLOSE", "ERROR"}
        BY <2>1, <2>2, <2>3, DatagramComes
    <2>4. CASE m.id # id
        <3>1. rcvd'[id] = rcvd[id]
            BY <1>y, <2>1, <2>4
        <3>2. ClientFades(id)
            BY <2>1, <2>2, <3>1 DEF ClientFades
        <3> QED
            BY <1>took, <2>1, <2>2, <2>4, <3>2
    <2>5. CASE m.id = id /\ m.type \in {"UDP_CLOSE", "ERROR"}
        <3>1. rcvd' = rcvd /\ interest' = interest \ {m.id}
            BY <2>1, <2>5
        <3>2. ClientFades(id)
            BY <2>2, <3>1 DEF ClientFades
        <3>3. id \notin pending' \cup interest'
            BY <1>only, <2>1, <2>2, <2>5, <3>1
        <3> QED
            BY <1>took, <2>1, <2>2, <3>2, <3>3
    <2> QED
        BY <2>3, <2>4, <2>5
<1>14. CASE StreamError /\ UNCHANGED requestVars
    <2>1. PICK m : /\ Take(m) /\ m.id \in pending
                   /\ reader' = [reader EXCEPT ![m.id] = IF @ = "open" THEN "errored" ELSE @]
                   /\ call' = [call EXCEPT ![m.id] = IF @ = "waiting" THEN "failed" ELSE @]
                   /\ pending' = pending \ {m.id}
        BY <1>14 DEF StreamError
    <2>2. UNCHANGED <<kind, rcvd, interest>>
        BY <1>14 DEF StreamError, requestVars
    <2>3. /\ reader'[id] = reader[id] \/ reader'[id] = "errored"
          /\ call'[id] = call[id] \/ call'[id] = "failed"
        BY <1>y, <2>1
    <2>4. ClientFades(id)
        BY <2>1, <2>2, <2>3 DEF ClientFades
    <2> QED
        BY <1>only, <1>took, <2>1, <2>2, <2>4
\* What is pending is rejected.
<1>ends. ASSUME HandleDisconnect \/ (RejectPending /\ UNCHANGED reader), UNCHANGED <<rcvd, interest>>
         PROVE  ClientFades(id)
    <2>1. /\ reader'[id] = reader[id] \/ reader'[id] = "errored"
          /\ call'[id] = call[id] \/ call'[id] = "failed"
          /\ id \in pending' => id \in pending
        BY <1>ends, <1>y DEF HandleDisconnect, RejectPending
    <2> QED
        BY <1>ends, <2>1 DEF ClientFades
<1>15. CASE HeartbeatTimeout /\ UNCHANGED requestVars
    BY <1>15, <1>ends, <1>kept DEF HeartbeatTimeout, requestVars
<1>16. CASE (ClientLinkClosed \/ CloseClient) /\ UNCHANGED requestVars
    <2>1. /\ ClientFades(id) /\ ~cws' /\ UNCHANGED kind
          /\ down' = down \/ down' = [down EXCEPT ![sess] = <<>>]
        BY <1>16, <1>ends DEF ClientLinkClosed, CloseClient, requestVars
    <2>2. PICK s \in Sessions : s = home[id]
        BY <1>home, <2>1
    <2>3. down'[s] = down[s] \/ down'[s] = <<>>
        <3>1. down \in [Sessions -> Seq(RequestMessage)]
            BY DEF KindInv, TypeOK
        <3> QED
            BY <2>1, <3>1
    <2>4. DownKept(s, id)
        BY <1>d, <2>1, <2>3, SameRefl DEF DownKept, LinkUp
    <2> QED
        BY <2>1, <2>2, <2>4, ClientFading
<1> QED
    BY <1>1, <1>2, <1>3, <1>4, <1>5, <1>6, <1>7, <1>8, <1>9, <1>10, <1>11, <1>12, <1>13,
       <1>14, <1>15, <1>16 DEF RequestNext, UDPDriver

-----------------------------------------------------------------------------
(* The server, exchange by exchange                                        *)

LEMMA ServerFading ==
    ASSUME KindInv, KindInv', UNCHANGED <<clientVars, requestVars, sess, cws>>,
           NEW s \in Sessions, NEW id \in Ids, home[id] = s, Good(id), sws'[s] => sws[s],
           ServerFades(s, id), RequestKept(s, id), DownKept(s, id)
    PROVE  Good(id)'
<1>1. UNCHANGED <<home, kind, rcvd, call, reader, pending, interest>>
    BY DEF clientVars, requestVars
<1>2. ClientFades(id) /\ home'[id] = s /\ kind'[id] = kind[id] /\ (LinkUp(s)' => LinkUp(s))
    BY <1>1 DEF ClientFades, LinkUp
<1>3. Fades(s, id)
    BY <1>2 DEF Fades
<1> QED
    BY <1>3, Fading

\* A message that is no chunk is added to the channel.
LEMMA OneMore ==
    ASSUME NEW ch \in Seq(RequestMessage), NEW m \in RequestMessage, NEW id \in Ids,
           ~IsChunk(m, id)
    PROVE  /\ Append(ch, m) \in Seq(RequestMessage)
           /\ \A k \in DOMAIN Append(ch, m) :
                 Append(ch, m)[k] = m \/ \E j \in DOMAIN ch : Append(ch, m)[k] = ch[j]
           /\ \A t : Carries(Append(ch, m), t, id) <=>
                         Carries(ch, t, id) \/ (m.type = t /\ m.id = id)
           /\ \A t : Once(ch, t, id) /\ (m.type # t \/ ~Carries(ch, t, id)) =>
                         Once(Append(ch, m), t, id)
           /\ ResponseFirst(ch, id) => ResponseFirst(Append(ch, m), id)
           /\ ChunksFirst(ch, id) /\ (m.type # "HTTP_BODY_END" \/ ~Carries(ch, "HTTP_BODY_END", id))
                 => ChunksFirst(Append(ch, m), id)
           /\ \A got, top : InFlight(ch, id, got, top) => InFlight(Append(ch, m), id, got, top)
           /\ \A got, top : Reaches(ch, id, got, top) => Reaches(Append(ch, m), id, got, top)
<1> DEFINE new == Append(ch, m)
           n == Len(ch) + 1
<1>1. /\ new \in Seq(RequestMessage)
      /\ DOMAIN new = DOMAIN ch \cup {n}
      /\ \A k \in DOMAIN ch : new[k] = ch[k]
      /\ new[n] = m
    BY AppendElements
<1>2. \A t : Carries(new, t, id) <=> Carries(ch, t, id) \/ (m.type = t /\ m.id = id)
    BY CarriesAppend
<1>3. ResponseFirst(ch, id) => ResponseFirst(new, id)
    BY ResponseFirstAppend
<1>4. ChunksFirst(ch, id) /\ (m.type # "HTTP_BODY_END" \/ ~Carries(ch, "HTTP_BODY_END", id))
      => ChunksFirst(new, id)
    BY ChunksFirstAppend
<1>5. SameIn(new, ch, ChunksOf(id))
    <2>1. <<m>> \in Seq(RequestMessage) /\ ch \o <<m>> = new
        BY AppendIsConcat
    <2>2. \A k \in DOMAIN <<m>> : <<m>>[k] \notin ChunksOf(id)
        BY DEF ChunksOf
    <2> QED
        BY <2>1, <2>2, SameConcat
<1>6. /\ \A got, top : InFlight(ch, id, got, top) => InFlight(new, id, got, top)
      /\ \A got, top : Reaches(ch, id, got, top) => Reaches(new, id, got, top)
    BY <1>1, <1>5, SameChunks
<1> HIDE DEF new, n
<1>7. ASSUME NEW t, Once(ch, t, id), m.type # t \/ ~Carries(ch, t, id) PROVE Once(new, t, id)
    BY <1>1, <1>7 DEF Once, Carries
<1>8. \A k \in DOMAIN new : new[k] = m \/ \E j \in DOMAIN ch : new[k] = ch[j]
    BY <1>1
<1> QED
    BY <1>1, <1>2, <1>3, <1>4, <1>6, <1>7, <1>8 DEF new

\* A query is looked up, or answered.
LEMMA QueryMoves ==
    ASSUME KindInv, HomeInv, UNCHANGED <<clientVars, requestVars, sess, cws, sws>>,
           NEW s \in Sessions, NEW id \in Ids, home[id] = s, kind[id] = "dns", Good(id),
           LinkUp(s) => \/ id \in queries'[s]
                        \/ Carries(down'[s], "DNS_RESPONSE", id)
                        \/ Carries(down'[s], "ERROR", id)
    PROVE  Good(id)'
<1>1. UNCHANGED <<home, kind, rcvd>> /\ (LinkUp(home[id])' => LinkUp(s))
    BY DEF clientVars, requestVars, LinkUp
<1>2. DnsGood(id)
    BY DEF Good
<1>3. DnsGood(id)'
    BY <1>1, <1>2 DEF DnsGood
<1> QED
    BY <1>1, <1>3 DEF Good

\* What a caller waits for while the response is read is its beginning.
LEMMA ResponseIsComing ==
    ASSUME KindInv, HomeInv, NEW s \in Sessions, NEW id \in Ids, home[id] = s, HttpGood(id),
           stage[s][id] = "streaming", id \in pending, call[id] = "waiting", LinkUp(s)
    PROVE  Carries(down[s], "HTTP_RESPONSE", id)
<1>1. ~Carries(up[s], "HTTP_REQUEST", id)
    BY DEF HomeInv, BeginningsAreFresh, Begins, Carries
<1>2. ~Carries(down[s], "ERROR", id)
    BY DEF HttpGood, TrueNews, Carries
<1> QED
    BY <1>1, <1>2 DEF HttpGood

\* A fetch goes on, and says what there is to say of it.
LEMMA FetchMoves ==
    ASSUME KindInv, HomeInv, UNCHANGED <<clientVars, requestVars, sess, cws, sws, produced>>,
           NEW s \in Sessions, NEW id \in Ids, home[id] = s, kind[id] = "http", Good(id),
           NEW how, NEW to, how = stage[s][id], to = stage'[s][id],
           NEW ch, NEW new, ch = down[s], new = down'[s], ~LinkUp(s) => new = ch,
           \/ how = "none" /\ to = "fetching" /\ new = ch
           \/ /\ how \in {"none", "fetching", "streaming"} /\ to = "failed"
              /\ LinkUp(s) => new = Append(ch, Msg("ERROR", id))
           \/ /\ how = "fetching" /\ to = "streaming"
              /\ LinkUp(s) => new = Append(ch, Chunk("HTTP_RESPONSE", id, 1))
           \/ /\ how = "fetching" /\ to = "done"
              /\ LinkUp(s) => new = Append(Append(ch, Chunk("HTTP_RESPONSE", id, 0)),
                                           Msg("HTTP_BODY_END", id))
           \/ /\ how = "streaming" /\ to \in {"done", "cut"}
              /\ LinkUp(s) => new = Append(ch, Msg("HTTP_BODY_END", id))
    PROVE  Good(id)'
<1> DEFINE n == produced[s][id]
           r == rcvd[id]
           error == Msg("ERROR", id)
           begins == Chunk("HTTP_RESPONSE", id, 1)
           isAll == Chunk("HTTP_RESPONSE", id, 0)
           ends == Msg("HTTP_BODY_END", id)
<1>t. ch \in Seq(RequestMessage)
    BY DEF KindInv, TypeOK
<1>h. HttpGood(id)
    BY DEF Good
<1>g. /\ \A k \in DOMAIN ch : ch[k].id = id => TrueNews(ch[k], how, n)
      /\ Once(ch, "HTTP_RESPONSE", id)
      /\ call[id] = "connected" =>
            /\ how \notin {"none", "fetching"}
            /\ ~Carries(ch, "HTTP_RESPONSE", id)
            /\ reader[id] = "none" => how = "done"
      /\ id \in pending /\ call[id] = "waiting" => ResponseFirst(ch, id)
      /\ \A k \in DOMAIN r : r[k] = k
      /\ Len(r) <= n
      /\ Listens(id) => InFlight(ch, id, Len(r), n)
      /\ Listens(id) /\ LinkUp(s) => Reaches(ch, id, Len(r), n)
    BY <1>h DEF HttpGood, Delivery
<1>c. how = "streaming" /\ id \in pending /\ call[id] = "waiting" /\ LinkUp(s) =>
          Carries(ch, "HTTP_RESPONSE", id)
    BY <1>h, ResponseIsComing
<1>n. how \in {"none", "fetching"} => n = 0
    BY DEF HomeInv, WorkIsAtHome
<1>f. /\ home'[id] = s /\ kind'[id] = "http" /\ rcvd'[id] = r /\ produced'[s][id] = n
      /\ call' = call /\ reader' = reader /\ pending' = pending
      /\ (LinkUp(home[id])' <=> LinkUp(s)') /\ (LinkUp(s)' <=> LinkUp(s))
      /\ (Listens(id)' <=> Listens(id))
    BY DEF clientVars, requestVars, LinkUp, Listens
<1>m. /\ error \in RequestMessage /\ begins \in RequestMessage
      /\ isAll \in RequestMessage /\ ends \in RequestMessage
      /\ ~IsChunk(error, id) /\ ~IsChunk(begins, id) /\ ~IsChunk(isAll, id) /\ ~IsChunk(ends, id)
      /\ error.type = "ERROR" /\ begins.type = "HTTP_RESPONSE" /\ isAll.type = "HTTP_RESPONSE"
      /\ ends.type = "HTTP_BODY_END" /\ begins.chunk = 1
      /\ error.id = id /\ begins.id = id /\ isAll.id = id /\ ends.id = id
    <2>1. 0 \in 0 .. MaxChunks + 1 /\ 1 \in 0 .. MaxChunks + 1
        BY WireAssumption
    <2> QED
        BY <2>1 DEF RequestMessage, RequestType, Msg, Chunk, IsChunk
<1> HIDE DEF n, r, error, begins, isAll, ends
<1>1. /\ ~Carries(ch, "ERROR", id) /\ ~Carries(ch, "HTTP_BODY_END", id)
      /\ how # "streaming" => ~Carries(ch, "HTTP_RESPONSE", id)
      /\ \A k \in DOMAIN ch : ch[k].id = id => TrueNews(ch[k], to, n)
      /\ ChunksFirst(ch, id)
    BY <1>g DEF TrueNews, Carries, ChunksFirst
<1>2. call[id] = "connected" => how = "streaming" /\ reader[id] # "none"
    BY <1>g
\* What the new channel is like.
<1> DEFINE Fits ==
        /\ \A k \in DOMAIN new : new[k].id = id => TrueNews(new[k], to, n)
        /\ Once(new, "HTTP_RESPONSE", id)
        /\ call[id] = "connected" => ~Carries(new, "HTTP_RESPONSE", id)
        /\ id \in pending /\ call[id] = "waiting" =>
              /\ ResponseFirst(new, id)
              /\ LinkUp(s) => \/ to = "fetching"
                              \/ Carries(new, "HTTP_RESPONSE", id)
                              \/ Carries(new, "ERROR", id)
        /\ ChunksFirst(new, id)
        /\ Carries(new, "HTTP_BODY_END", id) => LinkUp(s)
        /\ \A got, top : InFlight(ch, id, got, top) => InFlight(new, id, got, top)
        /\ \A got, top : Reaches(ch, id, got, top) => Reaches(new, id, got, top)
<1>3. ASSUME new = ch /\ (to = "fetching" \/ ~LinkUp(s))
      PROVE  Fits
    BY <1>1, <1>2, <1>3, <1>g
<1>4. ASSUME LinkUp(s) /\ how \in {"none", "fetching", "streaming"} /\ to = "failed" /\ new = Append(ch, error)
      PROVE  Fits
    <2>1. TrueNews(error, to, n)
        BY <1>4, <1>m DEF TrueNews
    <2> QED
        BY <1>1, <1>4, <1>g, <1>m, <1>t, <2>1, OneMore
<1>5. ASSUME LinkUp(s) /\ how = "fetching" /\ to = "streaming" /\ new = Append(ch, begins)
      PROVE  Fits
    <2>1. TrueNews(begins, to, n)
        BY <1>5, <1>m DEF TrueNews
    <2> QED
        BY <1>1, <1>2, <1>5, <1>g, <1>m, <1>t, <2>1, OneMore
<1>6. ASSUME LinkUp(s) /\ how = "fetching" /\ to = "done" /\ new = Append(Append(ch, isAll), ends)
      PROVE  Fits
    <2> DEFINE mid == Append(ch, isAll)
    <2>1. TrueNews(isAll, to, n) /\ TrueNews(ends, to, n)
        BY <1>6, <1>m, <1>n DEF TrueNews
    <2>2. /\ mid \in Seq(RequestMessage)
          /\ \A k \in DOMAIN mid : mid[k].id = id => TrueNews(mid[k], to, n)
          /\ Once(mid, "HTTP_RESPONSE", id)
          /\ ~Carries(mid, "HTTP_BODY_END", id) /\ Carries(mid, "HTTP_RESPONSE", id)
          /\ ResponseFirst(ch, id) => ResponseFirst(mid, id)
          /\ ChunksFirst(mid, id)
          /\ \A got, top : InFlight(ch, id, got, top) => InFlight(mid, id, got, top)
          /\ \A got, top : Reaches(ch, id, got, top) => Reaches(mid, id, got, top)
        BY <1>1, <1>6, <1>g, <1>m, <1>t, <2>1, OneMore
    <2> HIDE DEF mid
    <2>3. new = Append(mid, ends)
        BY <1>6 DEF mid
    <2> QED
        BY <1>2, <1>6, <1>g, <1>m, <2>1, <2>2, <2>3, OneMore
<1>7. ASSUME LinkUp(s) /\ how = "streaming" /\ to \in {"done", "cut"} /\ new = Append(ch, ends)
      PROVE  Fits
    <2>1. TrueNews(ends, to, n)
        BY <1>7, <1>m DEF TrueNews
    <2> QED
        BY <1>1, <1>7, <1>c, <1>g, <1>m, <1>t, <2>1, OneMore
<1>8. Fits
    <2> HIDE DEF Fits
    <2>1. CASE LinkUp(s)
        BY <1>3, <1>4, <1>5, <1>6, <1>7, <2>1 DEF error, begins, isAll, ends
    <2>2. CASE ~LinkUp(s)
        BY <1>3, <2>2
    <2> QED
        BY <2>1, <2>2
<1>9. Delivery(r, new, id, n, Listens(id)', LinkUp(s)')
    BY <1>8, <1>f, <1>g DEF Delivery
<1>10. Carries(new, "HTTP_BODY_END", id) =>
           /\ ChunksFirst(new, id)
           /\ Listens(id)' => Reaches(new, id, Len(r), n)
    BY <1>8, <1>f, <1>g
<1>11. to \notin {"none", "fetching"} \/ call[id] # "connected"
    BY <1>2
<1>12. /\ new = down'[s] /\ to = stage'[s][id] /\ n = produced'[s][id] /\ r = rcvd'[id]
       /\ home'[id] = s
    BY <1>f
<1>13. HttpGood(id)'
    BY <1>2, <1>8, <1>9, <1>10, <1>11, <1>12, <1>f DEF HttpGood
<1> QED
    BY <1>13, <1>f DEF Good

\* The next chunk of a response is sent on.
LEMMA ResponseGoesOn ==
    ASSUME KindInv, HomeInv, UNCHANGED <<clientVars, requestVars, sess, cws, sws>>,
           NEW s \in Sessions, NEW id \in Ids, home[id] = s, kind[id] = "http", Good(id),
           stage[s][id] = "streaming", stage' = stage, produced[s][id] < MaxChunks,
           produced'[s][id] = produced[s][id] + 1,
           down'[s] = IF LinkUp(s)
                      THEN Append(down[s], Chunk("HTTP_BODY_CHUNK", id, produced[s][id] + 1))
                      ELSE down[s]
    PROVE  Good(id)'
<1> DEFINE ch == down[s]
           new == down'[s]
           n == produced[s][id]
           r == rcvd[id]
           m == Chunk("HTTP_BODY_CHUNK", id, n + 1)
<1>t. /\ ch \in Seq(RequestMessage) /\ m \in RequestMessage /\ n \in Nat
      /\ r \in Seq(1 .. MaxChunks) /\ Len(r) \in Nat
    <2>1. n \in 0 .. MaxChunks /\ r \in Seq(1 .. MaxChunks) /\ ch \in Seq(RequestMessage)
        BY DEF KindInv, TypeOK, HttpTypeOK
    <2>2. n \in Nat /\ n + 1 \in 0 .. MaxChunks + 1
        BY <2>1, WireAssumption
    <2> QED
        BY <2>1, <2>2 DEF Chunk, RequestMessage, RequestType
<1>m. IsChunk(m, id) /\ m.chunk = n + 1 /\ m.type = "HTTP_BODY_CHUNK" /\ m.id = id
    BY DEF IsChunk, Chunk
<1>h. HttpGood(id)
    BY DEF Good
<1>g. /\ \A k \in DOMAIN ch : ch[k].id = id => TrueNews(ch[k], "streaming", n)
      /\ Once(ch, "HTTP_RESPONSE", id)
      /\ call[id] = "connected" => ~Carries(ch, "HTTP_RESPONSE", id) /\ reader[id] # "none"
      /\ id \in pending /\ call[id] = "waiting" => ResponseFirst(ch, id)
      /\ \A k \in DOMAIN r : r[k] = k
      /\ Len(r) <= n
      /\ Listens(id) => InFlight(ch, id, Len(r), n)
      /\ Listens(id) /\ LinkUp(s) => Reaches(ch, id, Len(r), n)
    BY <1>h DEF HttpGood, Delivery
<1>c. id \in pending /\ call[id] = "waiting" /\ LinkUp(s) => Carries(ch, "HTTP_RESPONSE", id)
    BY <1>h, ResponseIsComing
<1>f. /\ home'[id] = s /\ kind'[id] = "http" /\ rcvd'[id] = r
      /\ call' = call /\ reader' = reader /\ pending' = pending
      /\ (LinkUp(home[id])' <=> LinkUp(s)') /\ (LinkUp(s)' <=> LinkUp(s))
      /\ (Listens(id)' <=> Listens(id))
      /\ new = IF LinkUp(s) THEN Append(ch, m) ELSE ch
    BY DEF clientVars, requestVars, LinkUp, Listens
<1> HIDE DEF ch, new, n, r, m
<1>1. \A k \in DOMAIN ch : ch[k].id = id =>
          /\ TrueNews(ch[k], "streaming", n + 1)
          /\ ch[k].type # "HTTP_BODY_END"
    BY <1>g DEF TrueNews
<1>2. TrueNews(m, "streaming", n + 1)
    BY <1>m DEF TrueNews
<1>3. LinkUp(s) =>
          /\ DOMAIN new = DOMAIN ch \cup {Len(ch) + 1}
          /\ \A k \in DOMAIN ch : new[k] = ch[k]
          /\ new[Len(ch) + 1] = m
    BY <1>f, <1>t, AppendElements
<1>4. \A k \in DOMAIN new : \/ new[k] = m
                            \/ \E j \in DOMAIN ch : new[k] = ch[j]
    BY <1>3, <1>f
<1>5. /\ \A k \in DOMAIN new : new[k].id = id => TrueNews(new[k], "streaming", n + 1)
      /\ ~Carries(new, "HTTP_BODY_END", id)
    BY <1>1, <1>2, <1>4, <1>m DEF Carries
<1>6. Once(new, "HTTP_RESPONSE", id)
    BY <1>3, <1>f, <1>g, <1>m DEF Once
<1>7. Carries(new, "HTTP_RESPONSE", id) <=> Carries(ch, "HTTP_RESPONSE", id)
    BY <1>f, <1>m, <1>t, CarriesAppend
<1>8. id \in pending /\ call[id] = "waiting" =>
          ResponseFirst(new, id) /\ (LinkUp(s) => Carries(new, "HTTP_RESPONSE", id))
    BY <1>7, <1>c, <1>f, <1>g, <1>t, ResponseFirstAppend
<1>9. Listens(id) => /\ InFlight(new, id, Len(r), n + 1)
                     /\ LinkUp(s) => Reaches(new, id, Len(r), n + 1)
    <2>1. CASE LinkUp(s)
        BY <1>f, <1>g, <1>m, <1>t, <2>1, AppendNext
    <2>2. CASE ~LinkUp(s)
        BY <1>f, <1>g, <1>t, <2>2, MoreInFlight
    <2> QED
        BY <2>1, <2>2
<1>10. Delivery(r, new, id, n + 1, Listens(id)', LinkUp(s)')
    BY <1>9, <1>f, <1>g, <1>t DEF Delivery
<1>11. /\ new = down'[s] /\ r = rcvd'[id] /\ home'[id] = s
       /\ stage'[s][id] = "streaming" /\ produced'[s][id] = n + 1
    BY <1>f DEF new, n
<1>12. HttpGood(id)'
    BY <1>5, <1>6, <1>7, <1>8, <1>10, <1>11, <1>f, <1>g DEF HttpGood
<1> QED
    BY <1>12, <1>f DEF Good

\* Something is said of a socket that is no datagram: its end, when it comes.
LEMMA SocketMoves ==
    ASSUME KindInv, HomeInv, UNCHANGED <<clientVars, requestVars, sess, cws, sws>>,
           NEW s \in Sessions, NEW id \in Ids, home[id] = s, kind[id] = "udp", Good(id),
           NEW m \in RequestMessage, m.id = id, ~IsChunk(m, id),
           SentDown(s, id)' = SentDown(s, id),
           LET isOver == loop[s][id] # "none" /\ id \notin sockets[s]
               isOver2 == loop'[s][id] # "none" /\ id \notin sockets'[s]
           IN  IF m.type = "UDP_CLOSE" THEN ~isOver /\ isOver2 ELSE isOver2 <=> isOver,
           down'[s] = IF LinkUp(s) THEN Append(down[s], m) ELSE down[s]
    PROVE  Good(id)'
<1> DEFINE ch == down[s]
           new == down'[s]
           n == SentDown(s, id)
           r == rcvd[id]
           isOver == loop[s][id] # "none" /\ id \notin sockets[s]
           isOver2 == loop'[s][id] # "none" /\ id \notin sockets'[s]
<1>t. ch \in Seq(RequestMessage)
    BY DEF KindInv, TypeOK
<1>g. /\ Carries(ch, "UDP_CLOSE", id) => isOver
      /\ Once(ch, "UDP_CLOSE", id)
      /\ id \in interest /\ LinkUp(s) /\ isOver => Carries(ch, "UDP_CLOSE", id)
      /\ \A k \in DOMAIN r : r[k] = k
      /\ Len(r) <= n
      /\ Listens(id) => InFlight(ch, id, Len(r), n)
      /\ Listens(id) /\ LinkUp(s) => Reaches(ch, id, Len(r), n)
    BY DEF Good, UdpGood, Delivery
<1>f. /\ home'[id] = s /\ kind'[id] = "udp" /\ rcvd'[id] = r /\ interest' = interest
      /\ (LinkUp(home[id])' <=> LinkUp(s)') /\ (LinkUp(s)' <=> LinkUp(s))
      /\ (Listens(id)' <=> Listens(id))
      /\ SentDown(home[id], id)' = n
      /\ new = IF LinkUp(s) THEN Append(ch, m) ELSE ch
      /\ IF m.type = "UDP_CLOSE" THEN ~isOver /\ isOver2 ELSE isOver2 <=> isOver
    BY DEF clientVars, requestVars, LinkUp, Listens, SentDown
<1> HIDE DEF ch, new, n, r, isOver, isOver2
<1>1. LinkUp(s) =>
          /\ \A t : Carries(new, t, id) <=> Carries(ch, t, id) \/ m.type = t
          /\ Once(new, "UDP_CLOSE", id)
          /\ \A got, top : InFlight(ch, id, got, top) => InFlight(new, id, got, top)
          /\ \A got, top : Reaches(ch, id, got, top) => Reaches(new, id, got, top)
    BY <1>f, <1>g, <1>t, OneMore
<1>2. /\ Carries(new, "UDP_CLOSE", id) => isOver2
      /\ Once(new, "UDP_CLOSE", id)
      /\ id \in interest /\ LinkUp(s) /\ isOver2 => Carries(new, "UDP_CLOSE", id)
    BY <1>1, <1>f, <1>g
<1>3. Delivery(r, new, id, n, Listens(id)', LinkUp(s)')
    BY <1>1, <1>f, <1>g DEF Delivery
<1>4. /\ new = down'[s] /\ r = rcvd'[id]
      /\ isOver2 <=> loop'[s][id] # "none" /\ id \notin sockets'[s]
    BY <1>f DEF new, isOver2
<1>5. UdpGood(id)'
    BY <1>2, <1>3, <1>4, <1>f DEF UdpGood
<1> QED
    BY <1>5, <1>f DEF Good

\* The datagram that the loop holds is sent on.
LEMMA DatagramGoesOn ==
    ASSUME KindInv, HomeInv, UNCHANGED <<clientVars, requestVars, sess, cws, sws>>,
           NEW s \in Sessions, NEW id \in Ids, home[id] = s, kind[id] = "udp", Good(id),
           loop[s][id] = "holding", loop'[s][id] = "receiving", UNCHANGED <<sockets, datagrams>>,
           down'[s] = IF LinkUp(s)
                      THEN Append(down[s], Chunk("UDP_DATA", id, datagrams[s][id]))
                      ELSE down[s]
    PROVE  Good(id)'
<1> DEFINE ch == down[s]
           new == down'[s]
           n == SentDown(s, id)
           r == rcvd[id]
           m == Chunk("UDP_DATA", id, datagrams[s][id])
           isOver == loop[s][id] # "none" /\ id \notin sockets[s]
<1>d. datagrams[s][id] \in 0 .. MaxChunks /\ datagrams[s][id] # 0
    BY DEF KindInv, TypeOK, UdpTypeOK, ServerAgrees
<1>n. n \in Nat /\ datagrams[s][id] = n + 1
    BY <1>d, WireAssumption DEF SentDown
<1>t. /\ ch \in Seq(RequestMessage) /\ m \in RequestMessage
      /\ r \in Seq(1 .. MaxChunks) /\ Len(r) \in Nat
    <2>1. r \in Seq(1 .. MaxChunks) /\ ch \in Seq(RequestMessage)
        BY DEF KindInv, TypeOK
    <2>2. datagrams[s][id] \in 0 .. MaxChunks + 1
        BY <1>d, WireAssumption
    <2> QED
        BY <2>1, <2>2 DEF Chunk, RequestMessage, RequestType
<1>m. IsChunk(m, id) /\ m.chunk = n + 1 /\ m.type = "UDP_DATA" /\ m.id = id
    BY <1>n DEF IsChunk, Chunk
<1>g. /\ Carries(ch, "UDP_CLOSE", id) => isOver
      /\ Once(ch, "UDP_CLOSE", id)
      /\ id \in interest /\ LinkUp(s) /\ isOver => Carries(ch, "UDP_CLOSE", id)
      /\ \A k \in DOMAIN r : r[k] = k
      /\ Len(r) <= n
      /\ Listens(id) => InFlight(ch, id, Len(r), n)
      /\ Listens(id) /\ LinkUp(s) => Reaches(ch, id, Len(r), n)
    BY DEF Good, UdpGood, Delivery
<1>f. /\ home'[id] = s /\ kind'[id] = "udp" /\ rcvd'[id] = r /\ interest' = interest
      /\ (LinkUp(home[id])' <=> LinkUp(s)') /\ (LinkUp(s)' <=> LinkUp(s))
      /\ (Listens(id)' <=> Listens(id))
      /\ new = IF LinkUp(s) THEN Append(ch, m) ELSE ch
      /\ isOver <=> loop'[s][id] # "none" /\ id \notin sockets'[s]
    BY DEF clientVars, requestVars, LinkUp, Listens
<1>s. SentDown(home[id], id)' = n + 1
    BY <1>f, <1>n DEF SentDown
<1> HIDE DEF ch, new, n, r, m, isOver
<1>1. LinkUp(s) =>
          /\ DOMAIN new = DOMAIN ch \cup {Len(ch) + 1}
          /\ \A k \in DOMAIN ch : new[k] = ch[k]
          /\ new[Len(ch) + 1] = m
    BY <1>f, <1>t, AppendElements
<1>2. Once(new, "UDP_CLOSE", id)
    BY <1>1, <1>f, <1>g, <1>m DEF Once
<1>3. Carries(new, "UDP_CLOSE", id) <=> Carries(ch, "UDP_CLOSE", id)
    BY <1>f, <1>m, <1>t, CarriesAppend
<1>4. Listens(id) => /\ InFlight(new, id, Len(r), n + 1)
                     /\ LinkUp(s) => Reaches(new, id, Len(r), n + 1)
    <2>1. CASE LinkUp(s)
        BY <1>f, <1>g, <1>m, <1>n, <1>t, <2>1, AppendNext
    <2>2. CASE ~LinkUp(s)
        BY <1>f, <1>g, <1>n, <1>t, <2>2, MoreInFlight
    <2> QED
        BY <2>1, <2>2
<1>5. Delivery(r, new, id, n + 1, Listens(id)', LinkUp(s)')
    BY <1>4, <1>f, <1>g, <1>n, <1>t DEF Delivery
<1>6. new = down'[s] /\ r = rcvd'[id]
    BY <1>f DEF new
<1>7. UdpGood(id)'
    BY <1>2, <1>3, <1>5, <1>6, <1>f, <1>g, <1>s DEF UdpGood
<1> QED
    BY <1>7, <1>f DEF Good

\* What the server does for one exchange, or in another session, leaves the
\* others as they are.
Undisturbed(s, id) ==
    /\ stage'[s][id] = stage[s][id] /\ produced'[s][id] = produced[s][id]
    /\ loop'[s][id] = loop[s][id] /\ datagrams'[s][id] = datagrams[s][id]
    /\ id \in sockets'[s] <=> id \in sockets[s]
    /\ id \in queries[s] => id \in queries'[s]

LEMMA UndisturbedFades ==
    ASSUME KindInv, KindInv', UNCHANGED <<clientVars, requestVars, sess, cws>>,
           NEW s \in Sessions, NEW id \in Ids, home[id] = s, Good(id), sws'[s] => sws[s],
           Undisturbed(s, id), DownKept(s, id),
           \/ up'[s] = up[s]
           \/ ~sws'[s]
           \/ /\ up[s] # <<>> /\ up'[s] = Tail(up[s])
              /\ Head(up[s]).id # id \/ Head(up[s]).type \notin {"DNS_QUERY", "HTTP_REQUEST"}
    PROVE  Good(id)'
<1>1. kind' = kind
    BY DEF requestVars
<1>2. ServerFades(s, id)
    BY <1>1 DEF ServerFades, Undisturbed, SentDown
<1>3. RequestKept(s, id)
    <2>1. up[s] \in Seq(RequestMessage)
        BY DEF KindInv, TypeOK
    <2> QED
        BY <2>1, CarriesTail DEF RequestKept, Undisturbed, LinkUp
<1> QED
    BY <1>2, <1>3, ServerFading

LEMMA RepliesKeep ==
    ASSUME KindInv, HomeInv, NEW s \in Sessions, NEW id \in Ids, NEW z \in Sessions,
           \/ down'[s] = down[s]
           \/ \E m \in RequestMessage : Reply(z, m) /\ (z # s \/ m.id # id)
           \/ \E m \in RequestMessage, n \in RequestMessage :
                 ReplyTwice(z, m, n) /\ (z # s \/ (m.id # id /\ n.id # id))
    PROVE  DownKept(s, id)
<1>t. down[s] \in Seq(RequestMessage)
    BY DEF KindInv, TypeOK
<1>1. CASE down'[s] = down[s]
    BY <1>1, <1>t, SameRefl DEF DownKept
<1>2. ASSUME NEW ms \in Seq(RequestMessage), \A k \in DOMAIN ms : ms[k].id # id,
             down'[s] = down[s] \o ms
      PROVE  DownKept(s, id)
    <2>1. \A k \in DOMAIN ms : ms[k] \notin Of(id)
        BY <1>2 DEF Of
    <2> QED
        BY <1>2, <1>t, <2>1, SameConcat DEF DownKept
<1>3. ASSUME NEW m \in RequestMessage, Reply(z, m), z # s \/ m.id # id
      PROVE  DownKept(s, id)
    <2>1. down'[s] = IF s = z /\ LinkUp(z) THEN Append(down[s], m) ELSE down[s]
        BY <1>3, ReplyIsHeard
    <2>2. <<m>> \in Seq(RequestMessage) /\ (\A k \in DOMAIN <<m>> : <<m>>[k] = m)
          /\ down[s] \o <<m>> = Append(down[s], m)
        BY <1>t, AppendIsConcat
    <2>3. CASE z = s
        BY <1>1, <1>2, <1>3, <2>1, <2>2, <2>3
    <2>4. CASE z # s
        BY <1>1, <2>1, <2>4
    <2> QED
        BY <2>3, <2>4
<1>4. ASSUME NEW m \in RequestMessage, NEW n \in RequestMessage, ReplyTwice(z, m, n),
             z # s \/ (m.id # id /\ n.id # id)
      PROVE  DownKept(s, id)
    <2>1. down'[s] = IF s = z /\ LinkUp(z) THEN down[s] \o <<m, n>> ELSE down[s]
        BY <1>4, ReplyTwiceIsHeard
    <2>2. <<m, n>> \in Seq(RequestMessage)
          /\ (\A k \in DOMAIN <<m, n>> : <<m, n>>[k] = m \/ <<m, n>>[k] = n)
        OBVIOUS
    <2>3. CASE z = s
        BY <1>1, <1>2, <1>4, <2>1, <2>2, <2>3
    <2>4. CASE z # s
        BY <1>1, <2>1, <2>4
    <2> QED
        BY <2>3, <2>4
<1> QED
    BY <1>1, <1>3, <1>4

\* What the server says.
LEMMA ServerMessages ==
    ASSUME NEW id \in Ids
    PROVE  /\ \A t \in RequestType : Msg(t, id) \in RequestMessage /\ Msg(t, id).id = id
           /\ \A t \in RequestType, b \in {0, 1} : Chunk(t, id, b) \in RequestMessage /\ Chunk(t, id, b).id = id
           /\ \A n \in 0 .. MaxChunks, t \in RequestType :
                 Chunk(t, id, n) \in RequestMessage /\ Chunk(t, id, n).id = id
           /\ {"ERROR", "HTTP_BODY_END", "HTTP_RESPONSE", "HTTP_BODY_CHUNK", "DNS_RESPONSE",
               "UDP_BIND_ACK", "UDP_CLOSE", "UDP_DATA"} \subseteq RequestType
<1>1. 0 \in 0 .. MaxChunks + 1 /\ 1 \in 0 .. MaxChunks + 1 /\ 0 .. MaxChunks \subseteq 0 .. MaxChunks + 1
    BY WireAssumption
<1> QED
    BY <1>1 DEF RequestMessage, RequestType, Msg, Chunk

\* The server takes a message.
LEMMA MessageServes ==
    ASSUME KindInv, HomeInv, KindInv', UNCHANGED <<clientVars, requestVars, sess, cws, sws>>,
           NEW s \in Sessions, NEW id \in Ids, home[id] = s, Good(id),
           NEW z \in Sessions, NEW m, Receive(z, m),
           \/ HandleQuery(z, m) /\ UNCHANGED <<httpVars, udpVars>>
           \/ HttpReceive(z, m) /\ UNCHANGED <<dnsVars, udpVars>>
           \/ UdpReceive(z, m) /\ UNCHANGED <<dnsVars, httpVars>>
           \/ m.type = "ERROR" /\ UNCHANGED <<dnsVars, httpVars, udpVars, down>>
    PROVE  Good(id)'
<1>t. /\ up \in [Sessions -> Seq(Asked)] /\ queries \in [Sessions -> SUBSET Ids]
      /\ stage \in [Sessions -> [Ids -> Stage]] /\ sockets \in [Sessions -> SUBSET Ids]
      /\ loop \in [Sessions -> [Ids -> Loop]] /\ down[s] \in Seq(RequestMessage)
    BY DEF KindInv, TypeOK, HttpTypeOK, DnsTypeOK, UdpTypeOK, ChannelsAgree
<1>m. m \in Asked /\ m \in RequestMessage /\ m.id \in Ids
    BY <1>t, ReceiveIsTyped, MessagesAgree
<1>u. /\ up[z] # <<>> /\ m = Head(up[z]) /\ up'[z] = Tail(up[z])
      /\ \A y \in Sessions : y # z => up'[y] = up[y]
    BY <1>t DEF Receive
<1>b. Begins(m) => stage[z][m.id] = "none" /\ loop[z][m.id] = "none"
    <2>1. up[z] \in Seq(Asked)
        BY <1>t
    <2>2. 1 \in DOMAIN up[z] /\ up[z][1] = m
        BY <1>u, <2>1
    <2> QED
        BY <2>2 DEF HomeInv, BeginningsAreFresh
<1>e. /\ Msg("ERROR", m.id) \in RequestMessage /\ Msg("UDP_CLOSE", m.id) \in RequestMessage
      /\ Msg("UDP_BIND_ACK", m.id) \in RequestMessage
      /\ \A t : Msg(t, m.id).id = m.id /\ Msg(t, m.id).type = t
    BY <1>m, ServerMessages DEF Msg
<1>fade. ASSUME Undisturbed(s, id),
                \/ down'[s] = down[s]
                \/ \E n \in RequestMessage : Reply(z, n) /\ (z # s \/ n.id # id),
                z # s \/ m.id # id \/ m.type \notin {"DNS_QUERY", "HTTP_REQUEST"}
         PROVE  Good(id)'
    <2>1. DownKept(s, id)
        BY <1>fade, RepliesKeep
    <2> QED
        BY <1>fade, <1>u, <2>1, UndisturbedFades
<1>1. CASE z # s \/ m.id # id
    <2>1. CASE HandleQuery(z, m) /\ UNCHANGED <<httpVars, udpVars>>
        <3>1. Undisturbed(s, id)
            BY <1>1, <1>t, <2>1 DEF HandleQuery, Undisturbed, dnsVars, httpVars, udpVars
        <3>2. down' = down \/ Reply(z, Msg("ERROR", m.id))
            BY <2>1 DEF HandleQuery
        <3> QED
            BY <1>1, <1>e, <1>fade, <3>1, <3>2
    <2>2. CASE HttpReceive(z, m) /\ UNCHANGED <<dnsVars, udpVars>>
        <3>1. Undisturbed(s, id)
            BY <1>1, <1>t, <2>2 DEF HttpReceive, HandleRequest, HandleBodyChunk, HandleBodyEnd, SetStage,
                                    Undisturbed, dnsVars, udpVars
        <3>2. down' = down \/ Reply(z, Msg("ERROR", m.id))
            BY <2>2 DEF HttpReceive, HandleRequest, HandleBodyChunk, HandleBodyEnd
        <3> QED
            BY <1>1, <1>e, <1>fade, <3>1, <3>2
    <2>3. CASE UdpReceive(z, m) /\ UNCHANGED <<dnsVars, httpVars>>
        <3>1. Undisturbed(s, id)
            BY <1>1, <1>t, <2>3 DEF UdpReceive, HandleBind, HandleUdpClose, HandleUdpData, CloseSocket,
                                    SetLoop, Undisturbed, dnsVars, httpVars, udpVars
        <3>2. \/ down' = down \/ Reply(z, Msg("ERROR", m.id))
              \/ Reply(z, Msg("UDP_BIND_ACK", m.id)) \/ Reply(z, Msg("UDP_CLOSE", m.id))
            BY <2>3 DEF UdpReceive, HandleBind, HandleUdpClose, HandleUdpData, CloseSocket
        <3> QED
            BY <1>1, <1>e, <1>fade, <3>1, <3>2
    <2>4. CASE UNCHANGED <<dnsVars, httpVars, udpVars, down>>
        <3>1. Undisturbed(s, id)
            BY <2>4 DEF Undisturbed, dnsVars, httpVars, udpVars
        <3> QED
            BY <1>1, <1>fade, <2>4, <3>1
    <2> QED
        BY <2>1, <2>2, <2>3, <2>4
<1>2. CASE z = s /\ m.id = id /\ HandleQuery(z, m)
    <2>1. kind[id] = "dns"
        BY <1>2, <1>m DEF HandleQuery, Asked
    <2>2. CASE queries' = [queries EXCEPT ![s] = @ \cup {id}]
        BY <1>t, <2>1, <2>2, QueryMoves
    <2>3. CASE Reply(s, Msg("ERROR", id))
        <3>1. LinkUp(s) => down'[s] = Append(down[s], Msg("ERROR", id))
            BY <2>3, ReplyIsHeard
        <3>2. Carries(Append(down[s], Msg("ERROR", id)), "ERROR", id)
            BY <1>2, <1>e, <1>t, CarriesAppend
        <3>3. LinkUp(s) => Carries(down'[s], "ERROR", id)
            BY <3>1, <3>2
        <3> QED
            BY <2>1, <3>3, QueryMoves
    <2> QED
        BY <1>2, <2>2, <2>3 DEF HandleQuery
<1>3. CASE z = s /\ m.id = id /\ HandleRequest(s, m)
    <2>1. kind[id] = "http" /\ stage[s][id] = "none" /\ produced' = produced
        BY <1>3, <1>b, <1>m DEF HandleRequest, Asked, Begins
    <2>2. CASE stage' = [stage EXCEPT ![s][id] = "fetching"] /\ down' = down
        <3>1. stage'[s][id] = "fetching" /\ down'[s] = down[s]
            BY <1>t, <2>2
        <3> QED
            BY <2>1, <3>1, FetchMoves
    <2>3. CASE stage' = [stage EXCEPT ![s][id] = "failed"] /\ Reply(s, Msg("ERROR", id))
        <3>1. stage'[s][id] = "failed"
            BY <1>t, <2>3
        <3>2. down'[s] = IF LinkUp(s) THEN Append(down[s], Msg("ERROR", id)) ELSE down[s]
            BY <2>3, ReplyIsHeard
        <3> QED
            BY <2>1, <3>1, <3>2, FetchMoves
    <2> QED
        BY <1>3, <2>2, <2>3 DEF HandleRequest, SetStage
<1>4. CASE z = s /\ m.id = id /\ (HandleBodyChunk(s, m) \/ HandleBodyEnd(s, m))
           /\ UNCHANGED <<dnsVars, udpVars>>
    <2>1. Undisturbed(s, id) /\ down' = down /\ m.type \notin {"DNS_QUERY", "HTTP_REQUEST"}
        BY <1>4 DEF HandleBodyChunk, HandleBodyEnd, Undisturbed, dnsVars, udpVars
    <2> QED
        BY <1>fade, <2>1
<1>5. CASE z = s /\ m.id = id /\ HandleBind(s, m)
    <2>1. kind[id] = "udp" /\ loop[s][id] = "none" /\ datagrams' = datagrams
        BY <1>5, <1>b, <1>m DEF HandleBind, Asked, Begins
    <2>2. id \notin sockets[s]
        BY <2>1 DEF HomeInv, MapsAreClean
    <2>3. CASE /\ sockets' = [sockets EXCEPT ![s] = @ \cup {id}]
               /\ loop' = [loop EXCEPT ![s][id] = "receiving"]
               /\ Reply(s, Msg("UDP_BIND_ACK", id))
        <3>1. id \in sockets'[s] /\ loop'[s][id] = "receiving"
            BY <1>t, <2>3
        <3>2. SentDown(s, id)' = SentDown(s, id)
            BY <2>1, <3>1 DEF SentDown, requestVars
        <3>3. down'[s] = IF LinkUp(s) THEN Append(down[s], Msg("UDP_BIND_ACK", id)) ELSE down[s]
            BY <2>3, ReplyIsHeard
        <3> QED
            BY <1>5, <1>e, <2>1, <2>2, <3>1, <3>2, <3>3, SocketMoves DEF IsChunk
    <2>4. CASE Reply(s, Msg("ERROR", id)) /\ UNCHANGED <<sockets, loop>>
        <3>1. SentDown(s, id)' = SentDown(s, id)
            BY <2>1, <2>4 DEF SentDown, requestVars
        <3>2. down'[s] = IF LinkUp(s) THEN Append(down[s], Msg("ERROR", id)) ELSE down[s]
            BY <2>4, ReplyIsHeard
        <3> QED
            BY <1>5, <1>e, <2>1, <2>2, <2>4, <3>1, <3>2, SocketMoves DEF IsChunk
    <2> QED
        BY <1>5, <2>3, <2>4 DEF HandleBind, SetLoop
<1>6. CASE z = s /\ m.id = id /\ HandleUdpClose(s, m) /\ UNCHANGED <<dnsVars, httpVars>>
    <2>1. kind[id] = "udp" /\ m.type = "UDP_CLOSE" /\ UNCHANGED <<loop, datagrams>>
        BY <1>6, <1>m DEF HandleUdpClose, Asked
    <2>2. CASE id \in sockets[s]
        <3>1. loop[s][id] # "none"
            BY <2>2 DEF HomeInv, MapsAreClean
        <3>2. sockets' = [sockets EXCEPT ![s] = @ \ {id}] /\ Reply(s, Msg("UDP_CLOSE", id))
            BY <1>6, <2>2 DEF HandleUdpClose, CloseSocket
        <3>3. id \notin sockets'[s]
            BY <1>t, <3>2
        <3>4. down'[s] = IF LinkUp(s) THEN Append(down[s], Msg("UDP_CLOSE", id)) ELSE down[s]
            BY <3>2, ReplyIsHeard
        <3>5. SentDown(s, id)' = SentDown(s, id)
            BY <2>1 DEF SentDown, requestVars
        <3> QED
            BY <1>6, <1>e, <2>1, <2>2, <3>1, <3>3, <3>4, <3>5, SocketMoves DEF IsChunk
    <2>3. CASE id \notin sockets[s]
        <3>1. UNCHANGED <<sockets, down>>
            BY <1>6, <2>3 DEF HandleUdpClose, CloseSocket
        <3>2. Undisturbed(s, id)
            BY <1>6, <2>1, <3>1 DEF Undisturbed, dnsVars, httpVars
        <3> QED
            BY <1>fade, <2>1, <3>1, <3>2
    <2> QED
        BY <2>2, <2>3
<1>7. CASE UNCHANGED <<dnsVars, httpVars, udpVars, down>> /\ m.type \notin {"DNS_QUERY", "HTTP_REQUEST"}
    <2>1. Undisturbed(s, id)
        BY <1>7 DEF Undisturbed, dnsVars, httpVars, udpVars
    <2> QED
        BY <1>7, <1>fade, <2>1
<1>8. HandleUdpData(m) => UNCHANGED <<udpVars, down>> /\ m.type \notin {"DNS_QUERY", "HTTP_REQUEST"}
    BY DEF HandleUdpData
<1>9. m.type = "ERROR" => m.type \notin {"DNS_QUERY", "HTTP_REQUEST"}
    OBVIOUS
<1> QED
    BY <1>1, <1>2, <1>3, <1>4, <1>5, <1>6, <1>7, <1>8, <1>9 DEF HttpReceive, UdpReceive

\* The transport is disconnected, or closed.
LEMMA TransportServes ==
    ASSUME KindInv, HomeInv, KindInv', UNCHANGED <<clientVars, requestVars>>,
           NEW s \in Sessions, NEW id \in Ids, home[id] = s, Good(id), NEW z \in Sessions,
           ServerLinkClosed(z) \/ ServerHeartbeatTimeout(z) \/ CloseTransport(z)
    PROVE  Good(id)'
<1>t. /\ up \in [Sessions -> Seq(Asked)] /\ sws \in [Sessions -> BOOLEAN]
      /\ sockets \in [Sessions -> SUBSET Ids] /\ down[s] \in Seq(RequestMessage)
    BY DEF KindInv, TypeOK, UdpTypeOK, ChannelsAgree
<1>1. /\ UNCHANGED <<sess, cws, down, queries, stage, produced, loop, datagrams>>
      /\ z # s => sockets'[s] = sockets[s] /\ up'[s] = up[s] /\ sws'[s] = sws[s]
    BY <1>t DEF ServerLinkClosed, ServerHeartbeatTimeout, CloseTransport, LinkLost, HeartbeatLost,
                EndTransport, CloseSockets, AbortAll, dnsVars, httpVars, udpVars
<1>2. DownKept(s, id)
    BY <1>1, RepliesKeep
<1>3. CASE z # s
    <2>1. Undisturbed(s, id)
        BY <1>1, <1>3 DEF Undisturbed
    <2> QED
        BY <1>1, <1>2, <1>3, <2>1, UndisturbedFades
<1>4. CASE z = s /\ (ServerLinkClosed(s) \/ ServerHeartbeatTimeout(s))
    <2>1. Undisturbed(s, id)
        BY <1>1, <1>4 DEF Undisturbed, ServerLinkClosed, ServerHeartbeatTimeout, udpVars
    <2>2. ~sws'[s] \/ (up'[s] = up[s] /\ sws'[s] = sws[s])
        BY <1>t, <1>4 DEF ServerLinkClosed, ServerHeartbeatTimeout, LinkLost, HeartbeatLost
    <2> QED
        BY <1>1, <1>2, <2>1, <2>2, UndisturbedFades
<1>5. CASE z = s /\ CloseTransport(s)
    <2>1. ~sws'[s] /\ id \notin sockets'[s]
        BY <1>t, <1>5 DEF CloseTransport, EndTransport, CloseSockets
    <2>2. ServerFades(s, id)
        BY <1>1, <2>1 DEF ServerFades, SentDown, LinkUp, requestVars
    <2>3. RequestKept(s, id)
        BY <2>1 DEF RequestKept, LinkUp
    <2> QED
        BY <1>1, <1>2, <2>1, <2>2, <2>3, ServerFading
<1> QED
    BY <1>3, <1>4, <1>5

\* A step of a lookup, a fetch or a receive loop leaves other exchanges alone.
LEMMA OthersAreServed ==
    ASSUME KindInv, HomeInv, KindInv', UNCHANGED <<clientVars, requestVars, sess, cws, sws, up>>,
           NEW s \in Sessions, NEW id \in Ids, home[id] = s, Good(id),
           NEW z \in Sessions, NEW x \in Ids, z # s \/ x # id,
           \/ DnsStep(z, x) /\ UNCHANGED <<httpVars, udpVars>>
           \/ HttpStep(z, x) /\ UNCHANGED <<dnsVars, udpVars>>
           \/ UdpStep(z, x) /\ UNCHANGED <<dnsVars, httpVars>>
    PROVE  Good(id)'
<1>t. /\ queries \in [Sessions -> SUBSET Ids]
      /\ stage \in [Sessions -> [Ids -> Stage]] /\ produced \in [Sessions -> [Ids -> 0 .. MaxChunks]]
      /\ sockets \in [Sessions -> SUBSET Ids] /\ loop \in [Sessions -> [Ids -> Loop]]
      /\ datagrams \in [Sessions -> [Ids -> 0 .. MaxChunks]]
    BY DEF KindInv, TypeOK, HttpTypeOK, DnsTypeOK, UdpTypeOK
<1>m. /\ \A t \in RequestType : Msg(t, x) \in RequestMessage /\ Msg(t, x).id = x
      /\ \A n \in 0 .. MaxChunks + 1, t \in RequestType :
            Chunk(t, x, n) \in RequestMessage /\ Chunk(t, x, n).id = x
    <2>1. 0 \in 0 .. MaxChunks + 1
        BY WireAssumption
    <2> QED
        BY <2>1 DEF RequestMessage, Msg, Chunk
<1>r. /\ {"ERROR", "HTTP_BODY_END", "HTTP_RESPONSE", "HTTP_BODY_CHUNK", "DNS_RESPONSE",
          "UDP_CLOSE", "UDP_DATA"} \subseteq RequestType
      /\ 0 \in 0 .. MaxChunks + 1 /\ 1 \in 0 .. MaxChunks + 1
      /\ \A n \in 0 .. MaxChunks : n \in 0 .. MaxChunks + 1 /\ n + 1 \in 0 .. MaxChunks + 1
    BY WireAssumption DEF RequestType
<1>fade. ASSUME Undisturbed(s, id),
                \/ down' = down
                \/ \E n \in RequestMessage : Reply(z, n) /\ n.id = x
                \/ \E n \in RequestMessage, k \in RequestMessage :
                      ReplyTwice(z, n, k) /\ n.id = x /\ k.id = x
         PROVE  Good(id)'
    <2>1. \/ down'[s] = down[s]
          \/ \E n \in RequestMessage : Reply(z, n) /\ (z # s \/ n.id # id)
          \/ \E n \in RequestMessage, k \in RequestMessage :
                ReplyTwice(z, n, k) /\ (z # s \/ (n.id # id /\ k.id # id))
        BY <1>fade
    <2>2. DownKept(s, id)
        BY <2>1, RepliesKeep
    <2> QED
        BY <1>fade, <2>2, UndisturbedFades
<1>1. CASE DnsStep(z, x) /\ UNCHANGED <<httpVars, udpVars>>
    <2>1. Undisturbed(s, id)
        BY <1>1, <1>t DEF DnsStep, QueryTimeout, LookupEnds, Undisturbed, httpVars, udpVars
    <2>2. \E t \in {"ERROR", "DNS_RESPONSE"} : Reply(z, Msg(t, x))
        BY <1>1 DEF DnsStep, QueryTimeout, LookupEnds
    <2> QED
        BY <1>fade, <1>m, <1>r, <2>1, <2>2
<1>2. CASE HttpStep(z, x) /\ UNCHANGED <<dnsVars, udpVars>>
    <2>1. stage'[s][id] = stage[s][id] /\ produced'[s][id] = produced[s][id]
        BY <1>2, <1>t DEF HttpStep, FetchEnds, FetchFails, Responds, RespondsWithoutBody, ReadBody,
                          BodyDone, CutOff, ReadFails, BodyCancelled, SetStage
    <2>2. Undisturbed(s, id)
        BY <1>2, <2>1 DEF Undisturbed, dnsVars, udpVars
    <2>3. produced[z][x] \in 0 .. MaxChunks
        BY <1>t
    <2>4. CASE ReadBody(z, x)
        <3>1. Reply(z, Chunk("HTTP_BODY_CHUNK", x, produced[z][x] + 1))
            BY <2>4 DEF ReadBody
        <3> QED
            BY <1>fade, <1>m, <1>r, <2>2, <2>3, <3>1
    <2>5. CASE RespondsWithoutBody(z, x)
        <3>1. ReplyTwice(z, Chunk("HTTP_RESPONSE", x, 0), Msg("HTTP_BODY_END", x))
            BY <2>5 DEF RespondsWithoutBody
        <3> QED
            BY <1>fade, <1>m, <1>r, <2>2, <3>1
    <2>6. CASE Responds(z, x)
        <3>1. Reply(z, Chunk("HTTP_RESPONSE", x, 1))
            BY <2>6 DEF Responds
        <3> QED
            BY <1>fade, <1>m, <1>r, <2>2, <3>1
    <2>7. CASE FetchFails(z, x) \/ BodyDone(z, x) \/ CutOff(z, x) \/ ReadFails(z, x)
        <3>1. \E t \in {"ERROR", "HTTP_BODY_END"} : Reply(z, Msg(t, x))
            BY <2>7 DEF FetchFails, BodyDone, CutOff, ReadFails
        <3> QED
            BY <1>fade, <1>m, <1>r, <2>2, <3>1
    <2>8. CASE BodyCancelled(z, x)
        BY <1>fade, <2>2, <2>8 DEF BodyCancelled, wireVars
    <2> QED
        BY <1>2, <2>4, <2>5, <2>6, <2>7, <2>8 DEF HttpStep, FetchEnds
<1>3. CASE UdpStep(z, x) /\ UNCHANGED <<dnsVars, httpVars>>
    <2>1. /\ loop'[s][id] = loop[s][id] /\ datagrams'[s][id] = datagrams[s][id]
          /\ id \in sockets'[s] <=> id \in sockets[s]
        BY <1>3, <1>t DEF UdpStep, Datagram, SendDatagram, LoopEnds, SetLoop, CloseSocket
    <2>2. Undisturbed(s, id)
        BY <1>3, <2>1 DEF Undisturbed, dnsVars, httpVars
    <2>3. datagrams[z][x] \in 0 .. MaxChunks
        BY <1>t
    <2>4. CASE SendDatagram(z, x)
        <3>1. Reply(z, Chunk("UDP_DATA", x, datagrams[z][x]))
            BY <2>4 DEF SendDatagram
        <3> QED
            BY <1>fade, <1>m, <1>r, <2>2, <2>3, <3>1
    <2>5. CASE LoopEnds(z, x)
        <3>1. down' = down \/ Reply(z, Msg("UDP_CLOSE", x))
            BY <2>5 DEF LoopEnds, CloseSocket
        <3> QED
            BY <1>fade, <1>m, <1>r, <2>2, <3>1
    <2>6. CASE Datagram(z, x)
        BY <1>fade, <2>2, <2>6 DEF Datagram, wireVars
    <2> QED
        BY <1>3, <2>4, <2>5, <2>6 DEF UdpStep
<1> QED
    BY <1>1, <1>2, <1>3

\* A lookup ends, or its timer fires.
LEMMA LookupServes ==
    ASSUME KindInv, HomeInv, KindInv', UNCHANGED <<clientVars, requestVars, sess, cws, sws, up>>,
           NEW s \in Sessions, NEW id \in Ids, home[id] = s, Good(id), DnsStep(s, id)
    PROVE  Good(id)'
<1>1. kind[id] = "dns" /\ down[s] \in Seq(RequestMessage)
    BY DEF KindInv, TypeOK, ServerAgrees, DnsStep, QueryTimeout, LookupEnds
<1>2. PICK t \in {"DNS_RESPONSE", "ERROR"} : Reply(s, Msg(t, id))
    BY DEF DnsStep, QueryTimeout, LookupEnds
<1>3. Msg(t, id) \in RequestMessage /\ Msg(t, id).id = id /\ Msg(t, id).type = t
    BY ServerMessages DEF Msg
<1>4. LinkUp(s) => down'[s] = Append(down[s], Msg(t, id))
    BY <1>2, ReplyIsHeard
<1>5. Carries(Append(down[s], Msg(t, id)), t, id)
    BY <1>1, <1>3, CarriesAppend
<1>6. LinkUp(s) => Carries(down'[s], t, id)
    BY <1>4, <1>5
<1> QED
    BY <1>1, <1>6, QueryMoves

\* A fetch goes on.
LEMMA FetchServes ==
    ASSUME KindInv, HomeInv, KindInv', UNCHANGED <<clientVars, requestVars, sess, cws, sws, up>>,
           NEW s \in Sessions, NEW id \in Ids, home[id] = s, Good(id),
           HttpStep(s, id), UNCHANGED <<dnsVars, udpVars>>
    PROVE  Good(id)'
<1>t. stage \in [Sessions -> [Ids -> Stage]] /\ produced \in [Sessions -> [Ids -> 0 .. MaxChunks]]
    BY DEF KindInv, TypeOK, HttpTypeOK
<1>k. stage[s][id] # "none" => kind[id] = "http"
    BY DEF KindInv, ServerAgrees
<1>1. CASE FetchFails(s, id) \/ ReadFails(s, id)
    <2>1. /\ stage[s][id] \in {"fetching", "streaming"} /\ stage'[s][id] = "failed"
          /\ produced' = produced
        BY <1>1, <1>t DEF FetchFails, ReadFails, SetStage
    <2>2. down'[s] = IF LinkUp(s) THEN Append(down[s], Msg("ERROR", id)) ELSE down[s]
        BY <1>1, ReplyIsHeard DEF FetchFails, ReadFails
    <2> QED
        BY <1>k, <2>1, <2>2, FetchMoves
<1>2. CASE Responds(s, id)
    <2>1. /\ stage[s][id] = "fetching" /\ stage'[s][id] = "streaming"
          /\ produced' = produced
        BY <1>2, <1>t DEF Responds, SetStage
    <2>2. down'[s] = IF LinkUp(s) THEN Append(down[s], Chunk("HTTP_RESPONSE", id, 1)) ELSE down[s]
        BY <1>2, ReplyIsHeard DEF Responds
    <2> QED
        BY <1>k, <2>1, <2>2, FetchMoves
<1>3. CASE RespondsWithoutBody(s, id)
    <2>1. /\ stage[s][id] = "fetching" /\ stage'[s][id] = "done"
          /\ produced' = produced
        BY <1>3, <1>t DEF RespondsWithoutBody, SetStage
    <2> DEFINE m == Chunk("HTTP_RESPONSE", id, 0)
               n == Msg("HTTP_BODY_END", id)
    <2>2. down'[s] = IF LinkUp(s) THEN down[s] \o <<m, n>> ELSE down[s]
        BY <1>3, ReplyTwiceIsHeard DEF RespondsWithoutBody
    <2>3. m \in RequestMessage /\ n \in RequestMessage /\ down[s] \in Seq(RequestMessage)
        BY ServerMessages DEF KindInv, TypeOK
    <2> HIDE DEF m, n
    <2>4. down[s] \o <<m, n>> = Append(Append(down[s], m), n)
        BY <2>3
    <2>5. /\ LinkUp(s) => down'[s] = Append(Append(down[s], Chunk("HTTP_RESPONSE", id, 0)),
                                            Msg("HTTP_BODY_END", id))
          /\ ~LinkUp(s) => down'[s] = down[s]
        BY <2>2, <2>4 DEF m, n
    <2> QED
        BY <1>k, <2>1, <2>5, FetchMoves
<1>4. CASE ReadBody(s, id)
    <2>1. stage[s][id] = "streaming" /\ stage' = stage /\ produced[s][id] < MaxChunks
        BY <1>4 DEF ReadBody
    <2>2. produced'[s][id] = produced[s][id] + 1
        BY <1>4, <1>t DEF ReadBody
    <2>3. down'[s] = IF LinkUp(s)
                     THEN Append(down[s], Chunk("HTTP_BODY_CHUNK", id, produced[s][id] + 1))
                     ELSE down[s]
        BY <1>4, ReplyIsHeard DEF ReadBody
    <2> QED
        BY <1>k, <2>1, <2>2, <2>3, ResponseGoesOn
<1>5. CASE BodyDone(s, id) \/ CutOff(s, id)
    <2>1. /\ stage[s][id] = "streaming" /\ stage'[s][id] \in {"done", "cut"}
          /\ produced' = produced
        BY <1>5, <1>t DEF BodyDone, CutOff, SetStage
    <2>2. down'[s] = IF LinkUp(s) THEN Append(down[s], Msg("HTTP_BODY_END", id)) ELSE down[s]
        BY <1>5, ReplyIsHeard DEF BodyDone, CutOff
    <2> QED
        BY <1>k, <2>1, <2>2, FetchMoves
<1>6. CASE BodyCancelled(s, id)
    <2>1. Undisturbed(s, id) /\ down' = down
        BY <1>6 DEF BodyCancelled, Undisturbed, wireVars, dnsVars, udpVars
    <2>2. DownKept(s, id)
        BY <2>1, RepliesKeep
    <2> QED
        BY <2>1, <2>2, UndisturbedFades
<1> QED
    BY <1>1, <1>2, <1>3, <1>4, <1>5, <1>6 DEF HttpStep, FetchEnds

\* A receive loop goes on.
LEMMA LoopServes ==
    ASSUME KindInv, HomeInv, KindInv', UNCHANGED <<clientVars, requestVars, sess, cws, sws, up>>,
           NEW s \in Sessions, NEW id \in Ids, home[id] = s, Good(id),
           UdpStep(s, id), UNCHANGED <<dnsVars, httpVars>>
    PROVE  Good(id)'
<1>t. /\ loop \in [Sessions -> [Ids -> Loop]] /\ sockets \in [Sessions -> SUBSET Ids]
      /\ datagrams \in [Sessions -> [Ids -> 0 .. MaxChunks]]
    BY DEF KindInv, TypeOK, UdpTypeOK
<1>k. loop[s][id] # "none" => kind[id] = "udp"
    BY DEF KindInv, ServerAgrees
<1>v. kind' = kind
    BY DEF requestVars
<1>fade. ASSUME SentDown(s, id)' = SentDown(s, id), loop[s][id] # "none", loop'[s][id] # "none",
                id \in sockets'[s] <=> id \in sockets[s], down' = down
         PROVE  Good(id)'
    <2>1. ServerFades(s, id)
        BY <1>fade DEF ServerFades, httpVars
    <2>2. RequestKept(s, id)
        BY DEF RequestKept, dnsVars
    <2>3. DownKept(s, id)
        BY <1>fade, RepliesKeep
    <2> QED
        BY <2>1, <2>2, <2>3, ServerFading
<1>1. CASE Datagram(s, id)
    <2>1. /\ loop[s][id] = "receiving" /\ loop'[s][id] = "holding"
          /\ datagrams'[s][id] = datagrams[s][id] + 1 /\ datagrams[s][id] \in Nat
          /\ UNCHANGED <<sockets, down>>
        BY <1>1, <1>t, WireAssumption DEF Datagram, SetLoop, wireVars
    <2>2. SentDown(s, id)' = SentDown(s, id)
        BY <1>k, <1>v, <2>1 DEF SentDown
    <2> QED
        BY <1>fade, <2>1, <2>2
<1>2. CASE SendDatagram(s, id)
    <2>1. loop[s][id] = "holding" /\ loop'[s][id] = "receiving" /\ UNCHANGED <<sockets, datagrams>>
        BY <1>2, <1>t DEF SendDatagram, SetLoop
    <2>2. down'[s] = IF LinkUp(s)
                     THEN Append(down[s], Chunk("UDP_DATA", id, datagrams[s][id]))
                     ELSE down[s]
        BY <1>2, ReplyIsHeard DEF SendDatagram
    <2> QED
        BY <1>k, <2>1, <2>2, DatagramGoesOn
<1>3. CASE LoopEnds(s, id)
    <2>1. /\ loop[s][id] = "receiving" /\ loop'[s][id] = "over" /\ datagrams' = datagrams
          /\ CloseSocket(s, id)
        BY <1>3, <1>t DEF LoopEnds, SetLoop
    <2>2. SentDown(s, id)' = SentDown(s, id)
        BY <1>k, <1>v, <2>1 DEF SentDown
    <2>3. CASE id \in sockets[s]
        <3>1. sockets' = [sockets EXCEPT ![s] = @ \ {id}] /\ Reply(s, Msg("UDP_CLOSE", id))
            BY <2>1, <2>3 DEF CloseSocket
        <3>2. id \notin sockets'[s]
            BY <1>t, <3>1
        <3>3. down'[s] = IF LinkUp(s) THEN Append(down[s], Msg("UDP_CLOSE", id)) ELSE down[s]
            BY <3>1, ReplyIsHeard
        <3>4. /\ Msg("UDP_CLOSE", id) \in RequestMessage /\ Msg("UDP_CLOSE", id).id = id
              /\ Msg("UDP_CLOSE", id).type = "UDP_CLOSE"
            BY ServerMessages DEF Msg
        <3> QED
            BY <1>k, <2>1, <2>2, <2>3, <3>2, <3>3, <3>4, SocketMoves DEF IsChunk
    <2>4. CASE id \notin sockets[s]
        <3>1. UNCHANGED <<sockets, down>>
            BY <2>1, <2>4 DEF CloseSocket
        <3> QED
            BY <1>fade, <2>1, <2>2, <3>1
    <2> QED
        BY <2>3, <2>4
<1> QED
    BY <1>1, <1>2, <1>3 DEF UdpStep

\* Every step of the server keeps the promise to every caller.
LEMMA ServerServes ==
    ASSUME KindInv, HomeInv, KindInv', ServerNext, UNCHANGED <<clientVars, requestVars>>,
           NEW id \in Ids, kind[id] # "none", Good(id)
    PROVE  Good(id)'
<1>s. PICK s \in Sessions : home[id] = s
    <2>1. home[id] \in 0 .. MaxSessions
        BY DEF KindInv, TypeOK
    <2>2. home[id] # 0
        BY DEF KindInv, ClientAgrees
    <2> QED
        BY <2>1, <2>2, WireAssumption DEF Sessions
<1> SUFFICES ASSUME NEW z \in Sessions,
                    \/ Dispatch(z)
                    \/ ServerLinkClosed(z) \/ ServerHeartbeatTimeout(z) \/ CloseTransport(z)
                    \/ \E x \in Ids :
                          \/ DnsStep(z, x) /\ UNCHANGED <<httpVars, udpVars>>
                          \/ HttpStep(z, x) /\ UNCHANGED <<dnsVars, udpVars>>
                          \/ UdpStep(z, x) /\ UNCHANGED <<dnsVars, httpVars>>
             PROVE  Good(id)'
    BY DEF ServerNext
<1>1. CASE Dispatch(z)
    <2>1. PICK m : /\ Receive(z, m)
                   /\ \/ HandleQuery(z, m) /\ UNCHANGED <<httpVars, udpVars>>
                      \/ HttpReceive(z, m) /\ UNCHANGED <<dnsVars, udpVars>>
                      \/ UdpReceive(z, m) /\ UNCHANGED <<dnsVars, httpVars>>
                      \/ m.type = "ERROR" /\ UNCHANGED <<dnsVars, httpVars, udpVars, down>>
                   /\ UNCHANGED <<sess, cws, sws>>
        BY <1>1 DEF Dispatch
    <2> QED
        BY <1>s, <2>1, MessageServes
<1>2. CASE ServerLinkClosed(z) \/ ServerHeartbeatTimeout(z) \/ CloseTransport(z)
    BY <1>s, <1>2, TransportServes
<1>3. ASSUME NEW x \in Ids,
             \/ DnsStep(z, x) /\ UNCHANGED <<httpVars, udpVars>>
             \/ HttpStep(z, x) /\ UNCHANGED <<dnsVars, udpVars>>
             \/ UdpStep(z, x) /\ UNCHANGED <<dnsVars, httpVars>>
      PROVE  Good(id)'
    <2>1. UNCHANGED <<sess, cws, sws, up>>
        <3>1. DnsStep(z, x) \/ UdpStep(z, x) => UNCHANGED <<sess, cws, sws, up>>
            BY DEF DnsStep, QueryTimeout, LookupEnds, UdpStep, Datagram, SendDatagram, LoopEnds, wireVars
        <3>2. HttpStep(z, x) => UNCHANGED <<sess, cws, sws, up>>
            BY DEF HttpStep, FetchEnds, FetchFails, Responds, RespondsWithoutBody, ReadBody,
                   BodyDone, CutOff, ReadFails, BodyCancelled, wireVars
        <3> QED
            BY <1>3, <3>1, <3>2
    <2>2. CASE z # s \/ x # id
        BY <1>3, <1>s, <2>1, <2>2, OthersAreServed
    <2>3. CASE z = s /\ x = id
        BY <1>3, <1>s, <2>1, <2>3, LookupServes, FetchServes, LoopServes
    <2> QED
        BY <2>2, <2>3
<1> QED
    BY <1>1, <1>2, <1>3

\* Everyone is served, always.
LEMMA EveryoneStaysServed == Spec => []EveryoneIsServed
<1>1. Init => EveryoneIsServed
    BY DEF Init, RequestInit, EveryoneIsServed, Good
<1>2. KindInv /\ HomeInv /\ KindInv' /\ EveryoneIsServed /\ [Next]_vars => EveryoneIsServed'
    <2> SUFFICES ASSUME KindInv, HomeInv, KindInv', EveryoneIsServed, [Next]_vars, NEW id \in Ids
                 PROVE  Good(id)'
        BY DEF EveryoneIsServed
    <2>h. Good(id)
        BY DEF EveryoneIsServed
    <2>n. kind'[id] = "none" => Good(id)'
        BY DEF Good
    <2>1. CASE RequestNext /\ UNCHANGED serverVars
        BY <2>h, <2>n, <2>1, ClientServes
    <2>2. CASE ServerNext /\ UNCHANGED <<clientVars, requestVars>>
        BY <2>h, <2>n, <2>2, ServerServes DEF requestVars
    <2>3. ASSUME UNCHANGED <<home, pending, call, reader, rcvd, requestVars>>,
                 UNCHANGED <<dnsVars, httpVars, udpVars, down>>,
                 NEW s \in Sessions, s = home[id], up'[s] = up[s], LinkUp(s)' => LinkUp(s)
          PROVE  Good(id)'
        <3>1. DownKept(s, id)
            BY <2>3, RepliesKeep
        <3>2. ClientFades(id)
            BY <2>3 DEF ClientFades, requestVars
        <3>3. ServerFades(s, id)
            BY <2>3 DEF ServerFades, SentDown, requestVars, httpVars, udpVars
        <3>4. RequestKept(s, id)
            BY <2>3 DEF RequestKept, dnsVars
        <3>5. Fades(s, id)
            BY <2>3, <3>1, <3>2, <3>3, <3>4 DEF Fades, requestVars
        <3> QED
            BY <2>h, <2>3, <3>5, Fading
    <2>4. kind[id] # "none" => home[id] \in Sessions
        <3>1. home[id] \in 0 .. MaxSessions
            BY DEF KindInv, TypeOK
        <3>2. kind[id] # "none" => home[id] # 0
            BY DEF KindInv, ClientAgrees
        <3> QED
            BY <3>1, <3>2, WireAssumption DEF Sessions
    <2>5. CASE NewSession
        <3>1. kind'[id] = kind[id]
            BY <2>5 DEF NewSession, requestVars
        <3>2. ASSUME NEW s \in Sessions, s = home[id] PROVE Good(id)'
            <4>1. /\ up'[s] = up[s] /\ ~LinkUp(s)' /\ down' = down
                  /\ UNCHANGED <<home, pending, call, reader, rcvd>>
                  /\ UNCHANGED <<requestVars, dnsVars, httpVars, udpVars>>
                BY <2>5, <3>2, OldSessionsAreOver
            <4> QED
                BY <2>3, <3>2, <4>1
        <3> QED
            BY <2>4, <2>n, <3>1, <3>2
    <2>6. CASE UNCHANGED vars
        <3>1. /\ UNCHANGED <<home, pending, call, reader, rcvd, requestVars, up, down>>
              /\ UNCHANGED <<dnsVars, httpVars, udpVars, sess, cws, sws>> /\ kind' = kind
            BY <2>6 DEF vars, wireVars, clientVars, requestVars, serverVars
        <3>2. ASSUME NEW s \in Sessions, s = home[id] PROVE Good(id)'
            <4>1. up'[s] = up[s] /\ (LinkUp(s)' => LinkUp(s))
                BY <3>1 DEF LinkUp
            <4> QED
                BY <2>3, <3>1, <3>2, <4>1
        <3> QED
            BY <2>4, <2>n, <3>1, <3>2
    <2> QED
        BY <2>1, <2>2, <2>5, <2>6 DEF Next
<1> QED
    BY <1>1, <1>2, KindsHold, EverythingIsAtHome, PTL DEF Spec

\* While both ends believe in the link, a query or a fetch that the client waits
\* for has something that will settle it: sendMessage wrote its request, the
\* handler or its timer has still to answer, or the answer is on its way.  Every
\* early return of handleQuery and handleRequest sends an ERROR.
THEOREM CallersAreServed == Spec => []WaitingIsServed
<1>1. KindInv /\ EveryoneIsServed => WaitingIsServed
    <2> SUFFICES ASSUME KindInv, EveryoneIsServed,
                        NEW id \in pending, call[id] = "waiting", Live(id)
                 PROVE  \/ \E t \in {"DNS_QUERY", "HTTP_REQUEST"} : Carries(up[sess], t, id)
                        \/ id \in queries[sess]
                        \/ stage[sess][id] = "fetching"
                        \/ \E t \in {"DNS_RESPONSE", "HTTP_RESPONSE", "ERROR"} :
                              Carries(down[sess], t, id)
        BY DEF WaitingIsServed
    <2>1. id \in Ids /\ home[id] = sess /\ LinkUp(sess)
        BY DEF KindInv, TypeOK, Live
    <2>2. kind[id] = "dns" \/ kind[id] = "http"
        BY <2>1 DEF KindInv, ClientAgrees, TypeOK, RequestTypeOK, Kind
    <2> QED
        BY <2>1, <2>2 DEF EveryoneIsServed, Good, DnsGood, HttpGood
<1> QED
    BY <1>1, KindsHold, EveryoneStaysServed, PTL

\* What the body stream of fetchHTTP has been given, or the callback of
\* openUDPSocket, is what the target of this very call has sent, from the first
\* chunk and without gaps: nothing is delivered twice, to another call or, after
\* a reconnection, to a call that took the id over.
THEOREM ResponsesInOrder == Spec => []ResponseInOrder
<1>1. KindInv /\ EveryoneIsServed => ResponseInOrder
    <2> SUFFICES ASSUME KindInv, EveryoneIsServed, NEW id \in Ids, rcvd[id] # <<>>
                 PROVE  /\ Len(rcvd[id]) <= (IF kind[id] = "udp" THEN datagrams[home[id]][id]
                                                                 ELSE produced[home[id]][id])
                        /\ \A k \in DOMAIN rcvd[id] : rcvd[id][k] = k
        BY DEF ResponseInOrder
    <2>1. kind[id] # "none" /\ kind[id] \in Kind /\ rcvd[id] \in Seq(1 .. MaxChunks)
        BY DEF KindInv, ClientAgrees, TypeOK, RequestTypeOK
    <2>2. CASE kind[id] = "dns"
        BY <2>2 DEF EveryoneIsServed, Good, DnsGood
    <2>3. CASE kind[id] = "http"
        BY <2>3 DEF EveryoneIsServed, Good, HttpGood, Delivery
    <2>4. CASE kind[id] = "udp"
        <3>1. home[id] \in Sessions
            BY <2>4, WireAssumption DEF KindInv, TypeOK, ClientAgrees, Sessions
        <3>2. datagrams[home[id]][id] \in Nat
            BY <3>1, WireAssumption DEF KindInv, TypeOK, UdpTypeOK
        <3>3. /\ Len(rcvd[id]) <= SentDown(home[id], id)
              /\ \A k \in DOMAIN rcvd[id] : rcvd[id][k] = k
            BY <2>4 DEF EveryoneIsServed, Good, UdpGood, Delivery
        <3>4. Len(rcvd[id]) \in Nat
            BY <2>1
        <3> QED
            BY <2>4, <3>2, <3>3, <3>4 DEF SentDown
    <2> QED
        BY <2>1, <2>2, <2>3, <2>4 DEF Kind
<1> QED
    BY <1>1, KindsHold, EveryoneStaysServed, PTL

\* A message that is in a channel at most once has at most one copy there.
LEMMA CopiesOnce ==
    ASSUME NEW ch \in Seq(RequestMessage), NEW t, NEW id, Once(ch, t, id)
    PROVE  /\ Copies(ch, t, id) = {} <=> ~Carries(ch, t, id)
           /\ Cardinality(Copies(ch, t, id)) <= (IF Carries(ch, t, id) THEN 1 ELSE 0)
<1> DEFINE copies == Copies(ch, t, id)
<1>1. copies = {} <=> ~Carries(ch, t, id)
    BY DEF Copies, Carries
<1>2. \A k \in copies : copies = {k}
    BY DEF Copies, Once
<1> HIDE DEF copies
<1>3. CASE copies = {}
    <2>1. Cardinality(copies) = 0
        BY <1>3, FS_EmptySet
    <2> QED
        BY <1>1, <1>3, <2>1 DEF copies
<1>4. CASE copies # {}
    <2>1. PICK k : copies = {k}
        BY <1>2, <1>4
    <2>2. Cardinality(copies) = 1
        BY <2>1, FS_Singleton
    <2> QED
        BY <1>1, <1>4, <2>2 DEF copies
<1> QED
    BY <1>3, <1>4

\* The end of a UDP socket is announced once, by whichever of close() and the
\* finally of receiveLoop comes first, never while the socket is open, and to
\* every driver who still listens as long as the link lives.
THEOREM SocketEndsOnce == Spec => []SocketEndIsAnnounced
<1>1. KindInv /\ EveryoneIsServed => SocketEndIsAnnounced
    <2> SUFFICES ASSUME KindInv, EveryoneIsServed, NEW id \in Ids, kind[id] = "udp", Live(id)
                 PROVE  LET news == Copies(down[sess], "UDP_CLOSE", id) IN
                        /\ Cardinality(news) <= (IF id \in sockets[sess] THEN 0 ELSE 1)
                        /\ loop[sess][id] # "none" /\ id \in interest \ sockets[sess] => news # {}
        BY DEF SocketEndIsAnnounced
    <2>1. home[id] = sess /\ LinkUp(sess) /\ sess \in Sessions
        <3>1. home[id] = sess /\ LinkUp(sess)
            BY DEF Live
        <3>2. home[id] # 0
            BY DEF KindInv, ClientAgrees
        <3>3. sess \in 0 .. MaxSessions
            BY DEF KindInv, TypeOK
        <3> QED
            BY <3>1, <3>2, <3>3, WireAssumption DEF Sessions
    <2>2. down[sess] \in Seq(RequestMessage)
        BY <2>1 DEF KindInv, TypeOK
    <2>3. /\ Carries(down[sess], "UDP_CLOSE", id) => id \notin sockets[sess]
          /\ Once(down[sess], "UDP_CLOSE", id)
          /\ id \in interest /\ loop[sess][id] # "none" /\ id \notin sockets[sess] =>
                Carries(down[sess], "UDP_CLOSE", id)
        BY <2>1 DEF EveryoneIsServed, Good, UdpGood
    <2>4. /\ Copies(down[sess], "UDP_CLOSE", id) = {} <=> ~Carries(down[sess], "UDP_CLOSE", id)
          /\ Cardinality(Copies(down[sess], "UDP_CLOSE", id)) <=
                 (IF Carries(down[sess], "UDP_CLOSE", id) THEN 1 ELSE 0)
        BY <2>2, <2>3, CopiesOnce
    <2>5. ~Carries(down[sess], "UDP_CLOSE", id) =>
              Cardinality(Copies(down[sess], "UDP_CLOSE", id)) = 0
        BY <2>4, FS_EmptySet
    <2>6. /\ id \in sockets[sess] => Cardinality(Copies(down[sess], "UDP_CLOSE", id)) <= 0
          /\ Cardinality(Copies(down[sess], "UDP_CLOSE", id)) <= 1
        <3>1. CASE Carries(down[sess], "UDP_CLOSE", id)
            BY <2>3, <2>4, <3>1
        <3>2. CASE ~Carries(down[sess], "UDP_CLOSE", id)
            BY <2>5, <3>2
        <3> QED
            BY <3>1, <3>2
    <2> QED
        BY <2>3, <2>4, <2>5, <2>6
<1> QED
    BY <1>1, KindsHold, EveryoneStaysServed, PTL

-----------------------------------------------------------------------------
(* The steps of Streams, in terms of the exchanges                         *)

\* Chunks the target has sent, those the caller has been given, and whether the
\* response exceeded MAX_RESPONSE_SIZE.
MadeFor(id) == IF home[id] = 0 THEN 0 ELSE produced[home[id]][id]
GivenTo(id) == IF kind[id] = "http" THEN Len(rcvd[id]) ELSE 0
IsCut(id) == home[id] # 0 /\ stage[home[id]][id] = "cut"

LEMMA PhaseIs ==
    ASSUME NEW id \in Ids
    PROVE  /\ call[id] = "none" => PhaseOf(id) = "idle"
           /\ call[id] = "waiting" => PhaseOf(id) = "calling"
           /\ call[id] = "failed" => PhaseOf(id) = "failed"
           /\ call[id] = "connected" /\ reader[id] \in {"none", "open"} => PhaseOf(id) = "open"
           /\ call[id] = "connected" /\ reader[id] = "closed" => PhaseOf(id) = "ended"
           /\ call[id] = "connected" /\ reader[id] = "errored" => PhaseOf(id) = "broken"
           /\ call[id] = "connected" /\ reader[id] = "cancelled" => PhaseOf(id) = "cancelled"
BY DEF PhaseOf

LEMMA PhaseWillBe ==
    ASSUME NEW id \in Ids
    PROVE  /\ call'[id] = "waiting" => PhaseOf(id)' = "calling"
           /\ call'[id] = "failed" => PhaseOf(id)' = "failed"
           /\ call'[id] = "connected" /\ reader'[id] \in {"none", "open"} => PhaseOf(id)' = "open"
           /\ call'[id] = "connected" /\ reader'[id] = "closed" => PhaseOf(id)' = "ended"
           /\ call'[id] = "connected" /\ reader'[id] = "errored" => PhaseOf(id)' = "broken"
           /\ call'[id] = "connected" /\ reader'[id] = "cancelled" => PhaseOf(id)' = "cancelled"
           /\ call'[id] = call[id] /\ reader'[id] = reader[id] => PhaseOf(id)' = PhaseOf(id)
<1>1. call'[id] \in {"waiting", "failed"} =>
          /\ call'[id] = "waiting" => PhaseOf(id)' = "calling"
          /\ call'[id] = "failed" => PhaseOf(id)' = "failed"
    BY DEF PhaseOf
<1>2. call'[id] = "connected" =>
          /\ reader'[id] \in {"none", "open"} => PhaseOf(id)' = "open"
          /\ reader'[id] = "closed" => PhaseOf(id)' = "ended"
          /\ reader'[id] = "errored" => PhaseOf(id)' = "broken"
          /\ reader'[id] = "cancelled" => PhaseOf(id)' = "cancelled"
    BY DEF PhaseOf
<1>3. call'[id] = call[id] /\ reader'[id] = reader[id] => PhaseOf(id)' = PhaseOf(id)
    BY DEF PhaseOf
<1> QED
    BY <1>1, <1>2, <1>3

\* A step Streams does not see.
LEMMA StepIsInvisible ==
    ASSUME \A id \in Ids : /\ PhaseOf(id)' = PhaseOf(id) /\ MadeFor(id)' = MadeFor(id)
                           /\ GivenTo(id)' = GivenTo(id) /\ IsCut(id)' = IsCut(id)
    PROVE  UNCHANGED Abstract!vars
BY DEF Abstract!vars, MadeFor, GivenTo, IsCut

LEMMA StepMoves ==
    ASSUME NEW i \in Ids, NEW from, NEW to, PhaseOf(i) = from, PhaseOf(i)' = to,
           \A id \in Ids : id # i => PhaseOf(id)' = PhaseOf(id),
           \A id \in Ids : /\ MadeFor(id)' = MadeFor(id) /\ GivenTo(id)' = GivenTo(id)
                           /\ IsCut(id)' = IsCut(id)
    PROVE  Abstract!Move(i, from, to)
BY DEF Abstract!Move, MadeFor, GivenTo, IsCut

LEMMA StepFails ==
    ASSUME NEW ids \in SUBSET Ids,
           \A id \in ids : \/ PhaseOf(id) = "calling" /\ PhaseOf(id)' = "failed"
                           \/ PhaseOf(id) = "open" /\ PhaseOf(id)' = "broken",
           \A id \in Ids \ ids : PhaseOf(id)' = PhaseOf(id),
           \A id \in Ids : /\ MadeFor(id)' = MadeFor(id) /\ GivenTo(id)' = GivenTo(id)
                           /\ IsCut(id)' = IsCut(id)
    PROVE  Abstract!Fail(ids)
BY DEF Abstract!Fail, MadeFor, GivenTo, IsCut

LEMMA StepProduces ==
    ASSUME NEW i \in Ids, PhaseOf(i) # "idle", MadeFor(i) < MaxChunks,
           MadeFor(i)' = MadeFor(i) + 1,
           \A id \in Ids : id # i => MadeFor(id)' = MadeFor(id),
           \A id \in Ids : /\ PhaseOf(id)' = PhaseOf(id) /\ GivenTo(id)' = GivenTo(id)
                           /\ IsCut(id)' = IsCut(id)
    PROVE  Abstract!Produce(i)
BY DEF Abstract!Produce, MadeFor, GivenTo, IsCut

LEMMA StepDelivers ==
    ASSUME NEW i \in Ids, PhaseOf(i) = "open", GivenTo(i) < MadeFor(i),
           GivenTo(i)' = GivenTo(i) + 1,
           \A id \in Ids : id # i => GivenTo(id)' = GivenTo(id),
           \A id \in Ids : /\ PhaseOf(id)' = PhaseOf(id) /\ MadeFor(id)' = MadeFor(id)
                           /\ IsCut(id)' = IsCut(id)
    PROVE  Abstract!Deliver(i)
BY DEF Abstract!Deliver, MadeFor, GivenTo, IsCut

LEMMA StepCutsShort ==
    ASSUME NEW i \in Ids, PhaseOf(i) # "idle",
           \A id \in Ids : IsCut(id)' <=> IsCut(id) \/ id = i,
           \A id \in Ids : /\ PhaseOf(id)' = PhaseOf(id) /\ MadeFor(id)' = MadeFor(id)
                           /\ GivenTo(id)' = GivenTo(id)
    PROVE  Abstract!CutShort({i})
BY DEF Abstract!CutShort, MadeFor, GivenTo, IsCut

-----------------------------------------------------------------------------
(* Every step is one of them                                               *)

\* A fetch or a query begins.
LEMMA AwaitIsPromised ==
    ASSUME KindInv, HomeInv, NEW k \in {"dns", "http"}, Await(k),
           UNCHANGED <<reader, rcvd, stage, produced>>
    PROVE  [Abstract!Next]_(Abstract!vars)
<1>n. TakeId(k) /\ call' = [call EXCEPT ![nextId] = "waiting"]
    BY DEF Await
<1>i. PICK i \in Ids : i = nextId
    BY <1>n, NewIdIsFresh
<1>1. /\ i \in Ids /\ sess \in Sessions /\ kind[i] = "none" /\ home[i] = 0
      /\ home'[i] = sess /\ kind'[i] = k
      /\ \A id \in Ids : id # i => home'[id] = home[id] /\ kind'[id] = kind[id]
    BY <1>i, <1>n, NewIdIsFresh
<1>2. call \in [Ids -> CallState]
    BY DEF KindInv, TypeOK
<1>3. call'[i] = "waiting" /\ \A id \in Ids : id # i => call'[id] = call[id]
    BY <1>1, <1>2, <1>i, <1>n
<1>4. call[i] = "none" /\ rcvd[i] = <<>>
    BY <1>1 DEF KindInv, ClientAgrees
<1>5. stage[sess][i] = "none" /\ produced[sess][i] = 0
    BY <1>1 DEF KindInv, ServerAgrees, HomeInv, WorkIsAtHome
<1>6. PhaseOf(i) = "idle" /\ PhaseOf(i)' = "calling"
    BY <1>1, <1>3, <1>4, PhaseIs, PhaseWillBe
<1>7. \A id \in Ids : id # i => PhaseOf(id)' = PhaseOf(id)
    BY <1>3, PhaseWillBe
<1>8. \A id \in Ids : MadeFor(id)' = MadeFor(id) /\ IsCut(id)' = IsCut(id)
    BY <1>1, <1>5 DEF MadeFor, IsCut
<1>9. \A id \in Ids : GivenTo(id)' = GivenTo(id)
    <2>1. Len(<<>>) = 0
        OBVIOUS
    <2> QED
        BY <1>1, <1>4, <2>1 DEF GivenTo
<1>10. Abstract!Move(i, "idle", "calling")
    BY <1>1, <1>6, <1>7, <1>8, <1>9, StepMoves
<1> QED
    BY <1>1, <1>10 DEF Abstract!Next, Abstract!Request

LEMMA ClientStepIsPromised ==
    ASSUME KindInv, HomeInv, EveryoneIsServed, RequestNext, UNCHANGED serverVars
    PROVE  [Abstract!Next]_(Abstract!vars)
<1>t. /\ call \in [Ids -> CallState] /\ reader \in [Ids -> ReaderState] /\ pending \subseteq Ids
      /\ timer \subseteq Ids /\ rcvd \in [Ids -> Seq(1 .. MaxChunks)]
    BY DEF KindInv, TypeOK
<1>p. UNCHANGED <<stage, produced>>
    BY DEF serverVars, httpVars
<1>w. \A id \in Ids : /\ id \in timer <=> call[id] = "waiting"
                      /\ reader[id] # "none" => call[id] = "connected" /\ kind[id] = "http"
                      /\ id \in interest => kind[id] = "udp"
                      /\ id \in pending => call[id] \in {"waiting", "connected"}
    BY DEF KindInv, WaitingIsTimed, ClientAgrees
<1>m. ASSUME UNCHANGED home
      PROVE  \A id \in Ids : MadeFor(id)' = MadeFor(id) /\ IsCut(id)' = IsCut(id)
    BY <1>m, <1>p DEF MadeFor, IsCut
<1>g. ASSUME UNCHANGED <<kind, rcvd>> PROVE \A id \in Ids : GivenTo(id)' = GivenTo(id)
    BY <1>g DEF GivenTo
<1>same. ASSUME UNCHANGED <<call, reader>> PROVE \A id \in Ids : PhaseOf(id)' = PhaseOf(id)
    BY <1>same, PhaseWillBe
<1>quiet. ASSUME UNCHANGED <<home, kind, call, reader, rcvd>> PROVE UNCHANGED Abstract!vars
    BY <1>g, <1>m, <1>quiet, <1>same, StepIsInvisible
\* One call goes from one phase to another.
<1>move. ASSUME NEW i \in Ids, UNCHANGED <<home, kind, rcvd>>, NEW to, PhaseOf(i)' = to,
                \A id \in Ids : id # i => call'[id] = call[id] /\ reader'[id] = reader[id]
         PROVE  Abstract!Move(i, PhaseOf(i), to)
    BY <1>g, <1>m, <1>move, PhaseWillBe, StepMoves
\* Calls that wait fail, and bodies that are open break.
<1>fail. ASSUME NEW ids \in SUBSET Ids, UNCHANGED <<home, kind, rcvd>>,
                \A id \in ids : \/ call[id] = "waiting" /\ call'[id] = "failed"
                                \/ /\ reader[id] = "open" /\ reader'[id] = "errored"
                                   /\ call'[id] = call[id],
                \A id \in Ids \ ids : call'[id] = call[id] /\ reader'[id] = reader[id]
         PROVE  [Abstract!Next]_(Abstract!vars)
    <2>1. \A id \in ids : \/ PhaseOf(id) = "calling" /\ PhaseOf(id)' = "failed"
                          \/ PhaseOf(id) = "open" /\ PhaseOf(id)' = "broken"
        BY <1>fail, <1>w, PhaseIs, PhaseWillBe
    <2>2. \A id \in Ids \ ids : PhaseOf(id)' = PhaseOf(id)
        BY <1>fail, PhaseWillBe
    <2>3. Abstract!Fail(ids)
        BY <1>fail, <1>g, <1>m, <2>1, <2>2, StepFails
    <2> QED
        BY <2>3 DEF Abstract!Next
<1>1. CASE QueryDNS
    BY <1>1, <1>p, AwaitIsPromised DEF QueryDNS
<1>2. CASE FetchHTTP
    BY <1>2, <1>p, AwaitIsPromised DEF FetchHTTP
<1>3. CASE UdpBind
    <2>1. TakeId("udp") /\ UNCHANGED <<call, reader, rcvd>>
        BY <1>3 DEF UdpBind
    <2> DEFINE i == nextId
    <2>2. /\ i \in Ids /\ sess \in Sessions /\ kind[i] = "none" /\ home[i] = 0
          /\ home'[i] = sess /\ kind'[i] = "udp"
          /\ \A id \in Ids : id # i => home'[id] = home[id] /\ kind'[id] = kind[id]
        BY <2>1, NewIdIsFresh
    <2>3. stage[sess][i] = "none" /\ produced[sess][i] = 0
        BY <2>2 DEF KindInv, ServerAgrees, HomeInv, WorkIsAtHome
    <2> HIDE DEF i
    <2>4. \A id \in Ids : MadeFor(id)' = MadeFor(id) /\ IsCut(id)' = IsCut(id)
        BY <1>p, <2>2, <2>3 DEF MadeFor, IsCut
    <2>5. \A id \in Ids : GivenTo(id)' = GivenTo(id)
        BY <2>1, <2>2 DEF GivenTo
    <2> QED
        BY <1>same, <2>1, <2>4, <2>5, StepIsInvisible
<1>4. ASSUME NEW i \in Ids, SendBodyChunk(i) \/ SendBodyEnd(i) \/ UdpSend(i) \/ UdpDrop(i)
      PROVE  [Abstract!Next]_(Abstract!vars)
    <2>1. UNCHANGED <<home, kind, call, reader, rcvd>>
        BY <1>4 DEF SendBodyChunk, SendBodyEnd, UdpSend, UdpDrop, requestVars
    <2> QED
        BY <1>quiet, <2>1
<1>5. CASE ReapRequests \/ Stray
    <2>1. UNCHANGED <<home, kind, call, reader, rcvd>>
        BY <1>5 DEF ReapRequests, Stray, requestVars
    <2> QED
        BY <1>quiet, <2>1
<1>6. ASSUME NEW i \in Ids, GiveUp(i) PROVE [Abstract!Next]_(Abstract!vars)
    <2>1. /\ UNCHANGED <<home, kind, rcvd, reader>> /\ call[i] = "waiting"
          /\ call' = [call EXCEPT ![i] = "failed"]
        BY <1>6, <1>w DEF GiveUp, requestVars
    <2>2. call'[i] = "failed" /\ \A id \in Ids \ {i} : call'[id] = call[id]
        BY <1>t, <2>1
    <2> QED
        BY <1>fail, <2>1, <2>2
<1>7. ASSUME NEW i \in Ids, CancelBody(i) PROVE [Abstract!Next]_(Abstract!vars)
    <2>1. /\ UNCHANGED <<home, kind, rcvd, call>> /\ reader[i] = "open" /\ call[i] = "connected"
          /\ reader' = [reader EXCEPT ![i] = "cancelled"]
        BY <1>7, <1>w DEF CancelBody, requestVars
    <2>2. reader'[i] = "cancelled" /\ \A id \in Ids : id # i => reader'[id] = reader[id]
        BY <1>t, <2>1
    <2>3. PhaseOf(i) = "open" /\ PhaseOf(i)' = "cancelled"
        BY <2>1, <2>2, PhaseIs, PhaseWillBe
    <2>4. Abstract!Move(i, "open", "cancelled")
        BY <1>move, <2>1, <2>2, <2>3
    <2> QED
        BY <2>4 DEF Abstract!Next, Abstract!Cancelled
<1>8. CASE DnsResponse \/ HttpResponse
    <2>1. PICK m : /\ Take(m) /\ m.id \in pending /\ m.type \in {"DNS_RESPONSE", "HTTP_RESPONSE"}
                   /\ call' = [call EXCEPT ![m.id] = "connected"]
                   /\ \/ m.type = "DNS_RESPONSE" /\ UNCHANGED reader
                      \/ /\ m.type = "HTTP_RESPONSE"
                         /\ reader' = [reader EXCEPT ![m.id] = IF m.chunk = 1 THEN "open" ELSE "none"]
        BY <1>8 DEF DnsResponse, HttpResponse
    <2>2. UNCHANGED <<home, kind, rcvd>>
        BY <1>8 DEF DnsResponse, HttpResponse, requestVars
    <2>3. PICK i \in Ids : i = m.id
        BY <2>1, TakeIsHeard
    <2>4. /\ home[i] = sess /\ sess \in Sessions /\ m \in Answered
          /\ down[sess] \in Seq(RequestMessage) /\ down[sess] # <<>> /\ m = Head(down[sess])
        BY <2>1, <2>3, TakeIsHeard
    <2>5. Carries(down[sess], m.type, i)
        BY <2>3, <2>4, CarriesTail
    <2>6. call[i] = "waiting" /\ (m.type = "DNS_RESPONSE" => reader[i] = "none")
        <3>1. CASE m.type = "DNS_RESPONSE"
            <4>1. kind[i] = "dns"
                BY <2>3, <2>4, <3>1 DEF Answered
            <4> QED
                BY <2>1, <2>3, <4>1 DEF KindInv, ClientAgrees
        <3>2. CASE m.type = "HTTP_RESPONSE"
            <4>1. kind[i] = "http"
                BY <2>3, <2>4, <3>2 DEF Answered
            <4>2. call[i] # "connected"
                BY <2>4, <2>5, <3>2, <4>1 DEF EveryoneIsServed, Good, HttpGood
            <4> QED
                BY <1>w, <2>1, <2>3, <3>2, <4>2
        <3> QED
            BY <2>1, <3>1, <3>2
    <2>7. call'[i] = "connected" /\ reader'[i] \in {"none", "open"}
        BY <1>t, <2>1, <2>3, <2>6
    <2>8. \A id \in Ids : id # i => call'[id] = call[id] /\ reader'[id] = reader[id]
        BY <1>t, <2>1, <2>3
    <2>9. PhaseOf(i) = "calling" /\ PhaseOf(i)' = "open"
        BY <2>6, <2>7, PhaseIs, PhaseWillBe
    <2>10. Abstract!Move(i, "calling", "open")
        BY <1>move, <2>2, <2>8, <2>9
    <2> QED
        BY <2>10 DEF Abstract!Next, Abstract!Accepted
<1>9. CASE BodyChunk
    <2>1. PICK m : /\ Take(m) /\ m.id \in pending /\ m.type = "HTTP_BODY_CHUNK"
                   /\ rcvd' = IF reader[m.id] = "open" THEN [rcvd EXCEPT ![m.id] = Append(@, m.chunk)]
                                                       ELSE rcvd
        BY <1>9 DEF BodyChunk
    <2>2. UNCHANGED <<home, kind, call, reader>>
        BY <1>9 DEF BodyChunk, requestVars
    <2>3. PICK i \in Ids : i = m.id
        BY <2>1, TakeIsHeard
    <2>4. CASE reader[i] # "open"
        BY <1>quiet, <2>1, <2>2, <2>3, <2>4
    <2>5. CASE reader[i] = "open"
        <3>1. /\ home[i] = sess /\ sess \in Sessions
              /\ down[sess] \in Seq(RequestMessage) /\ down[sess] # <<>> /\ m = Head(down[sess])
            BY <2>1, <2>3, TakeIsHeard
        <3>2. kind[i] = "http" /\ call[i] = "connected" /\ IsChunk(m, i)
            BY <1>w, <2>1, <2>3, <2>5 DEF IsChunk
        <3>3. InFlight(down[sess], i, Len(rcvd[i]), produced[sess][i])
            BY <2>1, <2>3, <2>5, <3>1, <3>2
            DEF EveryoneIsServed, Good, HttpGood, Delivery, Listens
        <3>4. Len(rcvd[i]) \in Nat /\ produced[sess][i] \in Nat /\ rcvd[i] \in Seq(1 .. MaxChunks)
            <4>1. produced[sess][i] \in 0 .. MaxChunks
                BY <3>1 DEF KindInv, TypeOK, HttpTypeOK
            <4> QED
                BY <1>t, <4>1, WireAssumption
        <3>5. Len(rcvd[i]) + 1 <= produced[sess][i]
            BY <3>1, <3>2, <3>3, <3>4, TailNext
        <3>6. m.chunk \in 1 .. MaxChunks
            BY <2>1, <2>3, <3>2, TakeIsHeard, MessagesAgree
        <3>7. /\ Len(rcvd'[i]) = Len(rcvd[i]) + 1
              /\ \A id \in Ids : id # i => rcvd'[id] = rcvd[id]
            BY <1>t, <2>1, <2>3, <2>5, <3>4, <3>6
        <3>8. sess # 0
            BY <3>1, WireAssumption DEF Sessions
        <3>9. GivenTo(i) < MadeFor(i) /\ GivenTo(i)' = GivenTo(i) + 1
            BY <2>2, <3>1, <3>2, <3>4, <3>5, <3>7, <3>8 DEF GivenTo, MadeFor
        <3>10. \A id \in Ids : id # i => GivenTo(id)' = GivenTo(id)
            BY <2>2, <3>7 DEF GivenTo
        <3>11. PhaseOf(i) = "open"
            BY <2>5, <3>2, PhaseIs
        <3>12. Abstract!Deliver(i)
            BY <1>m, <1>same, <2>2, <3>9, <3>10, <3>11, StepDelivers
        <3> QED
            BY <3>12 DEF Abstract!Next
    <2> QED
        BY <2>4, <2>5
<1>10. CASE BodyEnd
    <2>1. PICK m : /\ Take(m) /\ m.id \in pending /\ m.type = "HTTP_BODY_END"
                   /\ reader' = [reader EXCEPT ![m.id] = IF @ = "open" THEN "closed" ELSE @]
        BY <1>10 DEF BodyEnd
    <2>2. UNCHANGED <<home, kind, call, rcvd>>
        BY <1>10 DEF BodyEnd, requestVars
    <2>3. PICK i \in Ids : i = m.id
        BY <2>1, TakeIsHeard
    <2>4. CASE reader[i] # "open"
        <3>1. reader' = reader
            BY <1>t, <2>1, <2>3, <2>4
        <3> QED
            BY <1>quiet, <2>2, <3>1
    <2>5. CASE reader[i] = "open"
        <3>1. reader'[i] = "closed" /\ \A id \in Ids : id # i => reader'[id] = reader[id]
            BY <1>t, <2>1, <2>3, <2>5
        <3>2. kind[i] = "http" /\ call[i] = "connected"
            BY <1>w, <2>5
        <3>3. PhaseOf(i) = "open" /\ PhaseOf(i)' = "ended"
            BY <2>2, <2>5, <3>1, <3>2, PhaseIs, PhaseWillBe
        <3>4. Abstract!Move(i, "open", "ended")
            BY <1>move, <2>2, <3>1, <3>3
        <3>5. /\ home[i] = sess /\ sess \in Sessions
              /\ down[sess] \in Seq(RequestMessage) /\ down[sess] # <<>> /\ m = Head(down[sess])
            BY <2>1, <2>3, TakeIsHeard
        <3>6. 1 \in DOMAIN down[sess] /\ down[sess][1] = m /\ sess # 0
            BY <3>5, WireAssumption DEF Sessions
        <3>7. Carries(down[sess], "HTTP_BODY_END", i)
            BY <2>1, <2>3, <3>6 DEF Carries
        <3>8. /\ stage[sess][i] \in {"done", "cut"}
              /\ ChunksFirst(down[sess], i)
              /\ stage[sess][i] = "done" => Reaches(down[sess], i, Len(rcvd[i]), produced[sess][i])
            BY <2>1, <2>3, <2>5, <3>2, <3>5, <3>6, <3>7
            DEF EveryoneIsServed, Good, HttpGood, TrueNews, Listens
        <3>9. \A k \in DOMAIN down[sess] : ~IsChunk(down[sess][k], i)
            <4>1. \A k \in DOMAIN down[sess] : IsChunk(down[sess][k], i) => k < 1
                BY <2>1, <2>3, <3>6, <3>8 DEF ChunksFirst
            <4>2. \A k \in DOMAIN down[sess] : k \in Nat /\ k # 0
                BY <3>5
            <4> QED
                BY <4>1, <4>2
        <3>10. GivenTo(i) = MadeFor(i) \/ IsCut(i)
            BY <3>2, <3>5, <3>6, <3>8, <3>9 DEF GivenTo, MadeFor, IsCut, Reaches
        <3>11. Abstract!CleanEnd(i)
            BY <3>4, <3>10 DEF Abstract!CleanEnd, GivenTo, MadeFor, IsCut
        <3> QED
            BY <3>11 DEF Abstract!Next
    <2> QED
        BY <2>4, <2>5
<1>11. CASE UdpHears
    <2>1. PICK m : /\ Take(m) /\ m.id \in interest
                   /\ rcvd' = IF m.type = "UDP_DATA" THEN [rcvd EXCEPT ![m.id] = Append(@, m.chunk)]
                                                     ELSE rcvd
        BY <1>11 DEF UdpHears
    <2>2. UNCHANGED <<home, kind, call, reader>>
        BY <1>11 DEF UdpHears
    <2>3. PICK i \in Ids : i = m.id
        BY <2>1, TakeIsHeard
    <2>4. kind[i] = "udp"
        BY <1>w, <2>1, <2>3
    <2>5. \A id \in Ids : id # i => rcvd'[id] = rcvd[id]
        BY <1>t, <2>1, <2>3
    <2>6. \A id \in Ids : GivenTo(id)' = GivenTo(id)
        BY <2>2, <2>4, <2>5 DEF GivenTo
    <2> QED
        BY <1>m, <1>same, <2>2, <2>6, StepIsInvisible
<1>12. CASE StreamError /\ UNCHANGED requestVars
    <2>1. PICK m \in Message :
              /\ m.id \in pending /\ UNCHANGED <<home, rcvd>>
              /\ reader' = [reader EXCEPT ![m.id] = IF @ = "open" THEN "errored" ELSE @]
              /\ call' = [call EXCEPT ![m.id] = IF @ = "waiting" THEN "failed" ELSE @]
        BY <1>12 DEF StreamError
    <2>2. PICK i \in Ids : i = m.id
        BY <1>t, <2>1
    <2>3. UNCHANGED <<home, kind, rcvd>>
        BY <1>12, <2>1 DEF requestVars
    <2>4. /\ reader'[i] = (IF reader[i] = "open" THEN "errored" ELSE reader[i])
          /\ call'[i] = (IF call[i] = "waiting" THEN "failed" ELSE call[i])
          /\ \A id \in Ids : id # i => call'[id] = call[id] /\ reader'[id] = reader[id]
        BY <1>t, <2>1, <2>2
    <2>5. CASE call[i] = "waiting" \/ reader[i] = "open"
        <3>1. \/ call[i] = "waiting" /\ call'[i] = "failed"
              \/ reader[i] = "open" /\ reader'[i] = "errored" /\ call'[i] = call[i]
            BY <2>4, <2>5
        <3>2. {i} \in SUBSET Ids /\ \A id \in Ids \ {i} : id # i
            OBVIOUS
        <3> QED
            BY <1>fail, <2>3, <2>4, <3>1, <3>2
    <2>6. CASE call[i] # "waiting" /\ reader[i] # "open"
        <3>1. \A id \in Ids : call'[id] = call[id] /\ reader'[id] = reader[id]
            BY <2>4, <2>6
        <3>2. \A id \in Ids : PhaseOf(id)' = PhaseOf(id)
            BY <3>1, PhaseWillBe
        <3> QED
            BY <1>g, <1>m, <2>3, <3>2, StepIsInvisible
    <2> QED
        BY <2>5, <2>6
<1>off. ASSUME HandleDisconnect, UNCHANGED <<home, kind, rcvd>>
        PROVE  [Abstract!Next]_(Abstract!vars)
    <2>1. CASE UNCHANGED <<call, reader>>
        BY <1>off, <1>quiet, <2>1
    <2>2. CASE /\ call' = [id \in Ids |-> IF id \in pending /\ call[id] = "waiting"
                                          THEN "failed" ELSE call[id]]
               /\ reader' = [id \in Ids |-> IF id \in pending /\ reader[id] = "open"
                                            THEN "errored" ELSE reader[id]]
        <3> DEFINE ids == {id \in pending : call[id] = "waiting" \/ reader[id] = "open"}
        <3>1. /\ ids \in SUBSET Ids
              /\ \A id \in ids : \/ call[id] = "waiting" /\ call'[id] = "failed"
                                 \/ /\ reader[id] = "open" /\ reader'[id] = "errored"
                                    /\ call'[id] = call[id]
              /\ \A id \in Ids \ ids : call'[id] = call[id] /\ reader'[id] = reader[id]
            BY <1>t, <2>2
        <3> HIDE DEF ids
        <3> QED
            BY <1>fail, <1>off, <3>1
    <2> QED
        BY <1>off, <2>1, <2>2 DEF HandleDisconnect, RejectPending
<1>13. CASE (ClientLinkClosed \/ HeartbeatTimeout) /\ UNCHANGED requestVars
    BY <1>13, <1>off DEF ClientLinkClosed, HeartbeatTimeout, requestVars
<1>14. CASE CloseClient /\ UNCHANGED requestVars
    <2> DEFINE ids == {id \in pending : call[id] = "waiting"}
    <2>1. /\ UNCHANGED <<home, kind, rcvd, reader>>
          /\ call' = [id \in Ids |-> IF id \in pending /\ call[id] = "waiting"
                                     THEN "failed" ELSE call[id]]
        BY <1>14 DEF CloseClient, RejectPending, requestVars
    <2>2. /\ ids \in SUBSET Ids
          /\ \A id \in ids : call[id] = "waiting" /\ call'[id] = "failed"
          /\ \A id \in Ids \ ids : call'[id] = call[id]
        BY <1>t, <2>1
    <2> HIDE DEF ids
    <2> QED
        BY <1>fail, <2>1, <2>2
<1> QED
    BY <1>1, <1>2, <1>3, <1>4, <1>5, <1>6, <1>7, <1>8, <1>9, <1>10, <1>11, <1>12, <1>13, <1>14
    DEF RequestNext, UDPDriver

\* A step of the server moves no call and gives no chunk to its caller: it reads
\* one from the target, cuts the response short, or does nothing Streams sees.
LEMMA ServerStepIsPromised ==
    ASSUME KindInv, HomeInv, ServerNext, UNCHANGED <<clientVars, requestVars>>
    PROVE  [Abstract!Next]_(Abstract!vars)
<1>t. /\ stage \in [Sessions -> [Ids -> Stage]]
      /\ produced \in [Sessions -> [Ids -> 0 .. MaxChunks]]
      /\ call \in [Ids -> CallState] /\ reader \in [Ids -> ReaderState]
      /\ home \in [Ids -> 0 .. MaxSessions]
    BY DEF KindInv, TypeOK, HttpTypeOK
<1>v. UNCHANGED <<home, call, reader, rcvd, kind>>
    BY DEF clientVars, requestVars
<1>s. 0 \notin Sessions /\ \A id \in Ids : home[id] # 0 => home[id] \in Sessions
    BY <1>t, WireAssumption DEF Sessions
<1>p. \A id \in Ids : PhaseOf(id)' = PhaseOf(id) /\ GivenTo(id)' = GivenTo(id)
    <2>1. \A id \in Ids : GivenTo(id)' = GivenTo(id)
        BY <1>v DEF GivenTo
    <2> QED
        BY <1>v, <2>1, PhaseWillBe
\* The transport works for a fetch of its session only.
<1>w. ASSUME NEW s \in Sessions, NEW i \in Ids, stage[s][i] # "none"
      PROVE  home[i] = s /\ home[i] # 0 /\ PhaseOf(i) # "idle"
    <2>1. kind[i] = "http" /\ home[i] = s
        BY <1>w DEF KindInv, ServerAgrees, HomeInv, WorkIsAtHome
    <2>2. call[i] \in {"waiting", "connected", "failed"} /\ reader[i] \in ReaderState
        BY <1>t, <2>1 DEF KindInv, ClientAgrees, CallState
    <2> QED
        BY <1>s, <2>1, <2>2, PhaseIs DEF ReaderState
<1>made. ASSUME UNCHANGED produced PROVE \A id \in Ids : MadeFor(id)' = MadeFor(id)
    BY <1>made, <1>v DEF MadeFor
<1>quiet. ASSUME UNCHANGED produced,
                 \A s \in Sessions, id \in Ids : stage'[s][id] = "cut" <=> stage[s][id] = "cut"
          PROVE  [Abstract!Next]_(Abstract!vars)
    <2>1. \A id \in Ids : IsCut(id)' = IsCut(id)
        BY <1>quiet, <1>s, <1>v DEF IsCut
    <2> QED
        BY <1>made, <1>p, <1>quiet, <2>1, StepIsInvisible
<1>same. ASSUME UNCHANGED <<produced, stage>> PROVE [Abstract!Next]_(Abstract!vars)
    BY <1>quiet, <1>same
<1>to. ASSUME NEW s \in Sessions, NEW i \in Ids, NEW to, stage[s][i] # "cut", to # "cut",
              SetStage(s, i, to), UNCHANGED produced
       PROVE  [Abstract!Next]_(Abstract!vars)
    BY <1>quiet, <1>t, <1>to DEF SetStage
<1>1. ASSUME NEW s \in Sessions, Dispatch(s) PROVE [Abstract!Next]_(Abstract!vars)
    <2>1. PICK m : /\ Receive(s, m)
                   /\ \/ HandleQuery(s, m) /\ UNCHANGED <<httpVars, udpVars>>
                      \/ HttpReceive(s, m) /\ UNCHANGED <<dnsVars, udpVars>>
                      \/ UdpReceive(s, m) /\ UNCHANGED <<dnsVars, httpVars>>
                      \/ m.type = "ERROR" /\ UNCHANGED <<dnsVars, httpVars, udpVars, down>>
        BY <1>1 DEF Dispatch
    <2>2. m.id \in Ids
        BY <1>v, <2>1, ReceiveAgrees
    <2>3. CASE HandleRequest(s, m)
        <3>1. stage[s][m.id] = "none"
            <4>1. up[s] \in Seq(Asked) /\ up[s] # <<>> /\ m = Head(up[s])
                BY <2>1 DEF Receive, KindInv, ChannelsAgree
            <4>2. 1 \in DOMAIN up[s] /\ up[s][1] = m
                BY <4>1
            <4>3. Begins(m)
                BY <2>3 DEF HandleRequest, Begins
            <4> QED
                BY <4>2, <4>3 DEF HomeInv, BeginningsAreFresh
        <3>2. UNCHANGED produced
            BY <2>3 DEF HandleRequest
        <3>3. SetStage(s, m.id, "fetching") \/ SetStage(s, m.id, "failed")
            BY <2>3 DEF HandleRequest
        <3> QED
            BY <1>to, <2>2, <3>1, <3>2, <3>3
    <2>4. CASE ~HandleRequest(s, m)
        <3>1. UNCHANGED <<produced, stage>>
            BY <2>1, <2>4 DEF HttpReceive, HandleBodyChunk, HandleBodyEnd, httpVars
        <3> QED
            BY <1>same, <3>1
    <2> QED
        BY <2>3, <2>4
<1>2. ASSUME NEW s \in Sessions,
             ServerLinkClosed(s) \/ ServerHeartbeatTimeout(s) \/ CloseTransport(s)
      PROVE  [Abstract!Next]_(Abstract!vars)
    <2>1. UNCHANGED <<produced, stage>>
        BY <1>2 DEF ServerLinkClosed, ServerHeartbeatTimeout, CloseTransport, AbortAll, httpVars
    <2> QED
        BY <1>same, <2>1
<1>3. ASSUME NEW s \in Sessions, NEW i \in Ids,
             \/ DnsStep(s, i) /\ UNCHANGED <<httpVars, udpVars>>
             \/ UdpStep(s, i) /\ UNCHANGED <<dnsVars, httpVars>>
      PROVE  [Abstract!Next]_(Abstract!vars)
    <2>1. UNCHANGED <<produced, stage>>
        BY <1>3 DEF httpVars
    <2> QED
        BY <1>same, <2>1
<1>4. ASSUME NEW s \in Sessions, NEW i \in Ids, ReadBody(s, i)
      PROVE  [Abstract!Next]_(Abstract!vars)
    <2>1. /\ stage[s][i] = "streaming" /\ produced[s][i] < MaxChunks /\ UNCHANGED stage
          /\ produced' = [produced EXCEPT ![s][i] = @ + 1]
        BY <1>4 DEF ReadBody
    <2>2. home[i] = s /\ home[i] # 0 /\ PhaseOf(i) # "idle"
        BY <1>w, <2>1
    <2>3. /\ produced'[s][i] = produced[s][i] + 1
          /\ \A z \in Sessions, id \in Ids : id # i => produced'[z][id] = produced[z][id]
        BY <1>t, <2>1
    <2>4. MadeFor(i) < MaxChunks /\ MadeFor(i)' = MadeFor(i) + 1
        BY <1>v, <2>1, <2>2, <2>3 DEF MadeFor
    <2>5. \A id \in Ids : id # i => MadeFor(id)' = MadeFor(id)
        BY <1>s, <1>v, <2>3 DEF MadeFor
    <2>6. \A id \in Ids : IsCut(id)' = IsCut(id)
        BY <1>v, <2>1 DEF IsCut
    <2>7. Abstract!Produce(i)
        BY <1>p, <2>2, <2>4, <2>5, <2>6, StepProduces
    <2> QED
        BY <2>7 DEF Abstract!Next
<1>5. ASSUME NEW s \in Sessions, NEW i \in Ids, CutOff(s, i)
      PROVE  [Abstract!Next]_(Abstract!vars)
    <2>1. /\ stage[s][i] = "streaming" /\ UNCHANGED produced
          /\ stage' = [stage EXCEPT ![s][i] = "cut"]
        BY <1>5 DEF CutOff, SetStage
    <2>2. home[i] = s /\ home[i] # 0 /\ PhaseOf(i) # "idle"
        BY <1>w, <2>1
    <2>3. /\ stage'[s][i] = "cut"
          /\ \A z \in Sessions, id \in Ids : id # i => stage'[z][id] = stage[z][id]
        BY <1>t, <2>1
    <2>4. \A id \in Ids : IsCut(id)' <=> IsCut(id) \/ id = i
        <3>1. IsCut(i)'
            BY <1>v, <2>2, <2>3 DEF IsCut
        <3>2. \A id \in Ids : id # i => IsCut(id)' = IsCut(id)
            BY <1>s, <1>v, <2>3 DEF IsCut
        <3> QED
            BY <3>1, <3>2
    <2>5. Abstract!CutShort({i})
        BY <1>made, <1>p, <2>1, <2>2, <2>4, StepCutsShort
    <2>6. {i} \in SUBSET Ids
        OBVIOUS
    <2> QED
        BY <2>5, <2>6 DEF Abstract!Next
<1>6. ASSUME NEW s \in Sessions, NEW i \in Ids,
             \/ FetchFails(s, i) \/ Responds(s, i) \/ RespondsWithoutBody(s, i)
             \/ BodyDone(s, i) \/ ReadFails(s, i)
      PROVE  [Abstract!Next]_(Abstract!vars)
    <2>1. /\ stage[s][i] \in {"fetching", "streaming"} /\ UNCHANGED produced
          /\ \E to \in {"failed", "streaming", "done"} : SetStage(s, i, to)
        BY <1>6 DEF FetchFails, Responds, RespondsWithoutBody, BodyDone, ReadFails
    <2> QED
        BY <1>to, <2>1
<1>7. ASSUME NEW s \in Sessions, NEW i \in Ids, BodyCancelled(s, i)
      PROVE  [Abstract!Next]_(Abstract!vars)
    <2>1. UNCHANGED <<produced, stage>>
        BY <1>7 DEF BodyCancelled
    <2> QED
        BY <1>same, <2>1
<1> QED
    BY <1>1, <1>2, <1>3, <1>4, <1>5, <1>6, <1>7 DEF ServerNext, HttpStep, FetchEnds

\* A fetch keeps the promise of Streams: it is settled once, the body its caller
\* reads is what the target sent, in order, and it ends cleanly only when that was
\* all of it or MAX_RESPONSE_SIZE cut it short; whatever reconnections, timers and
\* lost messages do.
THEOREM ExchangesImplementStreams == Spec => ImplementsStreams
<1>1. Init => Abstract!Init
    <2> SUFFICES ASSUME Init PROVE Abstract!Init
        OBVIOUS
    <2>1. \A id \in Ids : call[id] = "none" /\ home[id] = 0 /\ rcvd[id] = <<>>
        BY DEF Init, ClientInit
    <2>2. \A id \in Ids : PhaseOf(id) = "idle"
        BY <2>1, PhaseIs
    <2>3. \A id \in Ids : (IF kind[id] = "http" THEN Len(rcvd[id]) ELSE 0) = 0
        BY <2>1
    <2> QED
        BY <2>1, <2>2, <2>3 DEF Abstract!Init
<1>2. KindInv /\ HomeInv /\ EveryoneIsServed /\ [Next]_vars => [Abstract!Next]_(Abstract!vars)
    <2> SUFFICES ASSUME KindInv, HomeInv, EveryoneIsServed, [Next]_vars
                 PROVE  [Abstract!Next]_(Abstract!vars)
        OBVIOUS
    <2>1. ASSUME UNCHANGED <<home, call, reader, rcvd, kind, stage, produced>>
          PROVE  UNCHANGED Abstract!vars
        <3>1. \A id \in Ids : PhaseOf(id)' = PhaseOf(id)
            BY <2>1, PhaseWillBe
        <3>2. \A id \in Ids : /\ MadeFor(id)' = MadeFor(id) /\ IsCut(id)' = IsCut(id)
                              /\ GivenTo(id)' = GivenTo(id)
            BY <2>1 DEF MadeFor, IsCut, GivenTo
        <3> QED
            BY <3>1, <3>2, StepIsInvisible
    <2>2. CASE UNCHANGED vars
        BY <2>1, <2>2 DEF vars, clientVars, requestVars, serverVars, httpVars
    <2>3. CASE NewSession
        BY <2>1, <2>3 DEF NewSession, Assign, requestVars, httpVars
    <2> QED
        BY <2>2, <2>3, ClientStepIsPromised, ServerStepIsPromised DEF Next
<1> QED
    BY <1>1, <1>2, KindsHold, EverythingIsAtHome, EveryoneStaysServed, PTL
    DEF Spec, ImplementsStreams, Abstract!Spec
===============================================================================
