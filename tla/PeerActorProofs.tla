-------------------------- MODULE PeerActorProofs --------------------------
(***************************************************************************)
(* Proofs about the actor of PeerConnections, for every set of scripts and *)
(* of commands: what becomes of the messages of a peer and of the commands *)
(* of our side.                                                            *)
(***************************************************************************)
EXTENDS PeerConnectionsProofs, FiniteSetTheorems, SequenceTheorems

-----------------------------------------------------------------------------
(* The order in which messages leave the reader. *)

Rank(S, n) == Cardinality({m \in S : m <= n})

\* The rank of a number is its place.
LEMMA RankFacts ==
  ASSUME NEW S, S \subseteq Nat, IsFiniteSet(S)
  PROVE  /\ \A n \in S : Rank(S, n) \in 1 .. Cardinality(S)
         /\ \A m, n \in S : m < n => Rank(S, m) < Rank(S, n)
<1>1. ASSUME NEW n \in S PROVE Rank(S, n) \in 1 .. Cardinality(S)
  <2> DEFINE T == {m \in S : m <= n}
  <2>1. IsFiniteSet(T) /\ Cardinality(T) <= Cardinality(S)
    BY FS_Subset
  <2>2. T # {}
    <3>1. n \in T
      OBVIOUS
    <3> QED BY <3>1
  <2>3. Cardinality(T) \in Nat /\ Cardinality(T) # 0 /\ Cardinality(S) \in Nat
    BY <2>1, <2>2, FS_CardinalityType, FS_EmptySet
  <2> QED BY <2>1, <2>3 DEF Rank
<1>2. ASSUME NEW m \in S, NEW n \in S, m < n PROVE Rank(S, m) < Rank(S, n)
  <2> DEFINE A == {k \in S : k <= m}
             B == {k \in S : k <= n}
  <2>1. IsFiniteSet(B) /\ A \in SUBSET B /\ n \in B /\ n \notin A
    <3>1. B \in SUBSET S
      OBVIOUS
    <3>2. \A k \in S : k <= m => k <= n
      BY <1>2
    <3>3. ~(n <= m) /\ n <= n
      BY <1>2
    <3> QED BY <3>1, <3>2, <3>3, FS_Subset
  <2>2. Cardinality(A) <= Cardinality(B) /\ Cardinality(A) # Cardinality(B)
    BY <2>1, FS_Subset
  <2>3. Cardinality(A) \in Nat /\ Cardinality(B) \in Nat
    BY <2>1, FS_Subset, FS_CardinalityType
  <2> QED BY <2>2, <2>3 DEF Rank
<1> QED BY <1>1, <1>2

\* Ascending lists every number of a finite set, once, and the smaller first.
LEMMA AscendingFacts ==
  ASSUME NEW S, S \subseteq Nat, IsFiniteSet(S)
  PROVE  /\ Ascending(S) \in Seq(S)
         /\ \A n \in S : \E i \in DOMAIN Ascending(S) : Ascending(S)[i] = n
         /\ \A i, j \in DOMAIN Ascending(S) : i < j => Ascending(S)[i] < Ascending(S)[j]
<1> DEFINE c == Cardinality(S)
           f == [n \in S |-> Rank(S, n)]
<1>1. c \in Nat /\ IsFiniteSet(1 .. c) /\ Cardinality(1 .. c) = c
  BY FS_CardinalityType, FS_Interval
<1>2. f \in Injection(S, 1 .. c)
  <2>1. f \in [S -> 1 .. c]
    BY RankFacts
  <2>2. ASSUME NEW m \in S, NEW n \in S, f[m] = f[n] PROVE m = n
    <3>1. m \in Nat /\ n \in Nat /\ Rank(S, m) = Rank(S, n)
      BY <2>2
    <3>2. Rank(S, m) \in 1 .. c /\ c \in Nat
      BY <1>1, RankFacts
    <3>3. ~(m < n) /\ ~(n < m)
      <4>1. m < n => Rank(S, m) < Rank(S, n)
        BY RankFacts
      <4>2. n < m => Rank(S, n) < Rank(S, m)
        BY RankFacts
      <4> QED BY <3>1, <3>2, <4>1, <4>2
    <3> QED BY <3>1, <3>3
  <2> QED BY <2>1, <2>2 DEF Injection, IsInjective
<1>3. f \in Surjection(S, 1 .. c)
  BY <1>1, <1>2, FS_Injection
<1>4. ASSUME NEW i \in 1 .. c
      PROVE  Ascending(S)[i] \in S /\ Rank(S, Ascending(S)[i]) = i
  <2>1. \E n \in S : f[n] = i
    BY <1>3 DEF Surjection
  <2>2. \E n \in S : Cardinality({m \in S : m <= n}) = i
    BY <2>1 DEF Rank
  <2>3. Ascending(S)[i] = CHOOSE n \in S : Cardinality({m \in S : m <= n}) = i
    BY DEF Ascending
  <2> QED BY <2>2, <2>3 DEF Rank
<1>5. DOMAIN Ascending(S) = 1 .. c
  BY DEF Ascending
<1>6. Ascending(S) \in Seq(S)
  <2>1. Ascending(S) = [i \in 1 .. c |-> Ascending(S)[i]]
    BY DEF Ascending
  <2>2. Ascending(S) \in [1 .. c -> S]
    BY <1>4, <2>1
  <2> QED BY <1>1, <2>2
<1>7. ASSUME NEW n \in S PROVE \E i \in 1 .. c : Ascending(S)[i] = n
  <2>1. Rank(S, n) \in 1 .. c
    BY RankFacts
  <2>2. PICK k \in S : k = Ascending(S)[Rank(S, n)] /\ Rank(S, k) = Rank(S, n)
    BY <1>4, <2>1
  <2>3. k < n => Rank(S, k) < Rank(S, n)
    BY RankFacts
  <2>4. n < k => Rank(S, n) < Rank(S, k)
    BY RankFacts
  <2>5. k = n
    BY <1>1, <2>1, <2>2, <2>3, <2>4
  <2> QED BY <2>1, <2>2, <2>5
<1>8. ASSUME NEW i \in 1 .. c, NEW j \in 1 .. c, i < j
      PROVE  Ascending(S)[i] < Ascending(S)[j]
  <2> DEFINE m == Ascending(S)[i]
             n == Ascending(S)[j]
  <2>1. m \in S /\ n \in S /\ Rank(S, m) = i /\ Rank(S, n) = j
    BY <1>4
  <2> HIDE DEF m, n
  <2>2. n < m => Rank(S, n) < Rank(S, m)
    BY <2>1, RankFacts
  <2>3. m < n
    BY <1>1, <1>8, <2>1, <2>2
  <2> QED BY <2>3 DEF m, n
<1> QED BY <1>5, <1>6, <1>7, <1>8

-----------------------------------------------------------------------------
(* The messages handled and still to handle, as one sequence. *)

Silent(s) == \A i \in DOMAIN s : s[i][1] # "Message"

Increasing(s) == \A i, j \in Messages(s) : i < j => s[i][2] < s[j][2]

\* The messages of a flow are of the first e items, those that have a handler are
\* in it once, and what stands after a later message is, of all that came
\* before it, the earliest but for what stands between the two.
FlowOK(s, e) ==
  /\ \A i \in Messages(s) : s[i][2] \in 1 .. e
  /\ \A i, j, k \in Messages(s) :
       i < j /\ s[i][2] > s[j][2] /\ s[j][2] > s[k][2] => i < k /\ k < j
  /\ \A n \in 1 .. e :
       script[n] \in Handled
         => \E i \in DOMAIN s : \A j \in DOMAIN s : s[j] = Message(n) <=> j = i

\* v is u with the y elements after the first a, none a message, replaced by x.
Replaces(u, v, a, y, x) ==
  /\ Len(u) \in Nat /\ DOMAIN u = 1 .. Len(u)
  /\ Len(v) \in Nat /\ DOMAIN v = 1 .. Len(v)
  /\ a + y <= Len(u) /\ Len(v) = Len(u) - y + x
  /\ \A i \in 1 .. a : v[i] = u[i]
  /\ \A i \in a + 1 .. a + y : u[i][1] # "Message"
  /\ \A i \in a + x + 1 .. Len(v) : v[i] = u[i - x + y]

\* Where an element of v outside of the new ones is in u.
Was(i, a, y, x) == IF i <= a THEN i ELSE i - x + y

\* All the rest of v is in u, where u has what was not replaced, in the same order.
Kept(u, v, a, y, x) ==
  /\ \A i \in DOMAIN v \ (a + 1 .. a + x) :
       Was(i, a, y, x) \in DOMAIN u /\ u[Was(i, a, y, x)] = v[i]
  /\ \A i, j \in DOMAIN v \ (a + 1 .. a + x) :
       i < j <=> Was(i, a, y, x) < Was(j, a, y, x)
  /\ \A k \in DOMAIN u \ (a + 1 .. a + y) :
       \E i \in DOMAIN v \ (a + 1 .. a + x) : Was(i, a, y, x) = k

LEMMA WasFacts ==
  ASSUME NEW u, NEW v, NEW a \in Nat, NEW y \in Nat, NEW x \in Nat, Replaces(u, v, a, y, x)
  PROVE  Kept(u, v, a, y, x)
<1>1. /\ Len(u) \in Nat /\ DOMAIN u = 1 .. Len(u)
      /\ Len(v) \in Nat /\ DOMAIN v = 1 .. Len(v)
      /\ a + y <= Len(u) /\ Len(v) = Len(u) - y + x
  BY DEF Replaces
<1>2. ASSUME NEW i \in DOMAIN v \ (a + 1 .. a + x)
      PROVE  Was(i, a, y, x) \in DOMAIN u /\ u[Was(i, a, y, x)] = v[i]
  <2>1. CASE i <= a
    BY <1>1, <1>2, <2>1 DEF Replaces, Was
  <2>2. CASE i > a + x
    BY <1>1, <1>2, <2>2 DEF Replaces, Was
  <2> QED BY <1>1, <1>2, <2>1, <2>2
<1>3. ASSUME NEW i \in DOMAIN v \ (a + 1 .. a + x), NEW j \in DOMAIN v \ (a + 1 .. a + x)
      PROVE  i < j <=> Was(i, a, y, x) < Was(j, a, y, x)
  BY <1>1, <1>3 DEF Was
<1>4. ASSUME NEW k \in DOMAIN u \ (a + 1 .. a + y)
      PROVE  \E i \in DOMAIN v \ (a + 1 .. a + x) : Was(i, a, y, x) = k
  <2>1. CASE k <= a
    <3>1. k \in DOMAIN v \ (a + 1 .. a + x) /\ Was(k, a, y, x) = k
      BY <1>1, <1>4, <2>1 DEF Was
    <3> QED BY <3>1
  <2>2. CASE k > a + y
    <3>1. /\ k - y + x \in DOMAIN v \ (a + 1 .. a + x)
          /\ Was(k - y + x, a, y, x) = k
      BY <1>1, <1>4, <2>2 DEF Was
    <3> QED BY <3>1
  <2> QED BY <1>1, <1>4, <2>1, <2>2
<1> QED BY <1>2, <1>3, <1>4 DEF Kept

\* Elements that are no message come and go.
LEMMA QuietFlow ==
  ASSUME NEW e \in Nat, NEW u, NEW v, NEW a \in Nat, NEW y \in Nat, NEW x \in Nat,
         Replaces(u, v, a, y, x), \A i \in a + 1 .. a + x : v[i][1] # "Message",
         FlowOK(u, e)
  PROVE  FlowOK(v, e)
<1>1. /\ \A i \in DOMAIN v \ (a + 1 .. a + x) : Was(i, a, y, x) \in DOMAIN u /\ u[Was(i, a, y, x)] = v[i]
      /\ \A i, j \in DOMAIN v \ (a + 1 .. a + x) : i < j <=> Was(i, a, y, x) < Was(j, a, y, x)
      /\ \A k \in DOMAIN u \ (a + 1 .. a + y) :
           \E i \in DOMAIN v \ (a + 1 .. a + x) : Was(i, a, y, x) = k
  <2>1. Kept(u, v, a, y, x)
    BY WasFacts
  <2> QED BY <2>1 DEF Kept
<1>2. /\ DOMAIN u \subseteq Nat /\ DOMAIN v \subseteq Nat
      /\ \A i \in a + 1 .. a + y : u[i][1] # "Message"
  BY DEF Replaces
<1>3. /\ \A i \in Messages(v) : Was(i, a, y, x) \in Messages(u) /\ u[Was(i, a, y, x)] = v[i]
      /\ \A i, j \in Messages(v) : i < j <=> Was(i, a, y, x) < Was(j, a, y, x)
  BY <1>1 DEF Messages
<1>4. \A i \in Messages(v) : v[i][2] \in 1 .. e
  BY <1>3 DEF FlowOK
<1>5. ASSUME NEW i \in Messages(v), NEW j \in Messages(v), NEW k \in Messages(v),
             i < j, v[i][2] > v[j][2], v[j][2] > v[k][2]
      PROVE  i < k /\ k < j
  <2>1. Was(i, a, y, x) < Was(k, a, y, x) /\ Was(k, a, y, x) < Was(j, a, y, x)
    BY <1>3, <1>5 DEF FlowOK
  <2> QED BY <1>3, <2>1
<1>6. ASSUME NEW n \in 1 .. e, script[n] \in Handled
      PROVE  \E i \in DOMAIN v : \A j \in DOMAIN v : v[j] = Message(n) <=> j = i
  <2>1. PICK k \in DOMAIN u : \A l \in DOMAIN u : u[l] = Message(n) <=> l = k
    BY <1>6 DEF FlowOK
  <2>2. Message(n)[1] = "Message" /\ u[k] = Message(n)
    BY <2>1 DEF Message
  <2>3. k \in DOMAIN u \ (a + 1 .. a + y)
    BY <1>2, <2>2
  <2>4. PICK i \in DOMAIN v \ (a + 1 .. a + x) : Was(i, a, y, x) = k
    BY <1>1, <2>3
  <2>5. ASSUME NEW j \in DOMAIN v PROVE v[j] = Message(n) <=> j = i
    <3>1. CASE j \in a + 1 .. a + x
      BY <2>2, <2>4, <3>1
    <3>2. CASE j \notin a + 1 .. a + x
      <4>1. v[j] = Message(n) <=> Was(j, a, y, x) = Was(i, a, y, x)
        BY <1>1, <2>1, <2>4, <3>2
      <4>2. Was(j, a, y, x) = Was(i, a, y, x) <=> j = i
        BY <1>1, <1>2, <2>4, <3>2
      <4> QED BY <4>1, <4>2
    <3> QED BY <3>1, <3>2
  <2> QED BY <2>4, <2>5
<1> QED BY <1>4, <1>5, <1>6 DEF FlowOK

\* The x elements of v after the first a bring the messages of the items e + 1 to f.
BroughtAt(v, a, x, e, f) ==
  /\ \A i \in Messages(v) : i \in a + 1 .. a + x => v[i][2] \in e + 1 .. f
  /\ \A i, j \in Messages(v) :
       i \in a + 1 .. a + x /\ j \in a + 1 .. a + x /\ i < j => v[i][2] < v[j][2]
  /\ \A n \in e + 1 .. f :
       script[n] \in Handled
         => \E i \in DOMAIN v : i \in a + 1 .. a + x /\ v[i] = Message(n)

\* The messages of u are all in its first a elements, or all behind and in order.
PartsAt(u, a) ==
  \/ \A i \in Messages(u) : i <= a
  \/ Increasing(u) /\ \A i \in Messages(u) : i > a

\* So do the messages of later items, in their order, behind all others, or before
\* others that are in order too.
LEMMA NewFlow ==
  ASSUME NEW e \in Nat, NEW f \in Nat, e <= f,
         NEW u, NEW v, NEW a \in Nat, NEW y \in Nat, NEW x \in Nat,
         Replaces(u, v, a, y, x), FlowOK(u, e), BroughtAt(v, a, x, e, f), PartsAt(u, a)
  PROVE  FlowOK(v, f)
<1> DEFINE New == a + 1 .. a + x
<1>0. /\ \A i \in Messages(v) : i \in a + 1 .. a + x => v[i][2] \in e + 1 .. f
      /\ \A i, j \in Messages(v) :
           i \in a + 1 .. a + x /\ j \in a + 1 .. a + x /\ i < j => v[i][2] < v[j][2]
      /\ \A n \in e + 1 .. f :
           script[n] \in Handled
             => \E i \in DOMAIN v : i \in a + 1 .. a + x /\ v[i] = Message(n)
      /\ \/ \A i \in Messages(u) : i <= a
         \/ Increasing(u) /\ \A i \in Messages(u) : i > a
  BY DEF BroughtAt, PartsAt
<1>1. /\ \A i \in DOMAIN v \ New :
           Was(i, a, y, x) \in DOMAIN u /\ u[Was(i, a, y, x)] = v[i]
      /\ \A i, j \in DOMAIN v \ New : i < j <=> Was(i, a, y, x) < Was(j, a, y, x)
      /\ \A k \in DOMAIN u \ (a + 1 .. a + y) :
           \E i \in DOMAIN v \ New : Was(i, a, y, x) = k
  <2>1. Kept(u, v, a, y, x)
    BY WasFacts
  <2> QED BY <2>1 DEF Kept
<1>2. /\ DOMAIN u \subseteq Nat /\ DOMAIN v \subseteq Nat
      /\ \A i \in a + 1 .. a + y : u[i][1] # "Message"
      /\ \A i \in DOMAIN v \ New : i <= a => Was(i, a, y, x) = i
      /\ \A i \in DOMAIN v \ New : i > a => i > a + x /\ Was(i, a, y, x) > a
  BY DEF Replaces, Was
<1>3. /\ \A i \in Messages(v) \ New :
           Was(i, a, y, x) \in Messages(u) /\ u[Was(i, a, y, x)] = v[i]
      /\ \A i, j \in Messages(v) \ New : i < j <=> Was(i, a, y, x) < Was(j, a, y, x)
  BY <1>1 DEF Messages
<1>4. /\ \A i \in Messages(v) \ New : v[i][2] \in 1 .. e
      /\ \A i \in Messages(v) \cap New : v[i][2] \in e + 1 .. f
      /\ Messages(v) \subseteq DOMAIN v
  BY <1>0, <1>3 DEF FlowOK, Messages
<1>5. ASSUME NEW i \in Messages(v), NEW j \in Messages(v), NEW k \in Messages(v),
             i < j, v[i][2] > v[j][2], v[j][2] > v[k][2]
      PROVE  i < k /\ k < j
  <2>1. j \notin New
    BY <1>0, <1>4, <1>5
  <2>2. k \notin New
    BY <1>4, <1>5, <2>1
  <2>3. CASE i \notin New
    <3>1. Was(i, a, y, x) < Was(k, a, y, x) /\ Was(k, a, y, x) < Was(j, a, y, x)
      BY <1>3, <1>5, <2>1, <2>2, <2>3 DEF FlowOK
    <3> QED BY <1>3, <2>1, <2>2, <2>3, <3>1
  <2>4. CASE i \in New
    <3>1. j > a
      BY <1>2, <1>4, <1>5, <2>4
    <3>2. Was(j, a, y, x) \in Messages(u) /\ Was(j, a, y, x) > a
      BY <1>2, <1>3, <1>4, <2>1, <3>1
    <3>3. Increasing(u) /\ \A l \in Messages(u) : l > a
      BY <1>0, <1>2, <3>2 DEF Messages
    <3>4. k > a + x
      <4>1. Was(k, a, y, x) \in Messages(u)
        BY <1>3, <2>2
      <4>2. Was(k, a, y, x) > a
        BY <3>3, <4>1
      <4> QED BY <1>2, <1>4, <2>2, <4>2
    <3>5. ~(Was(j, a, y, x) < Was(k, a, y, x)) /\ Was(k, a, y, x) # Was(j, a, y, x)
      BY <1>3, <1>4, <1>5, <2>1, <2>2, <3>3 DEF Increasing
    <3>6. k < j
      <4>1. Was(k, a, y, x) < Was(j, a, y, x)
        BY <1>2, <1>3, <2>1, <2>2, <3>5 DEF Messages
      <4> QED BY <1>3, <2>1, <2>2, <4>1
    <3> QED BY <1>2, <1>4, <2>4, <3>4, <3>6
  <2> QED BY <2>3, <2>4
<1>6. ASSUME NEW n \in 1 .. f, script[n] \in Handled
      PROVE  \E i \in DOMAIN v : \A j \in DOMAIN v : v[j] = Message(n) <=> j = i
  <2>1. Message(n)[1] = "Message" /\ Message(n)[2] = n
    BY DEF Message
  <2>2. CASE n <= e
    <3>1. PICK k \in DOMAIN u : \A l \in DOMAIN u : u[l] = Message(n) <=> l = k
      BY <1>6, <2>2 DEF FlowOK
    <3>2. k \in DOMAIN u \ (a + 1 .. a + y)
      BY <1>2, <2>1, <3>1
    <3>3. PICK i \in DOMAIN v \ New : Was(i, a, y, x) = k
      BY <1>1, <3>2
    <3>4. ASSUME NEW j \in DOMAIN v PROVE v[j] = Message(n) <=> j = i
      <4>1. CASE j \in New
        BY <1>4, <2>1, <2>2, <3>3, <4>1 DEF Messages
      <4>2. CASE j \notin New
        <5>1. v[j] = Message(n) <=> Was(j, a, y, x) = Was(i, a, y, x)
          BY <1>1, <3>1, <3>3, <4>2
        <5>2. Was(j, a, y, x) = Was(i, a, y, x) <=> j = i
          BY <1>1, <1>2, <3>3, <4>2
        <5> QED BY <5>1, <5>2
      <4> QED BY <4>1, <4>2
    <3> QED BY <3>3, <3>4
  <2>3. CASE n > e
    <3>1. PICK i \in DOMAIN v : i \in New /\ v[i] = Message(n)
      BY <1>0, <1>6, <2>3
    <3>2. ASSUME NEW j \in DOMAIN v, v[j] = Message(n) PROVE j = i
      <4>1. j \in Messages(v) /\ i \in Messages(v) /\ v[j][2] = n /\ v[i][2] = n
        BY <2>1, <3>1, <3>2 DEF Messages
      <4>2. j \in New
        BY <1>4, <2>3, <4>1
      <4>3. ~(i < j) /\ ~(j < i)
        BY <1>0, <3>1, <4>1, <4>2
      <4> QED BY <1>2, <4>3
    <3> QED BY <3>1, <3>2
  <2> QED BY <2>2, <2>3
<1>7. \A i \in Messages(v) : v[i][2] \in 1 .. f
  BY <1>4
<1> QED BY <1>5, <1>6, <1>7 DEF FlowOK

-----------------------------------------------------------------------------
(* A flow is two sequences one after the other. *)

LEMMA SilentConcat ==
  ASSUME NEW S, NEW s \in Seq(S), NEW t \in Seq(S)
  PROVE  Silent(s \o t) <=> Silent(s) /\ Silent(t)
<1>1. /\ Len(s) \in Nat /\ Len(t) \in Nat /\ DOMAIN s = 1 .. Len(s) /\ DOMAIN t = 1 .. Len(t)
      /\ DOMAIN (s \o t) = 1 .. Len(s) + Len(t)
      /\ \A i \in 1 .. Len(s) : (s \o t)[i] = s[i]
      /\ \A i \in 1 .. Len(t) : (s \o t)[Len(s) + i] = t[i]
  BY ConcatProperties, LenProperties
<1>2. ASSUME Silent(s \o t) PROVE Silent(s)
  BY <1>1, <1>2 DEF Silent
<1>3. ASSUME Silent(s \o t), NEW i \in DOMAIN t PROVE t[i][1] # "Message"
  <2>1. Len(s) + i \in DOMAIN (s \o t) /\ (s \o t)[Len(s) + i] = t[i]
    BY <1>1
  <2> QED BY <1>3, <2>1 DEF Silent
<1>4. ASSUME Silent(s), Silent(t), NEW i \in DOMAIN (s \o t) PROVE (s \o t)[i][1] # "Message"
  <2>1. CASE i <= Len(s)
    BY <1>1, <1>4, <2>1 DEF Silent
  <2>2. CASE i > Len(s)
    <3>1. i - Len(s) \in 1 .. Len(t) /\ Len(s) + (i - Len(s)) = i
      BY <1>1, <2>2
    <3>2. (s \o t)[i] = t[i - Len(s)]
      BY <1>1, <3>1
    <3> QED BY <1>1, <1>4, <3>1, <3>2 DEF Silent
  <2> QED BY <1>1, <2>1, <2>2
<1> QED BY <1>2, <1>3, <1>4 DEF Silent

LEMMA Splice ==
  ASSUME NEW S, NEW A \in Seq(S), NEW Y \in Seq(S), NEW X \in Seq(S), NEW B \in Seq(S),
         Silent(Y)
  PROVE  /\ Replaces(A \o (Y \o B), A \o (X \o B), Len(A), Len(Y), Len(X))
         /\ \A i \in 1 .. Len(X) : (A \o (X \o B))[Len(A) + i] = X[i]
<1> DEFINE u == A \o (Y \o B)
           v == A \o (X \o B)
<1>1. /\ Len(A) \in Nat /\ Len(Y) \in Nat /\ Len(X) \in Nat /\ Len(B) \in Nat
      /\ DOMAIN Y = 1 .. Len(Y)
  BY LenProperties
<1>2. ASSUME NEW Z \in Seq(S)
      PROVE  /\ A \o (Z \o B) \in Seq(S)
             /\ Len(A \o (Z \o B)) = Len(A) + (Len(Z) + Len(B))
             /\ \A i \in 1 .. Len(A) : (A \o (Z \o B))[i] = A[i]
             /\ \A i \in 1 .. Len(Z) : (A \o (Z \o B))[Len(A) + i] = Z[i]
             /\ \A i \in 1 .. Len(B) : (A \o (Z \o B))[Len(A) + (Len(Z) + i)] = B[i]
  <2> DEFINE w == A \o (Z \o B)
             r == Z \o B
  <2>1. Len(Z) \in Nat
    BY LenProperties
  <2>2. /\ r \in Seq(S) /\ Len(r) = Len(Z) + Len(B)
        /\ \A i \in 1 .. Len(Z) + Len(B) : r[i] = IF i <= Len(Z) THEN Z[i] ELSE B[i - Len(Z)]
    BY ConcatProperties
  <2> HIDE DEF r
  <2>3. /\ A \o r \in Seq(S) /\ Len(A \o r) = Len(A) + Len(r)
        /\ \A i \in 1 .. Len(A) + Len(r) :
             (A \o r)[i] = IF i <= Len(A) THEN A[i] ELSE r[i - Len(A)]
    <3>1. r \in Seq(S)
      BY <2>2
    <3> QED BY <3>1, ConcatProperties
  <2>4. \A i \in 1 .. Len(A) : (A \o r)[i] = A[i]
    BY <1>1, <2>1, <2>2, <2>3
  <2>5. ASSUME NEW i \in 1 .. Len(Z) PROVE (A \o r)[Len(A) + i] = Z[i]
    <3>1. Len(A) + i \in 1 .. Len(A) + Len(r) /\ ~(Len(A) + i <= Len(A))
          /\ (Len(A) + i) - Len(A) = i /\ i \in 1 .. Len(Z) + Len(B) /\ i <= Len(Z)
      BY <1>1, <2>1, <2>2
    <3> QED BY <2>2, <2>3, <3>1
  <2>6. ASSUME NEW i \in 1 .. Len(B) PROVE (A \o r)[Len(A) + (Len(Z) + i)] = B[i]
    <3>1. /\ Len(A) + (Len(Z) + i) \in 1 .. Len(A) + Len(r)
          /\ ~(Len(A) + (Len(Z) + i) <= Len(A))
          /\ (Len(A) + (Len(Z) + i)) - Len(A) = Len(Z) + i
          /\ Len(Z) + i \in 1 .. Len(Z) + Len(B) /\ ~(Len(Z) + i <= Len(Z))
          /\ (Len(Z) + i) - Len(Z) = i
      BY <1>1, <2>1, <2>2
    <3> QED BY <2>2, <2>3, <3>1
  <2> QED BY <2>2, <2>3, <2>4, <2>5, <2>6 DEF r
<1>3. /\ u \in Seq(S) /\ Len(u) = Len(A) + (Len(Y) + Len(B))
      /\ \A i \in 1 .. Len(A) : u[i] = A[i]
      /\ \A i \in 1 .. Len(Y) : u[Len(A) + i] = Y[i]
      /\ \A i \in 1 .. Len(B) : u[Len(A) + (Len(Y) + i)] = B[i]
  BY <1>2
<1>4. /\ v \in Seq(S) /\ Len(v) = Len(A) + (Len(X) + Len(B))
      /\ \A i \in 1 .. Len(A) : v[i] = A[i]
      /\ \A i \in 1 .. Len(X) : v[Len(A) + i] = X[i]
      /\ \A i \in 1 .. Len(B) : v[Len(A) + (Len(X) + i)] = B[i]
  BY <1>2
<1> HIDE DEF u, v
<1>5. DOMAIN u = 1 .. Len(u) /\ DOMAIN v = 1 .. Len(v)
  BY <1>3, <1>4, LenProperties
<1>6. ASSUME NEW i \in Len(A) + 1 .. Len(A) + Len(Y) PROVE u[i][1] # "Message"
  <2>1. i - Len(A) \in 1 .. Len(Y) /\ Len(A) + (i - Len(A)) = i
    BY <1>1
  <2>2. u[i] = Y[i - Len(A)]
    BY <1>3, <2>1
  <2> QED BY <1>1, <2>1, <2>2 DEF Silent
<1>7. ASSUME NEW i \in Len(A) + Len(X) + 1 .. Len(v) PROVE v[i] = u[i - Len(X) + Len(Y)]
  <2> DEFINE k == i - (Len(A) + Len(X))
  <2>1. /\ k \in 1 .. Len(B) /\ Len(A) + (Len(X) + k) = i
        /\ Len(A) + (Len(Y) + k) = i - Len(X) + Len(Y)
    BY <1>1, <1>4
  <2> HIDE DEF k
  <2> QED BY <1>3, <1>4, <2>1
<1> QED
  BY <1>1, <1>3, <1>4, <1>5, <1>6, <1>7 DEF Replaces, u, v

LEMMA QuietSplice ==
  ASSUME NEW S, NEW A \in Seq(S), NEW Y \in Seq(S), NEW X \in Seq(S), NEW B \in Seq(S),
         NEW e \in Nat, Silent(Y), Silent(X), FlowOK(A \o (Y \o B), e)
  PROVE  FlowOK(A \o (X \o B), e)
<1> DEFINE u == A \o (Y \o B)
           v == A \o (X \o B)
<1>1. /\ Replaces(u, v, Len(A), Len(Y), Len(X))
      /\ \A i \in 1 .. Len(X) : v[Len(A) + i] = X[i]
  BY Splice
<1>2. Len(A) \in Nat /\ Len(Y) \in Nat /\ Len(X) \in Nat /\ DOMAIN X = 1 .. Len(X)
  BY LenProperties
<1>3. FlowOK(u, e)
  OBVIOUS
<1> HIDE DEF u, v
<1>4. ASSUME NEW i \in Len(A) + 1 .. Len(A) + Len(X) PROVE v[i][1] # "Message"
  <2>1. i - Len(A) \in 1 .. Len(X) /\ Len(A) + (i - Len(A)) = i
    BY <1>2
  <2>2. v[i] = X[i - Len(A)]
    BY <1>1, <2>1
  <2> QED BY <1>2, <2>1, <2>2 DEF Silent
<1>5. FlowOK(v, e)
  BY <1>1, <1>2, <1>3, <1>4, QuietFlow
<1> QED BY <1>5 DEF v

\* X brings the messages of the items e + 1 to f.
Brings(X, e, f) ==
  /\ \A i \in Messages(X) : X[i][2] \in e + 1 .. f
  /\ Increasing(X)
  /\ \A n \in e + 1 .. f :
       script[n] \in Handled => \E i \in DOMAIN X : X[i] = Message(n)

LEMMA NewSplice ==
  ASSUME NEW S, NEW A \in Seq(S), NEW Y \in Seq(S), NEW X \in Seq(S), NEW B \in Seq(S),
         NEW e \in Nat, NEW f \in Nat, e <= f, Silent(Y), Brings(X, e, f),
         Silent(B) \/ (Silent(A) /\ Increasing(Y \o B)),
         FlowOK(A \o (Y \o B), e)
  PROVE  FlowOK(A \o (X \o B), f)
<1> DEFINE u == A \o (Y \o B)
           v == A \o (X \o B)
           a == Len(A)
           x == Len(X)
<1>1. /\ Replaces(u, v, a, Len(Y), x)
      /\ \A i \in 1 .. x : v[a + i] = X[i]
  BY Splice
<1>2. /\ a \in Nat /\ Len(Y) \in Nat /\ x \in Nat /\ Len(B) \in Nat
      /\ DOMAIN X = 1 .. x /\ DOMAIN A = 1 .. a
  BY LenProperties
<1>3. FlowOK(u, e)
  OBVIOUS
<1>4. /\ DOMAIN u = 1 .. a + Len(Y \o B) /\ Len(Y \o B) \in Nat
      /\ DOMAIN (Y \o B) = 1 .. Len(Y \o B)
      /\ \A i \in 1 .. a : u[i] = A[i]
      /\ \A i \in a + 1 .. a + Len(Y \o B) : u[i] = (Y \o B)[i - a]
  <2>1. Y \o B \in Seq(S)
    BY ConcatProperties
  <2> DEFINE r == Y \o B
  <2> HIDE DEF r
  <2>2. r \in Seq(S)
    BY <2>1 DEF r
  <2>3. /\ A \o r \in Seq(S) /\ Len(A \o r) = a + Len(r) /\ Len(r) \in Nat
        /\ DOMAIN r = 1 .. Len(r) /\ DOMAIN (A \o r) = 1 .. Len(A \o r)
        /\ \A i \in 1 .. a + Len(r) : (A \o r)[i] = IF i <= a THEN A[i] ELSE r[i - a]
    BY <2>2, ConcatProperties, LenProperties
  <2>4. /\ \A i \in 1 .. a : (A \o r)[i] = A[i]
        /\ \A i \in a + 1 .. a + Len(r) : (A \o r)[i] = r[i - a]
    BY <1>2, <2>3
  <2> QED BY <2>3, <2>4 DEF r
<1>5. \/ \A i \in Messages(u) : i <= a
      \/ Increasing(u) /\ \A i \in Messages(u) : i > a
  <2>1. CASE Silent(B)
    <3>1. Silent(Y \o B)
      BY <2>1, SilentConcat
    <3>2. ASSUME NEW i \in Messages(u), ~(i <= a) PROVE FALSE
      <4>1. i - a \in DOMAIN (Y \o B) /\ u[i] = (Y \o B)[i - a]
        BY <1>2, <1>4, <3>2 DEF Messages
      <4> QED BY <3>1, <3>2, <4>1 DEF Silent, Messages
    <3> QED BY <3>2
  <2>2. CASE Silent(A) /\ Increasing(Y \o B)
    <3>1. ASSUME NEW i \in Messages(u) PROVE i > a /\ i - a \in Messages(Y \o B)
      <4>1. ~(i <= a)
        BY <1>2, <1>4, <2>2, <3>1 DEF Silent, Messages
      <4>2. i > a /\ i - a \in DOMAIN (Y \o B) /\ u[i] = (Y \o B)[i - a]
        BY <1>2, <1>4, <3>1, <4>1 DEF Messages
      <4> QED BY <3>1, <4>2 DEF Messages
    <3>2. ASSUME NEW i \in Messages(u), NEW j \in Messages(u), i < j
          PROVE  u[i][2] < u[j][2]
      <4>1. i \in 1 .. a + Len(Y \o B) /\ j \in 1 .. a + Len(Y \o B) /\ i > a /\ j > a
        BY <1>4, <3>1, <3>2 DEF Messages
      <4>2. i \in a + 1 .. a + Len(Y \o B) /\ j \in a + 1 .. a + Len(Y \o B) /\ i - a < j - a
        BY <1>2, <1>4, <3>2, <4>1
      <4>3. u[i] = (Y \o B)[i - a] /\ u[j] = (Y \o B)[j - a]
        BY <1>4, <4>2
      <4>4. i - a \in Messages(Y \o B) /\ j - a \in Messages(Y \o B)
        BY <3>1
      <4> QED BY <2>2, <4>2, <4>3, <4>4 DEF Increasing
    <3> QED BY <3>1, <3>2 DEF Increasing
  <2> QED BY <2>1, <2>2
<1> HIDE DEF u, v, a, x
<1>6. ASSUME NEW i \in Messages(v), i \in a + 1 .. a + x
      PROVE  i - a \in Messages(X) /\ v[i] = X[i - a]
  <2>1. i - a \in 1 .. x /\ a + (i - a) = i
    BY <1>2, <1>6
  <2>2. v[i] = X[i - a]
    BY <1>1, <2>1
  <2> QED BY <1>2, <1>6, <2>1, <2>2 DEF Messages
<1>7. \A i \in Messages(v) : i \in a + 1 .. a + x => v[i][2] \in e + 1 .. f
  BY <1>6 DEF Brings
<1>8. ASSUME NEW i \in Messages(v), NEW j \in Messages(v),
             i \in a + 1 .. a + x, j \in a + 1 .. a + x, i < j
      PROVE  v[i][2] < v[j][2]
  <2>1. /\ i - a \in Messages(X) /\ v[i] = X[i - a]
        /\ j - a \in Messages(X) /\ v[j] = X[j - a]
    BY <1>6, <1>8
  <2>2. i - a < j - a
    BY <1>2, <1>8
  <2> QED BY <2>1, <2>2 DEF Brings, Increasing
<1>9. ASSUME NEW n \in e + 1 .. f, script[n] \in Handled
      PROVE  \E i \in DOMAIN v : i \in a + 1 .. a + x /\ v[i] = Message(n)
  <2>1. PICK i \in 1 .. x : X[i] = Message(n)
    BY <1>2, <1>9 DEF Brings
  <2>2. a + i \in a + 1 .. a + x /\ v[a + i] = Message(n) /\ a + i \in DOMAIN v
    BY <1>1, <1>2, <2>1 DEF Replaces
  <2> QED BY <2>2
<1>10. \A i, j \in Messages(v) :
         i \in a + 1 .. a + x /\ j \in a + 1 .. a + x /\ i < j => v[i][2] < v[j][2]
  BY <1>8
<1>11. \A n \in e + 1 .. f :
         script[n] \in Handled
           => \E i \in DOMAIN v : i \in a + 1 .. a + x /\ v[i] = Message(n)
  BY <1>9
<1>12. Replaces(u, v, a, Len(Y), x) /\ a \in Nat /\ Len(Y) \in Nat /\ x \in Nat
  BY <1>1, <1>2
<1>13. BroughtAt(v, a, x, e, f) /\ PartsAt(u, a)
  BY <1>5, <1>7, <1>10, <1>11 DEF BroughtAt, PartsAt
<1>14. FlowOK(v, f)
  BY <1>3, <1>12, <1>13, NewFlow
<1> QED BY <1>14 DEF v

-----------------------------------------------------------------------------
(* The actor's sequences. *)

\* What may stand in one of them.
Item == Doing \cup Done \cup Sent \cup Mail

LEMMA Tags ==
  /\ ProcessRead[1] = "ProcessRead" /\ TryRead[1] = "TryRead" /\ FirstRead[1] = "FirstRead"
  /\ Established[1] = "ConnectionEstablished" /\ Failed[1] = "ConnectionFailed"
  /\ EndOfTick[1] = "EndOfTick" /\ Stop[1] = "Stop" /\ Closed[1] = "Closed"
  /\ \A n : Message(n)[1] = "Message" /\ Message(n)[2] = n
  /\ \A c : Write(c)[1] = "Write"
  /\ \A c \in Asked : c[1] = "Write"
BY DEF ProcessRead, TryRead, FirstRead, Established, Failed, EndOfTick, Message, Write, Asked,
       Stop, Closed

LEMMA Single ==
  ASSUME NEW S, NEW c \in S
  PROVE  /\ <<c>> \in Seq(S) /\ Len(<<c>>) = 1 /\ DOMAIN <<c>> = {1} /\ <<c>>[1] = c
         /\ \A s \in Seq(S) : Append(s, c) = s \o <<c>> /\ s \o <<>> = s /\ <<>> \o s = s
         /\ <<>> \in Seq(S)
<1>1. \A s \in Seq(S) : s \o <<>> = s /\ <<>> \o s = s
  BY ConcatEmptySeq
<1>2. \A s \in Seq(S) : Append(s, c) = s \o <<c>>
  BY AppendIsConcat
<1> QED BY <1>1, <1>2

LEMMA Nothing ==
  ASSUME NEW S, NEW s \in Seq(S)
  PROVE  s \o <<>> = s /\ <<>> \o s = s /\ <<>> \in Seq(S)
BY ConcatEmptySeq

LEMMA Pop ==
  ASSUME NEW S, NEW s \in Seq(S), s # <<>>
  PROVE  /\ Len(s) \in Nat /\ Len(s) >= 1 /\ DOMAIN s = 1 .. Len(s)
         /\ Head(s) = s[1] /\ Head(s) \in S
         /\ Tail(s) \in Seq(S) /\ Len(Tail(s)) = Len(s) - 1
         /\ DOMAIN Tail(s) = 1 .. Len(s) - 1
         /\ \A i \in DOMAIN Tail(s) : Tail(s)[i] = s[i + 1]
         /\ <<Head(s)>> \in Seq(S) /\ s = <<Head(s)>> \o Tail(s)
<1>1. /\ Len(s) \in Nat /\ Len(s) >= 1 /\ DOMAIN s = 1 .. Len(s)
      /\ Head(s) = s[1] /\ Head(s) \in S
      /\ Tail(s) \in Seq(S) /\ Len(Tail(s)) = Len(s) - 1
  BY LenProperties, HeadTailProperties, EmptySeq
<1>2. \A i \in 1 .. Len(s) - 1 : Tail(s)[i] = s[i + 1]
  BY <1>1, HeadTailProperties
<1>3. DOMAIN Tail(s) = 1 .. Len(s) - 1
  BY <1>1, LenProperties
<1>4. <<Head(s)>> \in Seq(S) /\ <<Head(s)>> \o Tail(s) = s
  BY <1>1, ConcatProperties
<1> QED BY <1>1, <1>2, <1>3, <1>4

LEMMA Cat ==
  ASSUME NEW S, NEW X \in Seq(S), NEW R \in Seq(S)
  PROVE  /\ X \o R \in Seq(S) /\ Len(X) \in Nat /\ Len(R) \in Nat
         /\ DOMAIN X = 1 .. Len(X) /\ DOMAIN R = 1 .. Len(R)
         /\ DOMAIN (X \o R) = 1 .. Len(X) + Len(R) /\ Len(X \o R) = Len(X) + Len(R)
         /\ \A i \in DOMAIN X : i \in DOMAIN (X \o R) /\ (X \o R)[i] = X[i]
         /\ \A i \in DOMAIN R : Len(X) + i \in DOMAIN (X \o R) /\ (X \o R)[Len(X) + i] = R[i]
         /\ \A i \in DOMAIN (X \o R) :
              \/ i \in DOMAIN X /\ (X \o R)[i] = X[i]
              \/ i > Len(X) /\ i - Len(X) \in DOMAIN R /\ (X \o R)[i] = R[i - Len(X)]
<1>1. /\ X \o R \in Seq(S) /\ Len(X) \in Nat /\ Len(R) \in Nat
      /\ DOMAIN X = 1 .. Len(X) /\ DOMAIN R = 1 .. Len(R)
      /\ DOMAIN (X \o R) = 1 .. Len(X) + Len(R) /\ Len(X \o R) = Len(X) + Len(R)
      /\ \A i \in 1 .. Len(X) + Len(R) :
           (X \o R)[i] = IF i <= Len(X) THEN X[i] ELSE R[i - Len(X)]
  BY ConcatProperties, LenProperties
<1>2. \A i \in DOMAIN X : i \in DOMAIN (X \o R) /\ (X \o R)[i] = X[i]
  BY <1>1
<1>3. ASSUME NEW i \in DOMAIN R
      PROVE  Len(X) + i \in DOMAIN (X \o R) /\ (X \o R)[Len(X) + i] = R[i]
  <2>1. Len(X) + i \in 1 .. Len(X) + Len(R) /\ ~(Len(X) + i <= Len(X))
        /\ (Len(X) + i) - Len(X) = i
    BY <1>1
  <2> QED BY <1>1, <2>1
<1>4. ASSUME NEW i \in DOMAIN (X \o R)
      PROVE  \/ i \in DOMAIN X /\ (X \o R)[i] = X[i]
             \/ i > Len(X) /\ i - Len(X) \in DOMAIN R /\ (X \o R)[i] = R[i - Len(X)]
  BY <1>1
<1> QED BY <1>1, <1>2, <1>3, <1>4

Lacks(s, c)  == \A i \in DOMAIN s : s[i] # c
OnlyTicks(s) == \A i \in DOMAIN s : s[i] = EndOfTick
TickLast(s)  == \A i \in DOMAIN s : s[i] = EndOfTick => i = Len(s)

\* Commands stand before a first read, and only the end of a tick after it.
FirstLast(s) ==
  \A i \in DOMAIN s : s[i] = FirstRead
    => \A j \in DOMAIN s : (j < i => s[j] \in Asked) /\ (j > i => s[j] = EndOfTick)

\* No message waits behind a read.
ReadsLast(s) ==
  \A i \in DOMAIN s : s[i] \in {ProcessRead, TryRead} => \A j \in Messages(s) : j < i

LEMMA PopFacts ==
  ASSUME NEW S, NEW s \in Seq(S), s # <<>>
  PROVE  /\ Silent(s) => Silent(Tail(s))
         /\ \A c : Lacks(s, c) => Lacks(Tail(s), c) /\ Head(s) # c
         /\ TickLast(s) => TickLast(Tail(s))
         /\ TickLast(s) /\ Head(s) = EndOfTick => Tail(s) = <<>>
         /\ FirstLast(s) => FirstLast(Tail(s))
         /\ FirstLast(s) /\ Head(s) \notin Asked =>
              IF Head(s) = FirstRead THEN OnlyTicks(Tail(s)) ELSE Lacks(s, FirstRead)
         /\ ReadsLast(s) => ReadsLast(Tail(s))
         /\ ReadsLast(s) /\ Head(s) \in {ProcessRead, TryRead} => Silent(s)
         /\ Increasing(s) => Increasing(Tail(s))
<1> DEFINE r == Tail(s)
           n == Len(s)
<1>1. /\ n \in Nat /\ n >= 1 /\ DOMAIN s = 1 .. n /\ Head(s) = s[1]
      /\ r \in Seq(S) /\ Len(r) = n - 1 /\ DOMAIN r = 1 .. n - 1
      /\ \A i \in DOMAIN r : i + 1 \in DOMAIN s /\ r[i] = s[i + 1]
  BY Pop
<1> HIDE DEF r, n
<1>2. n = Len(s)
  BY DEF n
<1>3. Silent(s) => Silent(r)
  BY <1>1 DEF Silent
<1>4. \A c : Lacks(s, c) => Lacks(r, c) /\ Head(s) # c
  BY <1>1 DEF Lacks
<1>5. TickLast(s) => TickLast(r)
  <2>1. ASSUME TickLast(s), NEW i \in DOMAIN r, r[i] = EndOfTick PROVE i = Len(r)
    <3>1. i + 1 = n
      BY <1>1, <1>2, <2>1 DEF TickLast
    <3> QED BY <1>1, <2>1, <3>1
  <2> QED BY <2>1 DEF TickLast
<1>6. TickLast(s) /\ Head(s) = EndOfTick => r = <<>>
  <2>1. TickLast(s) /\ Head(s) = EndOfTick => n = 1
    BY <1>1, <1>2 DEF TickLast
  <2> QED BY <1>1, <2>1, EmptySeq
<1>7. FirstLast(s) => FirstLast(r)
  <2>1. ASSUME FirstLast(s), NEW i \in DOMAIN r, r[i] = FirstRead, NEW j \in DOMAIN r
        PROVE  (j < i => r[j] \in Asked) /\ (j > i => r[j] = EndOfTick)
    <3>1. s[i + 1] = FirstRead /\ i + 1 \in DOMAIN s /\ j + 1 \in DOMAIN s /\ r[j] = s[j + 1]
      BY <1>1, <2>1
    <3>2. (j < i => j + 1 < i + 1) /\ (j > i => j + 1 > i + 1)
      BY <1>1, <2>1
    <3> QED BY <2>1, <3>1, <3>2 DEF FirstLast
  <2> QED BY <2>1 DEF FirstLast
<1>8. ASSUME FirstLast(s), Head(s) \notin Asked
      PROVE  IF Head(s) = FirstRead THEN OnlyTicks(r) ELSE Lacks(s, FirstRead)
  <2>1. CASE Head(s) = FirstRead
    <3>1. \A j \in DOMAIN r : j + 1 \in DOMAIN s /\ j + 1 > 1 /\ r[j] = s[j + 1]
      BY <1>1
    <3>2. 1 \in DOMAIN s /\ s[1] = FirstRead
      BY <1>1, <2>1
    <3>3. \A j \in DOMAIN r : r[j] = EndOfTick
      BY <1>8, <3>1, <3>2 DEF FirstLast
    <3> QED BY <2>1, <3>3 DEF OnlyTicks
  <2>2. CASE Head(s) # FirstRead
    <3>1. ASSUME NEW i \in DOMAIN s, s[i] = FirstRead PROVE FALSE
      <4>1. 1 \in DOMAIN s /\ 1 < i /\ s[1] = Head(s)
        BY <1>1, <2>2, <3>1
      <4> QED BY <1>8, <3>1, <4>1 DEF FirstLast
    <3> QED BY <2>2, <3>1 DEF Lacks
  <2> QED BY <2>1, <2>2
<1>9. ReadsLast(s) => ReadsLast(r)
  <2>1. ASSUME ReadsLast(s), NEW i \in DOMAIN r, r[i] \in {ProcessRead, TryRead},
               NEW j \in Messages(r)
        PROVE  j < i
    <3>1. i + 1 \in DOMAIN s /\ s[i + 1] \in {ProcessRead, TryRead} /\ j + 1 \in Messages(s)
      BY <1>1, <2>1 DEF Messages
    <3>2. j + 1 < i + 1
      BY <2>1, <3>1 DEF ReadsLast
    <3> QED BY <1>1, <2>1, <3>2 DEF Messages
  <2> QED BY <2>1 DEF ReadsLast
<1>10. ReadsLast(s) /\ Head(s) \in {ProcessRead, TryRead} => Silent(s)
  <2>1. ASSUME ReadsLast(s), Head(s) \in {ProcessRead, TryRead}, NEW j \in DOMAIN s,
               s[j][1] = "Message"
        PROVE  FALSE
    <3>1. 1 \in DOMAIN s /\ s[1] \in {ProcessRead, TryRead} /\ j \in Messages(s)
      BY <1>1, <2>1 DEF Messages
    <3>2. j < 1
      BY <2>1, <3>1 DEF ReadsLast
    <3> QED BY <1>1, <2>1, <3>2
  <2> QED BY <2>1 DEF Silent
<1>11. Increasing(s) => Increasing(r)
  <2>1. ASSUME Increasing(s), NEW i \in Messages(r), NEW j \in Messages(r), i < j
        PROVE  r[i][2] < r[j][2]
    <3>1. i + 1 \in Messages(s) /\ j + 1 \in Messages(s) /\ i + 1 < j + 1
          /\ r[i] = s[i + 1] /\ r[j] = s[j + 1]
      BY <1>1, <2>1 DEF Messages
    <3> QED BY <2>1, <3>1 DEF Increasing
  <2> QED BY <2>1 DEF Increasing
<1> QED
  BY <1>3, <1>4, <1>5, <1>6, <1>7, <1>8, <1>9, <1>10, <1>11 DEF r

LEMMA CatFacts ==
  ASSUME NEW S, NEW X \in Seq(S), NEW R \in Seq(S)
  PROVE  /\ \A c : Lacks(X, c) /\ Lacks(R, c) => Lacks(X \o R, c)
         /\ Lacks(X, EndOfTick) /\ TickLast(R) => TickLast(X \o R)
         /\ ReadsLast(X) /\ ReadsLast(R)
              /\ (Silent(R) \/ (Lacks(X, ProcessRead) /\ Lacks(X, TryRead)))
              => ReadsLast(X \o R)
         /\ Silent(R) /\ Increasing(X) => Increasing(X \o R)
         /\ Silent(X) /\ Increasing(R) => Increasing(X \o R)
<1> DEFINE s == X \o R
           n == Len(X)
<1>1. /\ n \in Nat /\ Len(R) \in Nat /\ DOMAIN X = 1 .. n /\ DOMAIN R = 1 .. Len(R)
      /\ DOMAIN s = 1 .. n + Len(R) /\ Len(s) = n + Len(R)
      /\ \A i \in DOMAIN s : \/ i \in DOMAIN X /\ s[i] = X[i]
                             \/ i > n /\ i - n \in DOMAIN R /\ s[i] = R[i - n]
  BY Cat
<1> HIDE DEF s, n
<1>2. \A c : Lacks(X, c) /\ Lacks(R, c) => Lacks(s, c)
  BY <1>1 DEF Lacks
<1>3. ASSUME Lacks(X, EndOfTick), TickLast(R), NEW i \in DOMAIN s, s[i] = EndOfTick
      PROVE  i = Len(s)
  <2>1. i > n /\ i - n \in DOMAIN R /\ s[i] = R[i - n]
    BY <1>1, <1>3 DEF Lacks
  <2>2. i - n = Len(R)
    BY <1>3, <2>1 DEF TickLast
  <2> QED BY <1>1, <1>3, <2>2
<1>4. ASSUME ReadsLast(X), ReadsLast(R),
             Silent(R) \/ (Lacks(X, ProcessRead) /\ Lacks(X, TryRead)),
             NEW i \in DOMAIN s, s[i] \in {ProcessRead, TryRead}, NEW j \in Messages(s)
      PROVE  j < i
  <2>1. j \in DOMAIN s /\ s[j][1] = "Message"
    BY <1>4 DEF Messages
  <2>2. CASE i \in DOMAIN X /\ s[i] = X[i]
    <3>1. ~(Lacks(X, ProcessRead) /\ Lacks(X, TryRead))
      BY <1>4, <2>2 DEF Lacks
    <3>2. Silent(R)
      BY <1>4, <3>1
    <3>3. j \in DOMAIN X /\ s[j] = X[j]
      BY <1>1, <2>1, <3>2 DEF Silent
    <3>4. j \in Messages(X)
      BY <2>1, <3>3 DEF Messages
    <3> QED BY <1>4, <2>2, <3>4 DEF ReadsLast
  <2>3. CASE i > n /\ i - n \in DOMAIN R /\ s[i] = R[i - n]
    <3>1. CASE j \in DOMAIN X
      BY <1>1, <2>3, <3>1
    <3>2. CASE j > n /\ j - n \in DOMAIN R /\ s[j] = R[j - n]
      <4>1. j - n \in Messages(R)
        BY <2>1, <3>2 DEF Messages
      <4>2. j - n < i - n
        BY <1>4, <2>3, <4>1 DEF ReadsLast
      <4> QED BY <1>1, <1>4, <2>1, <4>2
    <3> QED BY <1>1, <2>1, <3>1, <3>2
  <2> QED BY <1>1, <2>2, <2>3
<1>5. ASSUME Silent(R), Increasing(X), NEW i \in Messages(s), NEW j \in Messages(s), i < j
      PROVE  s[i][2] < s[j][2]
  <2>1. /\ i \in Messages(X) /\ s[i] = X[i]
        /\ j \in Messages(X) /\ s[j] = X[j]
    BY <1>1, <1>5 DEF Silent, Messages
  <2> QED BY <1>5, <2>1 DEF Increasing
<1>6. ASSUME Silent(X), Increasing(R), NEW i \in Messages(s), NEW j \in Messages(s), i < j
      PROVE  s[i][2] < s[j][2]
  <2>1. /\ i - n \in Messages(R) /\ s[i] = R[i - n]
        /\ j - n \in Messages(R) /\ s[j] = R[j - n]
    BY <1>1, <1>6 DEF Silent, Messages
  <2>2. i - n < j - n
    BY <1>1, <1>6 DEF Messages
  <2> QED BY <1>6, <2>1, <2>2 DEF Increasing
<1>7. Lacks(X, EndOfTick) /\ TickLast(R) => TickLast(s)
  BY <1>3 DEF TickLast
<1>8. ReadsLast(X) /\ ReadsLast(R)
        /\ (Silent(R) \/ (Lacks(X, ProcessRead) /\ Lacks(X, TryRead))) => ReadsLast(s)
  BY <1>4 DEF ReadsLast
<1>9. Silent(R) /\ Increasing(X) => Increasing(s)
  BY <1>5 DEF Increasing
<1>10. Silent(X) /\ Increasing(R) => Increasing(s)
  BY <1>6 DEF Increasing
<1> QED BY <1>2, <1>7, <1>8, <1>9, <1>10 DEF s

-----------------------------------------------------------------------------
(* The signals of the messages a read finds. *)

\* A sequence has the messages of another and things that are no messages.
LEMMA BringsPadded ==
  ASSUME NEW S, NEW X \in Seq(S), NEW R \in Seq(S), NEW e \in Nat, NEW f \in Nat
  PROVE  /\ Silent(R) /\ Brings(X, e, f) => Brings(X \o R, e, f)
         /\ Silent(X) /\ Brings(R, e, f) => Brings(X \o R, e, f)
<1> DEFINE s == X \o R
           n == Len(X)
<1>1. /\ DOMAIN X = 1 .. n /\ n \in Nat
      /\ \A i \in DOMAIN X : i \in DOMAIN s /\ s[i] = X[i]
      /\ \A i \in DOMAIN R : n + i \in DOMAIN s /\ s[n + i] = R[i]
      /\ \A i \in DOMAIN s : \/ i \in DOMAIN X /\ s[i] = X[i]
                             \/ i > n /\ i - n \in DOMAIN R /\ s[i] = R[i - n]
      /\ Silent(R) /\ Increasing(X) => Increasing(s)
      /\ Silent(X) /\ Increasing(R) => Increasing(s)
  BY Cat, CatFacts
<1> HIDE DEF s, n
<1>2. ASSUME Silent(R), Brings(X, e, f) PROVE Brings(s, e, f)
  <2>1. \A i \in Messages(s) : i \in Messages(X) /\ s[i] = X[i]
    BY <1>1, <1>2 DEF Silent, Messages
  <2>2. \A i \in Messages(s) : s[i][2] \in e + 1 .. f
    BY <1>2, <2>1 DEF Brings
  <2>3. ASSUME NEW m \in e + 1 .. f, script[m] \in Handled PROVE \E i \in DOMAIN s : s[i] = Message(m)
    BY <1>1, <1>2, <2>3 DEF Brings
  <2> QED BY <1>1, <1>2, <2>2, <2>3 DEF Brings
<1>3. ASSUME Silent(X), Brings(R, e, f) PROVE Brings(s, e, f)
  <2>1. \A i \in Messages(s) : i - n \in Messages(R) /\ s[i] = R[i - n]
    BY <1>1, <1>3 DEF Silent, Messages
  <2>2. \A i \in Messages(s) : s[i][2] \in e + 1 .. f
    BY <1>3, <2>1 DEF Brings
  <2>3. ASSUME NEW m \in e + 1 .. f, script[m] \in Handled PROVE \E i \in DOMAIN s : s[i] = Message(m)
    <3>1. PICK i \in DOMAIN R : R[i] = Message(m)
      BY <1>3, <2>3 DEF Brings
    <3>2. n + i \in DOMAIN s /\ s[n + i] = Message(m)
      BY <1>1, <3>1
    <3> QED BY <3>2
  <2> QED BY <1>1, <1>3, <2>2, <2>3 DEF Brings
<1> QED BY <1>2, <1>3 DEF s

\* Nothing but messages.
OnlyMessages(s) == \A i \in DOMAIN s : s[i][1] = "Message"

LEMMA OnlyMessagesFacts ==
  ASSUME NEW s, OnlyMessages(s)
  PROVE  /\ Lacks(s, EndOfTick) /\ Lacks(s, Established) /\ Lacks(s, FirstRead)
         /\ Lacks(s, ProcessRead) /\ Lacks(s, TryRead) /\ ReadsLast(s)
BY Tags DEF OnlyMessages, Lacks, ReadsLast

LEMMA NewSignalsFacts ==
  ASSUME SocketTypeOK, NEW t \in Nat, Whole(t) \in 0 .. Len(script), extracted <= Whole(t)
  PROVE  /\ NewSignals(t) \in Seq(Signal)
         /\ OnlyMessages(NewSignals(t))
         /\ dispatcher => Brings(NewSignals(t), extracted, Whole(t))
         /\ extracted = Whole(t) => NewSignals(t) = <<>>
<1> DEFINE N == {n \in extracted + 1 .. Whole(t) : dispatcher /\ script[n] \in Handled}
           w == Ascending(N)
           s == NewSignals(t)
<1>1. /\ Len(script) \in Nat /\ extracted \in Nat /\ Whole(t) \in Nat
      /\ Whole(t) <= Len(script) /\ DOMAIN script = 1 .. Len(script)
  <2>1. script \in Seq(STRING)
    BY ScriptsAssumption DEF SocketTypeOK
  <2>2. Len(script) \in Nat /\ DOMAIN script = 1 .. Len(script)
    BY <2>1, LenProperties
  <2> QED BY <2>2 DEF SocketTypeOK
<1>2. N \subseteq Nat /\ N \subseteq extracted + 1 .. Whole(t) /\ IsFiniteSet(N)
  <2>1. IsFiniteSet(extracted + 1 .. Whole(t))
    BY <1>1, FS_Interval
  <2> QED BY <1>1, <2>1, FS_Subset
<1>3. /\ w \in Seq(N)
      /\ \A n \in N : \E i \in DOMAIN w : w[i] = n
      /\ \A i, j \in DOMAIN w : i < j => w[i] < w[j]
  BY <1>2, AscendingFacts
<1>4. s = [i \in DOMAIN w |-> Message(w[i])]
  BY DEF NewSignals
<1> HIDE DEF w, s
<1>5. DOMAIN w = 1 .. Len(w) /\ Len(w) \in Nat /\ \A i \in DOMAIN w : w[i] \in N
  <2>1. DOMAIN w = 1 .. Len(w) /\ Len(w) \in Nat
    BY <1>3, LenProperties
  <2>2. \A i \in 1 .. Len(w) : w[i] \in N
    BY <1>3, ElementOfSeq
  <2> QED BY <2>1, <2>2
<1>6. \A i \in DOMAIN w : Message(w[i]) \in Signal
  <2>1. \A i \in DOMAIN w : w[i] \in DOMAIN script
    BY <1>1, <1>2, <1>5
  <2> QED BY <2>1 DEF Signal
<1>7. s \in Seq(Signal)
  <2>1. s \in [1 .. Len(w) -> Signal]
    BY <1>4, <1>5, <1>6
  <2> QED BY <1>5, <2>1
<1>8. DOMAIN s = DOMAIN w /\ \A i \in DOMAIN s : s[i][1] = "Message" /\ s[i][2] = w[i]
  BY <1>4, Tags
<1>9. OnlyMessages(s) /\ Messages(s) = DOMAIN s
  BY <1>8 DEF OnlyMessages, Messages
<1>10. ASSUME dispatcher PROVE Brings(s, extracted, Whole(t))
  <2>1. \A i \in Messages(s) : s[i][2] \in extracted + 1 .. Whole(t)
    BY <1>2, <1>5, <1>8, <1>9
  <2>2. Increasing(s)
    BY <1>3, <1>8, <1>9 DEF Increasing
  <2>3. ASSUME NEW n \in extracted + 1 .. Whole(t), script[n] \in Handled
        PROVE  \E i \in DOMAIN s : s[i] = Message(n)
    <3>1. n \in N
      BY <1>10, <2>3
    <3>2. PICK i \in DOMAIN w : w[i] = n
      BY <1>3, <3>1
    <3> QED BY <1>4, <3>2
  <2> QED BY <2>1, <2>2, <2>3 DEF Brings
<1>11. ASSUME extracted = Whole(t) PROVE s = <<>>
  <2>1. N = {}
    BY <1>1, <1>11
  <2>2. Len(w) = 0
    <3>1. ~(1 \in DOMAIN w)
      BY <1>5, <2>1
    <3> QED BY <1>5, <3>1
  <2>3. Len(s) = 0
    BY <1>4, <1>5, <2>2
  <2> QED BY <1>7, <2>3, EmptySeq
<1> QED BY <1>7, <1>9, <1>10, <1>11 DEF s

-----------------------------------------------------------------------------
(* The types of the actor's state. *)

LEMMA SeqOfSubset ==
  ASSUME NEW S, NEW T, S \subseteq T, NEW s \in Seq(S)
  PROVE  s \in Seq(T)
<1>1. Len(s) \in Nat /\ s \in [1 .. Len(s) -> S]
  BY LenProperties
<1>2. s \in [1 .. Len(s) -> T]
  BY <1>1
<1> QED BY <1>1, <1>2

\* What a write to the stream may change.
LEMMA SendFacts ==
  ASSUME NEW out, NEW h, Send(out, h)
  PROVE  /\ history' = h \/ history' = Append(h, PeerDisconnected)
         /\ UNCHANGED written \/ (stream /\ written' = Append(written, out))
         /\ stream' = stream \/ stream' = FALSE
BY DEF Send, Disconnect

LEMMA Kinds ==
  /\ Signal \subseteq Doing /\ Asked \subseteq Doing /\ Asked \subseteq Mail /\ Asked \subseteq Sent
  /\ {Established, Failed, ProcessRead} \subseteq Signal
  /\ {TryRead, FirstRead, EndOfTick} \subseteq Doing
  /\ Stop \in Mail /\ Closed \in Mail /\ <<"PierceFireWall">> \in Sent
  /\ \A n \in DOMAIN script : Message(n) \in Done /\ <<"Answer", n>> \in Sent
  /\ named \in BOOLEAN => PeerDisconnected \in Done
  /\ \A c \in Command : Write(c) \in Asked
BY DEF Signal, Doing, Asked, Mail, Sent, Done, PeerDisconnected

LEMMA ActorTypes ==
  ASSUME TransferInv, ActorTypeOK, ActorNext
  PROVE  ActorTypeOK'
<1> USE DEF lifeVars, registryVars, outVars, callVars
<1>1. /\ SocketTypeOK
      /\ script' = script
  BY ActorFrame DEF TransferInv, SocketTypeOK, Owner, Reads
<1>2. Signal' = Signal /\ Doing' = Doing /\ Asked' = Asked /\ Mail' = Mail /\ Sent' = Sent
      /\ Done' = Done
  BY <1>1 DEF Signal, Doing, Asked, Mail, Sent, Done
<1>3. /\ signals \in Seq(Signal) /\ todo \in Seq(Doing) /\ queued \in Seq(Asked)
      /\ accepted \in Seq(Asked) /\ mailbox \in Seq(Mail) /\ written \in Seq(Sent)
      /\ history \in Seq(Done)
      /\ stream \in BOOLEAN /\ named \in BOOLEAN /\ PeerDisconnected \in Done
  BY Kinds DEF ActorTypeOK
<1>4. signals \in Seq(Doing) /\ queued \in Seq(Doing)
  BY <1>3, Kinds, SeqOfSubset
<1>5. Append(history, PeerDisconnected) \in Seq(Done)
  BY <1>3, AppendProperties
<1>6. todo # <<>> => Rest \in Seq(Doing) /\ Head(todo) \in Doing
  BY <1>3, Pop DEF Rest
<1>7. mailbox # <<>> => Tail(mailbox) \in Seq(Mail) /\ Head(mailbox) \in Mail
  BY <1>3, Pop
<1>8. /\ <<>> \in Seq(Signal) /\ <<>> \in Seq(Doing) /\ <<>> \in Seq(Asked) /\ <<>> \in Seq(Mail)
      /\ <<ProcessRead>> \in Seq(Doing) /\ <<TryRead>> \in Seq(Doing) /\ <<EndOfTick>> \in Seq(Doing)
      /\ <<Established>> \in Seq(Doing) /\ <<FirstRead>> \in Seq(Doing)
  BY Kinds, Nothing
<1>9. CASE OnStart
  BY <1>2, <1>3, <1>5, <1>8, <1>9 DEF OnStart, Disconnect, ActorTypeOK
<1>10. CASE Dialed
  <2>1. Append(signals, Established) \in Seq(Signal) /\ Append(signals, Failed) \in Seq(Signal)
    BY <1>3, Kinds, AppendProperties
  <2> QED BY <1>2, <1>3, <1>10, <2>1 DEF Dialed, ActorTypeOK
<1>11. CASE \E c \in Command : SendToPeer(c)
  <2>1. PICK c \in Command : SendToPeer(c)
    BY <1>11
  <2>2. Append(mailbox, Write(c)) \in Seq(Mail) /\ Append(accepted, Write(c)) \in Seq(Asked)
    BY <1>3, Kinds, AppendProperties
  <2> QED BY <1>2, <1>3, <2>1, <2>2 DEF SendToPeer, ActorTypeOK
<1>12. CASE RemovePeer \/ Overwritten
  <2>1. Append(mailbox, Stop) \in Seq(Mail) /\ Append(mailbox, Closed) \in Seq(Mail)
    BY <1>3, Kinds, AppendProperties
  <2> QED BY <1>2, <1>3, <1>12, <2>1 DEF RemovePeer, Overwritten, ActorTypeOK
<1>13. CASE Handle
  <2>1. Head(mailbox) \in Asked /\ mailbox' = Tail(mailbox) /\ mailbox # <<>>
    BY <1>13 DEF Handle
  <2>2. Append(queued, Head(mailbox)) \in Seq(Asked) /\ Append(written, Head(mailbox)) \in Seq(Sent)
    BY <1>3, <2>1, Kinds, AppendProperties
  <2>3. /\ history' = history \/ history' = Append(history, PeerDisconnected)
        /\ written' = written \/ written' = Append(written, Head(mailbox))
        /\ queued' = queued \/ queued' = Append(queued, Head(mailbox))
        /\ stream' \in BOOLEAN
    <3>1. CASE connection = "Connecting"
      BY <1>3, <1>13, <3>1 DEF Handle
    <3>2. CASE connection # "Connecting"
      <4>1. Send(Head(mailbox), history) /\ queued' = queued
        BY <1>13, <3>2 DEF Handle
      <4> QED BY <1>3, <4>1, SendFacts
    <3> QED BY <3>1, <3>2
  <2>4. UNCHANGED <<lifeVars, connection, dispatcher, signals, todo, accepted, registered>>
    BY <1>13 DEF Handle
  <2> QED BY <1>2, <1>3, <1>5, <1>7, <2>1, <2>2, <2>3, <2>4 DEF ActorTypeOK
<1>14. CASE ReceiveStop \/ Shutdown
  <2>1. Finish
    BY <1>14 DEF ReceiveStop, Shutdown
  <2> QED BY <1>2, <1>3, <1>5, <1>8, <2>1 DEF Finish, Disconnect, ActorTypeOK
<1>15. CASE Tick
  <2>1. signals \o <<EndOfTick>> \in Seq(Doing)
    BY <1>4, <1>8, ConcatProperties
  <2> QED BY <1>2, <1>3, <1>8, <1>15, <2>1 DEF Tick, ActorTypeOK
<1>16. ASSUME NEW t \in Nat, t <= arrived, 2 * extracted <= t
       PROVE  NewSignals(t) \in Seq(Doing)
  <2>1. Whole(t) \in 0 .. Len(script) /\ extracted <= Whole(t)
    <3>1. /\ Len(script) \in Nat /\ arrived \in Nat /\ extracted \in Nat
          /\ arrived <= 2 * Len(script)
      BY <1>1, SocketNumbers DEF SocketTypeOK
    <3> QED BY <1>16, <3>1 DEF Whole
  <2>2. NewSignals(t) \in Seq(Signal)
    BY <1>1, <2>1, NewSignalsFacts
  <2> QED BY <2>2, Kinds, SeqOfSubset
<1>17. /\ taken \in Nat /\ taken <= arrived /\ 2 * extracted <= taken
       /\ \A n \in Readable : taken + n \in Nat /\ taken + n <= arrived /\ 2 * extracted <= taken + n
  <2>1. taken \in Nat /\ arrived \in Nat /\ taken <= arrived
    BY <1>1, SocketNumbers
  <2>2. extracted \in Nat /\ 2 * extracted <= taken
    <3>1. Len(script) \in Nat
      BY <1>1, SocketNumbers
    <3> QED BY <1>1, <3>1 DEF SocketTypeOK
  <2> QED BY <2>1, <2>2 DEF Readable
<1>18. CASE OnProcessRead
  <2>1. todo # <<>>
    BY <1>18 DEF OnProcessRead, Calls
  <2>2. <<TryRead>> \o Rest \in Seq(Doing)
    BY <1>6, <1>8, <2>1, ConcatProperties
  <2>3. signals \o NewSignals(taken) \in Seq(Doing)
    BY <1>4, <1>16, <1>17, ConcatProperties
  <2>4. (signals \o NewSignals(taken)) \o (<<TryRead>> \o Rest) \in Seq(Doing)
    BY <2>2, <2>3, ConcatProperties
  <2> QED
    BY <1>2, <1>3, <1>8, <1>18, <2>2, <2>4 DEF OnProcessRead, Drain, ActorTypeOK
<1>19. CASE OnTryRead
  <2>1. todo # <<>>
    BY <1>19 DEF OnTryRead, Calls
  <2>2. /\ todo' \in Seq(Doing)
        /\ signals' = signals \/ signals' = <<>>
        /\ stream' = stream \/ stream' = FALSE
        /\ history' = history \/ history' = Append(history, PeerDisconnected)
        /\ written' = written
    <3>1. ASSUME NEW n \in Readable PROVE (signals \o NewSignals(taken + n)) \o Rest \in Seq(Doing)
      <4>1. signals \o NewSignals(taken + n) \in Seq(Doing)
        BY <1>4, <1>16, <1>17, ConcatProperties
      <4> QED BY <1>6, <2>1, <4>1, ConcatProperties
    <3>2. (signals \o <<>>) \o Rest \in Seq(Doing)
      <4>1. signals \o <<>> = signals
        BY <1>4, Nothing
      <4> QED BY <1>4, <1>6, <2>1, <4>1, ConcatProperties
    <3> QED BY <1>6, <1>19, <2>1, <3>1, <3>2 DEF OnTryRead, Drain, Disconnect
  <2>3. UNCHANGED <<lifeVars, registryVars, connection, dispatcher, queued>>
    BY <1>19 DEF OnTryRead
  <2> QED BY <1>2, <1>3, <1>5, <1>8, <2>2, <2>3 DEF ActorTypeOK
<1>20. CASE OnEstablished
  <2>1. todo # <<>>
    BY <1>20 DEF OnEstablished, Calls
  <2>2. (queued \o <<FirstRead>>) \o Rest \in Seq(Doing)
    <3>1. queued \o <<FirstRead>> \in Seq(Doing)
      BY <1>4, <1>8, ConcatProperties
    <3> QED BY <1>6, <2>1, <3>1, ConcatProperties
  <2>3. written \o (IF handshake THEN <<<<"PierceFireWall">>>> ELSE <<>>) \in Seq(Sent)
    <3>1. <<<<"PierceFireWall">>>> \in Seq(Sent) /\ <<>> \in Seq(Sent)
      BY Kinds
    <3> QED BY <1>3, <3>1, ConcatProperties
  <2> QED
    BY <1>2, <1>3, <1>5, <1>6, <1>8, <1>20, <2>1, <2>2, <2>3
       DEF OnEstablished, Disconnect, ActorTypeOK
<1>21. CASE OnFirstRead
  <2>1. todo # <<>>
    BY <1>21 DEF OnFirstRead, Calls
  <2>2. <<ProcessRead>> \o Rest \in Seq(Doing)
    BY <1>6, <1>8, <2>1, ConcatProperties
  <2>3. Append(signals, ProcessRead) \in Seq(Signal)
    BY <1>3, Kinds, AppendProperties
  <2> QED BY <1>2, <1>3, <1>21, <2>2, <2>3 DEF OnFirstRead, ActorTypeOK
<1>22. CASE OnFailed
  BY <1>2, <1>3, <1>5, <1>6, <1>22 DEF OnFailed, Calls, Disconnect, ActorTypeOK
<1>23. CASE OnWrite
  <2>1. todo # <<>> /\ Head(todo) \in Asked /\ Send(Head(todo), history) /\ todo' = Rest
    BY <1>23 DEF OnWrite
  <2>2. Append(written, Head(todo)) \in Seq(Sent)
    BY <1>3, <2>1, Kinds, AppendProperties
  <2>3. /\ history' = history \/ history' = Append(history, PeerDisconnected)
        /\ written' = written \/ written' = Append(written, Head(todo))
        /\ stream' \in BOOLEAN
    BY <1>3, <2>1, SendFacts
  <2>4. UNCHANGED <<lifeVars, registryVars, connection, dispatcher, signals, queued>>
    BY <1>23 DEF OnWrite
  <2> QED BY <1>2, <1>3, <1>5, <1>6, <2>1, <2>2, <2>3, <2>4 DEF ActorTypeOK
<1>24. CASE OnMessage
  <2>1. PICK n \in DOMAIN script :
          /\ Head(todo) = Message(n)
          /\ IF script[n] \in Answered
             THEN Send(<<"Answer", n>>, Append(history, Message(n)))
             ELSE history' = Append(history, Message(n)) /\ UNCHANGED <<stream, written>>
          /\ named' = (named /\ script[n] # "PeerInit")
    BY <1>24 DEF OnMessage
  <2>2. /\ Append(history, Message(n)) \in Seq(Done)
        /\ Append(written, <<"Answer", n>>) \in Seq(Sent)
    BY <1>3, Kinds, AppendProperties
  <2>3. Append(Append(history, Message(n)), PeerDisconnected) \in Seq(Done)
    BY <1>3, <2>2, AppendProperties
  <2>4. /\ history' \in Seq(Done)
        /\ written' = written \/ written' = Append(written, <<"Answer", n>>)
        /\ stream' \in BOOLEAN
    <3>1. CASE script[n] \in Answered
      <4>1. Send(<<"Answer", n>>, Append(history, Message(n)))
        BY <2>1, <3>1
      <4>2. /\ history' = Append(history, Message(n))
               \/ history' = Append(Append(history, Message(n)), PeerDisconnected)
            /\ UNCHANGED written \/ (stream /\ written' = Append(written, <<"Answer", n>>))
            /\ stream' = stream \/ stream' = FALSE
        BY <4>1, SendFacts
      <4> QED BY <1>3, <2>2, <2>3, <4>2
    <3>2. CASE script[n] \notin Answered
      BY <1>3, <2>1, <2>2, <3>2
    <3> QED BY <3>1, <3>2
  <2>5. /\ todo # <<>> /\ todo' = Rest /\ named' \in BOOLEAN
        /\ UNCHANGED <<task, dial, handshake, registryVars, connection, dispatcher, signals,
                       queued>>
    BY <1>3, <1>24, <2>1 DEF OnMessage
  <2> QED BY <1>2, <1>3, <1>6, <2>2, <2>4, <2>5 DEF ActorTypeOK
<1>25. CASE OnEndOfTick
  <2>1. todo # <<>>
    BY <1>25 DEF OnEndOfTick, Calls
  <2>2. <<ProcessRead>> \o Rest \in Seq(Doing)
    BY <1>6, <1>8, <2>1, ConcatProperties
  <2> QED
    BY <1>2, <1>3, <1>5, <1>6, <1>25, <2>1, <2>2 DEF OnEndOfTick, Disconnect, ActorTypeOK
<1> QED
  BY <1>9, <1>10, <1>11, <1>12, <1>13, <1>14, <1>15, <1>18, <1>19, <1>20, <1>21, <1>22, <1>23,
     <1>24, <1>25 DEF ActorNext, Call

-----------------------------------------------------------------------------
(* What holds of the actor between two of its steps. *)

\* The messages handled and those still to handle.
Flow == FlowOK(history \o todo, extracted)

\* Before the connection is established no message that has a handler was read.
Fresh ==
  ~dispatcher
    => /\ Silent(history) /\ Silent(todo)
       /\ \A n \in 1 .. extracted : script[n] \notin Handled
       /\ Lacks(todo, ProcessRead) /\ Lacks(todo, TryRead) /\ Lacks(todo, FirstRead)
       /\ signals # <<ProcessRead>>
       /\ handshake => written = <<>> /\ ~stream

\* How far the connection is.
Begun ==
  /\ conn \in {"Reading", "Routing"} => First \notin Handled
  /\ conn \in {"None", "Reading"} => extracted = 0
  /\ task \in {"None", "Spawned"}
       => /\ signals = <<>> /\ todo = <<>> /\ history = <<>> /\ queued = <<>> /\ written = <<>>
          /\ ~dispatcher /\ dial = "None"
  /\ task = "None" => mailbox = <<>> /\ accepted = <<>> /\ ~registered /\ ~stream /\ ~handshake
  /\ dial = "Dialing" => signals = <<>> /\ ~dispatcher /\ Lacks(todo, Established)
  /\ stream => /\ connection = "Connected" /\ queued = <<>>
               /\ task = "Running" => dispatcher \/ todo = <<Established>>
               /\ handshake => written # <<>>

\* At most one signal waits, and never one of a message.
SignalShape ==
  /\ signals \in {<<>>, <<Established>>, <<Failed>>, <<ProcessRead>>}
  /\ signals \in {<<Established>>, <<Failed>>}
       => ~dispatcher /\ dial = "Done" /\ Lacks(todo, Established)
  /\ signals = <<ProcessRead>> => Silent(history) /\ Silent(todo) /\ Lacks(todo, FirstRead)

EstablishedShape ==
  \/ Lacks(todo, Established)
  \/ /\ todo # <<>> /\ Head(todo) = Established /\ OnlyTicks(Tail(todo))
     /\ ~dispatcher /\ signals = <<>> /\ dial # "Dialing"

FirstReadShape ==
  \/ Lacks(todo, FirstRead)
  \/ signals = <<>> /\ Silent(history) /\ Silent(todo) /\ FirstLast(todo)

\* Only the very first read is made while messages wait.
ReadShape ==
  \/ ReadsLast(todo)
  \/ /\ Silent(history) /\ extracted = Whole(taken) /\ Increasing(todo)
     /\ ReadsLast(Tail(todo))

Shape == TickLast(todo) /\ SignalShape /\ EstablishedShape /\ FirstReadShape /\ ReadShape

ActorInv == ActorTypeOK /\ Flow /\ Fresh /\ Begun /\ Shape

LEMMA ActorFacts ==
  ASSUME SocketTypeOK, ActorTypeOK
  PROVE  /\ extracted \in Nat /\ taken \in Nat
         /\ history \in Seq(Item) /\ todo \in Seq(Item) /\ signals \in Seq(Item)
         /\ queued \in Seq(Item) /\ PeerDisconnected \in Item
         /\ todo # <<>> => Rest \in Seq(Item) /\ Head(todo) \in Item /\ <<Head(todo)>> \in Seq(Item)
                             /\ todo = <<Head(todo)>> \o Rest
         /\ {Established, Failed, ProcessRead, TryRead, FirstRead, EndOfTick} \subseteq Item
<1>1. extracted \in Nat /\ taken \in Nat
  <2>1. Len(script) \in Nat
    BY SocketNumbers
  <2> QED BY <2>1, SocketNumbers DEF SocketTypeOK
<1>2. history \in Seq(Item) /\ todo \in Seq(Item) /\ signals \in Seq(Item) /\ queued \in Seq(Item)
  <2>1. Done \subseteq Item /\ Doing \subseteq Item /\ Signal \subseteq Item /\ Asked \subseteq Item
    BY Kinds DEF Item
  <2> QED BY <2>1, SeqOfSubset DEF ActorTypeOK
<1>3. PeerDisconnected \in Item
  BY Kinds DEF ActorTypeOK, Item
<1>4. todo # <<>> => Rest \in Seq(Item) /\ Head(todo) \in Item /\ <<Head(todo)>> \in Seq(Item)
                       /\ todo = <<Head(todo)>> \o Rest
  BY <1>2, Pop DEF Rest
<1>5. {Established, Failed, ProcessRead, TryRead, FirstRead, EndOfTick} \subseteq Item
  BY Kinds DEF Item
<1> QED BY <1>1, <1>2, <1>3, <1>4, <1>5

LEMMA ItemsAssociate == \A s, t, u \in Seq(Item) : (s \o t) \o u = s \o (t \o u)
BY ConcatAssociative

\* A step that leaves the messages where they are.
QuietSteps ==
  \E X \in Seq(Item), Y \in Seq(Item), Z \in Seq(Item), B \in Seq(Item) :
    /\ Silent(X) /\ Silent(Y) /\ Silent(Z)
    /\ todo = Y \o B /\ todo' = Z \o B /\ history' = history \o X

LEMMA QuietStep ==
  ASSUME Flow, SocketTypeOK, ActorTypeOK, UNCHANGED <<script, extracted>>, QuietSteps
  PROVE  Flow'
<1>1. PICK X \in Seq(Item), Y \in Seq(Item), Z \in Seq(Item), B \in Seq(Item) :
        /\ Silent(X) /\ Silent(Y) /\ Silent(Z)
        /\ todo = Y \o B /\ todo' = Z \o B /\ history' = history \o X
  BY DEF QuietSteps
<1>2. history \in Seq(Item) /\ extracted \in Nat
  BY ActorFacts
<1>3. X \o Z \in Seq(Item) /\ Z \o B \in Seq(Item)
  BY ConcatProperties
<1>4. Silent(X \o Z)
  BY <1>1, SilentConcat
<1>5. FlowOK(history \o ((X \o Z) \o B), extracted)
  <2>1. FlowOK(history \o (Y \o B), extracted)
    BY <1>1 DEF Flow
  <2> QED BY <1>1, <1>2, <1>3, <1>4, <2>1, QuietSplice
<1>6. history \o ((X \o Z) \o B) = history' \o todo'
  <2>1. (X \o Z) \o B = X \o (Z \o B)
    BY ConcatAssociative
  <2>2. history \o (X \o (Z \o B)) = (history \o X) \o (Z \o B)
    <3> DEFINE r == Z \o B
    <3>1. r \in Seq(Item)
      BY <1>3
    <3> HIDE DEF r
    <3>2. (history \o X) \o r = history \o (X \o r)
      BY <1>2, <3>1, ItemsAssociate
    <3> QED BY <3>2 DEF r
  <2> QED BY <1>1, <2>1, <2>2
<1>7. FlowOK(history' \o todo', extracted')
  BY <1>5, <1>6
<1> QED BY <1>7 DEF Flow, FlowOK, Messages, Message, Handled

\* A step that brings the messages of the items just read.
NewSteps ==
  \E Y \in Seq(Item), Z \in Seq(Item), B \in Seq(Item) :
    /\ Silent(Y) /\ Brings(Z, extracted, extracted')
    /\ Silent(B) \/ (Silent(history) /\ Increasing(todo))
    /\ todo = Y \o B /\ todo' = Z \o B /\ history' = history

LEMMA NewStep ==
  ASSUME Flow, SocketTypeOK, ActorTypeOK, script' = script,
         extracted' \in Nat, extracted <= extracted', NewSteps
  PROVE  Flow'
<1>1. PICK Y \in Seq(Item), Z \in Seq(Item), B \in Seq(Item) :
        /\ Silent(Y) /\ Brings(Z, extracted, extracted')
        /\ Silent(B) \/ (Silent(history) /\ Increasing(todo))
        /\ todo = Y \o B /\ todo' = Z \o B /\ history' = history
  BY DEF NewSteps
<1>2. history \in Seq(Item) /\ extracted \in Nat
  BY ActorFacts
<1>3. FlowOK(history \o (Y \o B), extracted)
  BY <1>1 DEF Flow
<1>4. Silent(B) \/ (Silent(history) /\ Increasing(Y \o B))
  BY <1>1
<1>5. FlowOK(history \o (Z \o B), extracted')
  BY <1>1, <1>2, <1>3, <1>4, NewSplice
<1>6. FlowOK(history' \o todo', extracted')
  BY <1>1, <1>5
<1> QED BY <1>6 DEF Flow, FlowOK, Messages, Message, Handled

\* The worker is told that the connection is gone, or is not.
MayTell == history' = history \/ history' = Append(history, PeerDisconnected)

LEMMA TellFacts ==
  ASSUME SocketTypeOK, ActorTypeOK, MayTell
  PROVE  /\ \E X \in Seq(Item) : Silent(X) /\ history' = history \o X
         /\ Silent(history) => Silent(history')
<1>1. history \in Seq(Item) /\ PeerDisconnected \in Item
  BY ActorFacts
<1>2. \E X \in Seq(Item) : Silent(X) /\ history' = history \o X
  <2>1. CASE history' = history
    <3>1. Silent(<<>>) /\ <<>> \in Seq(Item) /\ history \o <<>> = history
      BY <1>1, Nothing DEF Silent
    <3> QED BY <2>1, <3>1
  <2>2. CASE history' = Append(history, PeerDisconnected)
    <3>1. Silent(<<PeerDisconnected>>)
      BY DEF Silent, PeerDisconnected
    <3>2. /\ <<PeerDisconnected>> \in Seq(Item)
          /\ Append(history, PeerDisconnected) = history \o <<PeerDisconnected>>
      BY <1>1, Single
    <3> QED BY <2>2, <3>1, <3>2
  <2> QED BY <2>1, <2>2 DEF MayTell
<1>3. Silent(history) => Silent(history')
  BY <1>1, <1>2, SilentConcat
<1> QED BY <1>2, <1>3

LEMMA SingleFacts ==
  ASSUME NEW c, c[1] # "Message"
  PROVE  /\ Silent(<<c>>) /\ ReadsLast(<<c>>) /\ Increasing(<<c>>) /\ TickLast(<<c>>)
         /\ \A d : d # c => Lacks(<<c>>, d)
<1>1. DOMAIN <<c>> = {1} /\ <<c>>[1] = c /\ Len(<<c>>) = 1 /\ Messages(<<c>>) = {}
  BY DEF Messages
<1> QED BY <1>1 DEF Silent, ReadsLast, Increasing, TickLast, Lacks

LEMMA EmptyFacts ==
  /\ Silent(<<>>) /\ ReadsLast(<<>>) /\ Increasing(<<>>) /\ TickLast(<<>>)
  /\ \A d : Lacks(<<>>, d)
<1>1. DOMAIN <<>> = {} /\ Messages(<<>>) = {}
  BY DEF Messages
<1> QED BY <1>1 DEF Silent, ReadsLast, Increasing, TickLast, Lacks

LEMMA ConsTail ==
  ASSUME NEW S, NEW c \in S, NEW s \in Seq(S)
  PROVE  <<c>> \o s # <<>> /\ Head(<<c>> \o s) = c /\ Tail(<<c>> \o s) = s
<1> DEFINE t == <<c>> \o s
<1>1. <<c>> \in Seq(S) /\ Len(<<c>>) = 1 /\ <<c>>[1] = c /\ DOMAIN <<c>> = {1}
  BY Single
<1>2. /\ t \in Seq(S) /\ Len(t) = 1 + Len(s) /\ Len(s) \in Nat /\ DOMAIN s = 1 .. Len(s)
      /\ t[1] = c /\ \A i \in DOMAIN s : t[1 + i] = s[i]
  BY <1>1, Cat
<1> HIDE DEF t
<1>3. t # <<>>
  BY <1>2, EmptySeq
<1>4. /\ Head(t) = c
      /\ Tail(t) \in Seq(S) /\ Len(Tail(t)) = Len(s)
      /\ \A i \in DOMAIN s : Tail(t)[i] = s[i]
  BY <1>2, <1>3, Pop
<1>5. Tail(t) = s
  BY <1>2, <1>4, SeqEqual
<1> QED BY <1>3, <1>4, <1>5 DEF t

-----------------------------------------------------------------------------
(* The calls that add none to make. *)

\* A call that does not establish the connection, but may lose it.
PopFrame ==
  /\ Running /\ todo # <<>> /\ todo' = Rest
  /\ UNCHANGED <<script, conn, task, dial, handshake, dispatcher, signals, queued, extracted,
                 taken>>
  /\ stream' => (stream /\ connection' = connection /\ Head(todo) # Established)
  /\ written' = written \/ (stream /\ \E x : written' = Append(written, x))
  /\ Silent(todo) /\ Silent(history) => Silent(history')

LEMMA PopStep ==
  ASSUME ActorInv, SocketTypeOK, conn = "Given", PopFrame
  PROVE  Fresh' /\ Begun' /\ Shape'
<1>1. /\ Fresh /\ Begun /\ Shape /\ todo \in Seq(Doing) /\ written \in Seq(Sent)
  BY DEF ActorInv, ActorTypeOK
<1>2. todo # <<>> /\ todo' = Tail(todo)
  BY DEF PopFrame, Rest
<1>3. /\ Silent(todo) => Silent(todo')
      /\ \A c : Lacks(todo, c) => Lacks(todo', c) /\ Head(todo) # c
      /\ TickLast(todo) => TickLast(todo')
      /\ FirstLast(todo) => FirstLast(todo')
      /\ ReadsLast(todo) => ReadsLast(todo')
  BY <1>1, <1>2, PopFacts
<1>4. Fresh'
  BY <1>1, <1>3 DEF PopFrame, Fresh
<1>5. Begun'
  <2>1. stream' => written' # <<>> \/ ~handshake
    <3>1. ASSUME NEW x, written' = Append(written, x) PROVE written' # <<>>
      BY <1>1, <3>1
    <3> QED BY <1>1, <3>1 DEF PopFrame, Begun
  <2>2. stream' => todo # <<Established>>
    BY <1>1, <1>2 DEF PopFrame
  <2> QED BY <1>1, <1>3, <2>1, <2>2 DEF PopFrame, Begun, Running
<1>6. SignalShape'
  BY <1>1, <1>3 DEF PopFrame, Shape, SignalShape
<1>7. EstablishedShape'
  <2>1. CASE Lacks(todo, Established)
    BY <1>3, <2>1 DEF EstablishedShape
  <2>2. CASE OnlyTicks(Tail(todo))
    <3>1. Lacks(todo', Established)
      BY <1>2, <2>2, Tags DEF OnlyTicks, Lacks
    <3> QED BY <3>1 DEF EstablishedShape
  <2> QED BY <1>1, <2>1, <2>2 DEF Shape, EstablishedShape
<1>8. FirstReadShape'
  BY <1>1, <1>3 DEF PopFrame, Shape, FirstReadShape
<1>9. ReadShape'
  <2>1. ReadsLast(todo')
    BY <1>1, <1>2, <1>3 DEF Shape, ReadShape
  <2> QED BY <2>1 DEF ReadShape
<1> QED BY <1>1, <1>3, <1>4, <1>5, <1>6, <1>7, <1>8, <1>9 DEF Shape

\* If what was called is not a message, it was no message's turn.
LEMMA PopQuiet ==
  ASSUME SocketTypeOK, ActorTypeOK, todo # <<>>, Head(todo)[1] # "Message", todo' = Rest, MayTell
  PROVE  QuietSteps /\ (Silent(history) => Silent(history'))
<1>1. PICK X \in Seq(Item) : Silent(X) /\ history' = history \o X
  BY TellFacts
<1>2. /\ Rest \in Seq(Item) /\ <<Head(todo)>> \in Seq(Item) /\ todo = <<Head(todo)>> \o Rest
  BY ActorFacts
<1>3. Silent(<<Head(todo)>>) /\ Silent(<<>>)
  BY SingleFacts, EmptyFacts
<1>4. <<>> \in Seq(Item) /\ Rest = <<>> \o Rest
  BY <1>2, Nothing
<1>5. QuietSteps
  BY <1>1, <1>2, <1>3, <1>4 DEF QuietSteps
<1> QED BY <1>5, TellFacts

LEMMA FailedStep ==
  ASSUME ActorInv, SocketTypeOK, conn = "Given", conn' = conn, OnFailed
  PROVE  Flow' /\ Fresh' /\ Begun' /\ Shape'
<1>1. /\ todo # <<>> /\ Head(todo) = Failed /\ Running /\ todo' = Rest
      /\ stream' = FALSE /\ history' = Append(history, PeerDisconnected)
      /\ UNCHANGED <<script, extracted, taken, task, dial, handshake, written, connection,
                     dispatcher, signals, queued>>
  BY DEF OnFailed, Calls, Disconnect, socketVars, lifeVars
<1>2. QuietSteps /\ (Silent(history) => Silent(history'))
  BY <1>1, Tags, PopQuiet DEF MayTell, ActorInv
<1>3. PopFrame
  BY <1>1, <1>2 DEF PopFrame
<1> QED BY <1>1, <1>2, <1>3, PopStep, QuietStep DEF ActorInv

LEMMA WriteStep ==
  ASSUME ActorInv, SocketTypeOK, conn = "Given", conn' = conn, OnWrite
  PROVE  Flow' /\ Fresh' /\ Begun' /\ Shape'
<1>1. /\ todo # <<>> /\ Head(todo) \in Asked /\ Running /\ todo' = Rest
      /\ Send(Head(todo), history)
      /\ UNCHANGED <<script, extracted, taken, task, dial, handshake, connection,
                     dispatcher, signals, queued>>
  BY DEF OnWrite, socketVars, lifeVars
<1>2. /\ MayTell
      /\ UNCHANGED written \/ (stream /\ written' = Append(written, Head(todo)))
      /\ stream' = stream \/ stream' = FALSE
  BY <1>1, SendFacts DEF MayTell
<1>3. Head(todo)[1] # "Message" /\ Head(todo) # Established
  BY <1>1, Tags
<1>4. QuietSteps /\ (Silent(history) => Silent(history'))
  BY <1>1, <1>2, <1>3, PopQuiet DEF ActorInv
<1>5. PopFrame
  BY <1>1, <1>2, <1>3, <1>4 DEF PopFrame
<1> QED BY <1>1, <1>4, <1>5, PopStep, QuietStep DEF ActorInv

\* A message is handled; what its answer may cost comes after it.
LEMMA MessageStep ==
  ASSUME ActorInv, SocketTypeOK, conn = "Given", conn' = conn, OnMessage
  PROVE  Flow' /\ Fresh' /\ Begun' /\ Shape'
<1>1. /\ todo # <<>> /\ Running /\ todo' = Rest
      /\ UNCHANGED <<script, extracted, taken, task, dial, handshake, connection,
                     dispatcher, signals, queued>>
  BY DEF OnMessage, socketVars
<1>2. PICK n \in DOMAIN script :
        /\ Head(todo) = Message(n)
        /\ IF script[n] \in Answered
           THEN Send(<<"Answer", n>>, Append(history, Message(n)))
           ELSE history' = Append(history, Message(n)) /\ UNCHANGED <<stream, written>>
  BY DEF OnMessage
<1>3. /\ \/ history' = Append(history, Message(n))
         \/ history' = Append(Append(history, Message(n)), PeerDisconnected)
      /\ UNCHANGED written \/ (stream /\ written' = Append(written, <<"Answer", n>>))
      /\ stream' = stream \/ stream' = FALSE
  <2>1. CASE script[n] \in Answered
    <3>1. Send(<<"Answer", n>>, Append(history, Message(n)))
      BY <1>2, <2>1
    <3> QED BY <3>1, SendFacts
  <2>2. CASE script[n] \notin Answered
    BY <1>2, <2>2
  <2> QED BY <2>1, <2>2
<1>4. Head(todo)[1] = "Message" /\ Head(todo) # Established
  BY <1>2, Tags
<1>5. ~Silent(todo)
  <2>1. 1 \in DOMAIN todo /\ todo[1] = Head(todo)
    BY <1>1, Pop DEF ActorInv, ActorTypeOK
  <2> QED BY <1>4, <2>1 DEF Silent
<1>6. PopFrame
  BY <1>1, <1>3, <1>4, <1>5 DEF PopFrame
<1>7. Flow'
  <2> DEFINE m == Message(n)
             A == history \o <<m>>
  <2>1. /\ history \in Seq(Item) /\ Rest \in Seq(Item) /\ m \in Item /\ PeerDisconnected \in Item
        /\ <<m>> \in Seq(Item) /\ todo = <<m>> \o Rest /\ extracted \in Nat
    BY <1>1, <1>2, ActorFacts DEF ActorInv
  <2> HIDE DEF m
  <2>2. A \in Seq(Item) /\ Append(history, m) = A
    BY <2>1, Single, ConcatProperties
  <2>3. FlowOK(A \o (<<>> \o Rest), extracted)
    <3>1. FlowOK(history \o (<<m>> \o Rest), extracted)
      BY <2>1 DEF ActorInv, Flow
    <3>2. history \o (<<m>> \o Rest) = A \o Rest
      BY <2>1, ConcatAssociative
    <3>3. <<>> \o Rest = Rest
      BY <2>1, Nothing
    <3> QED BY <3>1, <3>2, <3>3
  <2>4. history' = A \/ history' = Append(A, PeerDisconnected)
    BY <1>3, <2>2 DEF m
  <2> HIDE DEF A
  <2>5. \E X \in Seq(Item) : Silent(X) /\ history' = A \o X
    <3>1. Silent(<<>>) /\ <<>> \in Seq(Item) /\ A \o <<>> = A
      BY <2>2, Nothing, EmptyFacts
    <3>2. /\ Silent(<<PeerDisconnected>>) /\ <<PeerDisconnected>> \in Seq(Item)
          /\ Append(A, PeerDisconnected) = A \o <<PeerDisconnected>>
      <4>1. PeerDisconnected[1] # "Message"
        BY DEF PeerDisconnected
      <4> QED BY <2>1, <2>2, <4>1, Single, SingleFacts
    <3> QED BY <2>4, <3>1, <3>2
  <2>6. PICK X \in Seq(Item) : Silent(X) /\ history' = A \o X
    BY <2>5
  <2>7. FlowOK(A \o (X \o Rest), extracted)
    <3>1. <<>> \in Seq(Item) /\ Silent(<<>>)
      BY <2>1, Nothing, EmptyFacts
    <3> QED BY <2>1, <2>2, <2>3, <2>6, <3>1, QuietSplice
  <2>8. (A \o X) \o Rest = A \o (X \o Rest)
    BY <2>1, <2>2, ItemsAssociate
  <2>9. FlowOK(history' \o todo', extracted')
    BY <1>1, <2>6, <2>7, <2>8
  <2> QED BY <1>1, <2>9 DEF Flow, FlowOK, Messages, Message, Handled
<1> QED BY <1>6, <1>7, PopStep

LEMMA EndOfTickPops ==
  ASSUME ActorInv, SocketTypeOK, conn = "Given", conn' = conn, OnEndOfTick,
         ~(connection = "Connected" /\ stream)
  PROVE  Flow' /\ Fresh' /\ Begun' /\ Shape'
<1>1. /\ todo # <<>> /\ Head(todo) = EndOfTick /\ Running /\ todo' = Rest /\ MayTell
      /\ written' = written /\ (stream' = stream \/ stream' = FALSE)
      /\ UNCHANGED <<script, extracted, taken, task, dial, handshake, connection,
                     dispatcher, signals, queued>>
  BY DEF OnEndOfTick, Calls, Disconnect, MayTell, socketVars, lifeVars, outVars
<1>2. Head(todo)[1] # "Message" /\ Head(todo) # Established
  BY <1>1, Tags
<1>3. QuietSteps /\ (Silent(history) => Silent(history'))
  BY <1>1, <1>2, PopQuiet DEF ActorInv
<1>4. PopFrame
  BY <1>1, <1>2, <1>3 DEF PopFrame
<1> QED BY <1>1, <1>3, <1>4, PopStep, QuietStep DEF ActorInv

-----------------------------------------------------------------------------
(* The calls that read. *)

\* What is known when a read is made.
ReadPoint ==
  /\ dispatcher /\ dial # "Dialing"
  /\ Lacks(Rest, Established) /\ Lacks(Rest, FirstRead) /\ TickLast(Rest) /\ ReadsLast(Rest)
  /\ signals = <<>> \/ (signals = <<ProcessRead>> /\ Silent(history) /\ Silent(Rest))
  /\ \/ Silent(Rest)
     \/ Silent(history) /\ extracted = Whole(taken) /\ Increasing(todo) /\ signals = <<>>

LEMMA ReadFacts ==
  ASSUME ActorInv, todo # <<>>, Head(todo) \in {ProcessRead, TryRead}
  PROVE  ReadPoint
<1>1. /\ Fresh /\ Begun /\ TickLast(todo) /\ SignalShape /\ EstablishedShape /\ FirstReadShape
      /\ ReadShape /\ todo \in Seq(Doing) /\ Rest = Tail(todo)
  BY DEF ActorInv, Shape, ActorTypeOK, Rest
<1>2. /\ Silent(todo) => Silent(Rest)
      /\ \A c : Lacks(todo, c) => Lacks(Rest, c) /\ Head(todo) # c
      /\ TickLast(todo) => TickLast(Rest)
      /\ FirstLast(todo) /\ Head(todo) \notin Asked /\ Head(todo) # FirstRead
           => Lacks(todo, FirstRead)
      /\ ReadsLast(todo) => ReadsLast(Rest)
      /\ ReadsLast(todo) => Silent(todo)
  BY <1>1, PopFacts
<1>3. Head(todo) \notin Asked /\ Head(todo) # FirstRead /\ Head(todo) # Established
  BY Tags
<1>4. dispatcher /\ dial # "Dialing"
  BY <1>1, <1>2 DEF Fresh, Begun
<1>5. Lacks(Rest, Established) /\ Lacks(Rest, FirstRead) /\ TickLast(Rest) /\ ReadsLast(Rest)
  BY <1>1, <1>2, <1>3 DEF EstablishedShape, FirstReadShape, ReadShape
<1>6. signals = <<>> \/ (signals = <<ProcessRead>> /\ Silent(history) /\ Silent(todo))
  BY <1>1, <1>4 DEF SignalShape
<1>7. \/ Silent(Rest)
      \/ Silent(history) /\ extracted = Whole(taken) /\ Increasing(todo) /\ signals = <<>>
  BY <1>1, <1>2, <1>6 DEF ReadShape
<1> QED BY <1>2, <1>4, <1>5, <1>6, <1>7 DEF ReadPoint

\* A read leaves how far the connection is.
LEMMA ReadBegun ==
  ASSUME ActorInv, ReadPoint, Running, conn = "Given", stream' => stream,
         UNCHANGED <<conn, task, dial, handshake, dispatcher, connection, queued, written>>
  PROVE  Fresh' /\ Begun'
BY DEF ActorInv, ReadPoint, Running, Fresh, Begun

\* The signals and the messages found are put before the calls W.
LEMMA PushShape ==
  ASSUME SocketTypeOK, ActorTypeOK, ReadPoint,
         NEW N \in Seq(Item), OnlyMessages(N), Increasing(N),
         N = <<>> \/ extracted' = Whole(taken'),
         NEW W \in Seq(Item), TickLast(W), Lacks(W, Established), Lacks(W, FirstRead),
         ReadsLast(W), Silent(W) \/ signals = <<>>,
         history' = history, signals' = <<>>, todo' = (signals \o N) \o W
  PROVE  Shape'
<1>1. /\ Lacks(N, EndOfTick) /\ Lacks(N, Established) /\ Lacks(N, FirstRead)
      /\ Lacks(N, ProcessRead) /\ Lacks(N, TryRead) /\ ReadsLast(N)
  BY OnlyMessagesFacts
<1> DEFINE V == N \o W
<1>2. V \in Seq(Item)
  BY ConcatProperties
<1>3. TickLast(V) /\ Lacks(V, Established) /\ Lacks(V, FirstRead) /\ ReadsLast(V)
  BY <1>1, CatFacts
<1>4. Silent(W) => Increasing(V)
  BY CatFacts
<1>5. CASE signals = <<>>
  <2>1. todo' = V
    BY <1>5, Nothing
  <2> HIDE DEF V
  <2>2. TickLast(todo') /\ Lacks(todo', Established) /\ Lacks(todo', FirstRead) /\ ReadsLast(todo')
    BY <1>3, <2>1
  <2> QED
    BY <2>2, EmptyFacts DEF Shape, SignalShape, EstablishedShape, FirstReadShape, ReadShape,
                          Established, Failed, ProcessRead
<1>6. CASE signals = <<ProcessRead>> /\ Silent(history) /\ Silent(W)
  <2>1. <<ProcessRead>> \in Seq(Item) /\ ProcessRead \in Item
    BY <1>6, ActorFacts
  <2>2. todo' = <<ProcessRead>> \o V
    BY <1>6, <2>1, ItemsAssociate
  <2> HIDE DEF V
  <2>3. Head(todo') = ProcessRead /\ Tail(todo') = V
    BY <1>2, <2>1, <2>2, ConsTail
  <2>4. /\ Silent(<<ProcessRead>>) /\ ReadsLast(<<ProcessRead>>)
        /\ Lacks(<<ProcessRead>>, EndOfTick) /\ Lacks(<<ProcessRead>>, Established)
        /\ Lacks(<<ProcessRead>>, FirstRead)
    BY Tags, SingleFacts
  <2>5. TickLast(todo') /\ Lacks(todo', Established) /\ Lacks(todo', FirstRead) /\ Increasing(todo')
    BY <1>2, <1>3, <1>4, <1>6, <2>1, <2>2, <2>4, CatFacts
  <2>6. ReadShape'
    <3>1. CASE N = <<>>
      <4>1. V = W
        BY <3>1, Nothing DEF V
      <4>2. ReadsLast(todo')
        BY <1>6, <2>1, <2>2, <2>4, <4>1, CatFacts
      <4> QED BY <4>2 DEF ReadShape
    <3>2. CASE extracted' = Whole(taken')
      <4>1. Silent(history') /\ ReadsLast(Tail(todo'))
        BY <1>3, <1>6, <2>3
      <4>2. (extracted = Whole(taken))'
        BY <3>2 DEF Whole
      <4> QED BY <2>5, <4>1, <4>2 DEF ReadShape
    <3> QED BY <3>1, <3>2
  <2> QED
    BY <2>5, <2>6, EmptyFacts DEF Shape, SignalShape, EstablishedShape, FirstReadShape,
                                Established, Failed, ProcessRead
<1> QED BY <1>5, <1>6 DEF ReadPoint

\* The first extraction leaves the read itself to make.
LEMMA PushTryRead ==
  ASSUME SocketTypeOK, ActorTypeOK, ReadPoint, todo # <<>>, Head(todo) = ProcessRead,
         todo' = <<TryRead>> \o Rest, signals' = signals, UNCHANGED <<history, extracted, taken>>
  PROVE  Shape' /\ QuietSteps
<1>1. /\ Rest \in Seq(Item) /\ TryRead \in Item /\ <<TryRead>> \in Seq(Item)
      /\ history \in Seq(Item)
      /\ <<ProcessRead>> \in Seq(Item) /\ todo = <<ProcessRead>> \o Rest
  BY ActorFacts
<1>2. todo' # <<>> /\ Head(todo') = TryRead /\ Tail(todo') = Rest
  BY <1>1, ConsTail
<1>3. /\ Silent(<<TryRead>>) /\ ReadsLast(<<TryRead>>) /\ Increasing(<<TryRead>>)
      /\ Lacks(<<TryRead>>, EndOfTick) /\ Lacks(<<TryRead>>, Established)
      /\ Lacks(<<TryRead>>, FirstRead) /\ Silent(<<ProcessRead>>) /\ Silent(<<>>)
  BY Tags, SingleFacts, EmptyFacts
<1>4. /\ TickLast(todo') /\ Lacks(todo', Established) /\ Lacks(todo', FirstRead)
      /\ Silent(Rest) => Silent(todo') /\ ReadsLast(todo')
  BY <1>1, <1>3, CatFacts, SilentConcat DEF ReadPoint
<1>5. SignalShape'
  BY <1>4, Tags DEF ReadPoint, SignalShape, Established, Failed, ProcessRead
<1>6. ReadShape'
  <2>1. CASE Silent(Rest)
    BY <1>4, <2>1 DEF ReadShape
  <2>2. CASE Silent(history) /\ extracted = Whole(taken) /\ Increasing(todo)
    <3>1. Increasing(Rest)
      <4>1. todo \in Seq(Doing)
        BY DEF ActorTypeOK
      <4> QED BY <2>2, <4>1, PopFacts DEF Rest
    <3>2. Increasing(todo')
      BY <1>1, <1>3, <3>1, CatFacts
    <3>3. (extracted = Whole(taken))'
      BY <2>2 DEF Whole
    <3> QED BY <1>2, <2>2, <3>2, <3>3 DEF ReadPoint, ReadShape
  <2> QED BY <2>1, <2>2 DEF ReadPoint
<1>7. Shape'
  BY <1>4, <1>5, <1>6 DEF Shape, EstablishedShape, FirstReadShape
<1>8. QuietSteps
  <2>1. history' = history \o <<>> /\ <<>> \in Seq(Item)
    BY <1>1, Nothing
  <2> QED BY <1>1, <1>3, <2>1 DEF QuietSteps
<1> QED BY <1>7, <1>8

\* How many units were read, and the signals of the items found in them.
LEMMA FoundFacts ==
  ASSUME SocketTypeOK, ActorTypeOK, ReadPoint, NEW t \in Nat, taken <= t, t <= arrived
  PROVE  /\ Whole(t) \in Nat /\ extracted <= Whole(t)
         /\ NewSignals(t) \in Seq(Item) /\ OnlyMessages(NewSignals(t))
         /\ Increasing(NewSignals(t)) /\ Brings(NewSignals(t), extracted, Whole(t))
         /\ extracted = Whole(t) => NewSignals(t) = <<>>
<1>1. /\ Len(script) \in Nat /\ arrived \in Nat /\ extracted \in Nat
      /\ arrived <= 2 * Len(script) /\ taken \in Nat /\ 2 * extracted <= taken
  BY SocketNumbers, ActorFacts DEF SocketTypeOK
<1>2. Whole(t) \in 0 .. Len(script) /\ extracted <= Whole(t)
  BY <1>1 DEF Whole
<1>3. /\ NewSignals(t) \in Seq(Signal) /\ OnlyMessages(NewSignals(t))
      /\ Brings(NewSignals(t), extracted, Whole(t))
      /\ extracted = Whole(t) => NewSignals(t) = <<>>
  BY <1>2, NewSignalsFacts DEF ReadPoint
<1>4. NewSignals(t) \in Seq(Item)
  <2>1. Signal \subseteq Item
    BY Kinds DEF Item
  <2> QED BY <1>3, <2>1, SeqOfSubset
<1> QED BY <1>1, <1>2, <1>3, <1>4 DEF Brings

\* The messages found keep the flow.
LEMMA PushFlow ==
  ASSUME Flow, SocketTypeOK, ActorTypeOK, ReadPoint, todo # <<>>,
         Head(todo) \in {ProcessRead, TryRead}, script' = script,
         NEW N \in Seq(Item), NEW T \in Seq(Item), Silent(T), extracted' \in Nat,
         extracted <= extracted', Brings(N, extracted, extracted'),
         todo' = (signals \o N) \o (T \o Rest), history' = history
  PROVE  Flow'
<1>1. /\ Rest \in Seq(Item) /\ signals \in Seq(Item) /\ <<Head(todo)>> \in Seq(Item)
      /\ todo = <<Head(todo)>> \o Rest /\ extracted \in Nat
  BY ActorFacts
<1> DEFINE U == signals \o N
           Z == U \o T
<1>2. Silent(signals) /\ Silent(<<Head(todo)>>)
  BY Tags, SingleFacts, EmptyFacts DEF ReadPoint
<1>3. U \in Seq(Item) /\ Brings(U, extracted, extracted')
  BY <1>1, <1>2, BringsPadded, ConcatProperties
<1> HIDE DEF U
<1>4. Z \in Seq(Item) /\ Brings(Z, extracted, extracted')
  BY <1>1, <1>3, BringsPadded, ConcatProperties
<1>5. todo' = Z \o Rest
  <2>1. (U \o T) \o Rest = U \o (T \o Rest)
    BY <1>1, <1>3, ItemsAssociate
  <2> QED BY <2>1 DEF U
<1> HIDE DEF Z
<1>6. NewSteps
  BY <1>1, <1>2, <1>4, <1>5 DEF NewSteps, ReadPoint
<1> QED BY <1>6, NewStep

\* process_read: what is in the reader already.
LEMMA ProcessReadStep ==
  ASSUME ActorInv, SocketTypeOK, conn = "Given", conn' = conn, OnProcessRead
  PROVE  Flow' /\ Fresh' /\ Begun' /\ Shape'
<1>1. /\ todo # <<>> /\ Head(todo) = ProcessRead /\ Running /\ history' = history
      /\ UNCHANGED <<script, taken, task, dial, handshake, connection, dispatcher, queued,
                     stream, written>>
  BY DEF OnProcessRead, Calls, lifeVars, outVars
<1>2. ReadPoint
  BY <1>1, ReadFacts
<1>3. Fresh' /\ Begun'
  BY <1>1, <1>2, ReadBegun
<1>4. /\ Flow /\ ActorTypeOK /\ Rest \in Seq(Item) /\ TryRead \in Item
      /\ <<TryRead>> \in Seq(Item) /\ signals \in Seq(Item)
  BY <1>1, ActorFacts, Single DEF ActorInv
<1>5. /\ Silent(<<TryRead>>) /\ ReadsLast(<<TryRead>>)
      /\ Lacks(<<TryRead>>, EndOfTick) /\ Lacks(<<TryRead>>, Established)
      /\ Lacks(<<TryRead>>, FirstRead)
  BY Tags, SingleFacts
<1>6. CASE taken > 2 * extracted
  <2>1. /\ extracted' = Whole(taken) /\ signals' = <<>>
        /\ todo' = (signals \o NewSignals(taken)) \o (<<TryRead>> \o Rest)
    BY <1>1, <1>6 DEF OnProcessRead, Drain
  <2> DEFINE N == NewSignals(taken)
  <2>2. /\ Whole(taken) \in Nat /\ extracted <= Whole(taken) /\ N \in Seq(Item)
        /\ OnlyMessages(N) /\ Increasing(N) /\ Brings(N, extracted, Whole(taken))
        /\ extracted = Whole(taken) => N = <<>>
    <3>1. taken \in Nat /\ arrived \in Nat /\ taken <= arrived
      BY SocketNumbers
    <3>2. taken <= taken
      BY <3>1
    <3> QED BY <1>2, <1>4, <3>1, <3>2, FoundFacts
  <2> HIDE DEF N
  <2>3. Flow'
    BY <1>1, <1>2, <1>4, <1>5, <2>1, <2>2, PushFlow DEF N
  <2>4. CASE Silent(Rest)
    <3> DEFINE W == <<TryRead>> \o Rest
    <3>1. /\ W \in Seq(Item) /\ TickLast(W) /\ Lacks(W, Established) /\ Lacks(W, FirstRead)
          /\ ReadsLast(W) /\ Silent(W)
      BY <1>2, <1>4, <1>5, <2>4, CatFacts, SilentConcat, ConcatProperties DEF ReadPoint
    <3>2. extracted' = Whole(taken')
      BY <1>1, <2>1 DEF Whole
    <3>3. todo' = (signals \o N) \o W
      BY <2>1 DEF N
    <3> HIDE DEF W
    <3>4. Shape'
      BY <1>1, <1>2, <1>4, <2>1, <2>2, <3>1, <3>2, <3>3, PushShape
    <3> QED BY <1>3, <2>3, <3>4
  <2>5. CASE ~Silent(Rest)
    <3>1. signals = <<>> /\ extracted = Whole(taken)
      BY <1>2, <2>5 DEF ReadPoint
    <3>2. N = <<>>
      BY <2>2, <3>1
    <3>3. todo' = <<TryRead>> \o Rest
      <4>1. <<TryRead>> \o Rest \in Seq(Item)
        BY <1>4, ConcatProperties
      <4>2. signals \o N = <<>>
        BY <1>4, <3>1, <3>2, Nothing
      <4> QED BY <2>1, <4>1, <4>2, Nothing DEF N
    <3>4. Shape'
      BY <1>1, <1>2, <1>4, <2>1, <3>1, <3>3, PushTryRead
    <3> QED BY <1>3, <2>3, <3>4
  <2> QED BY <2>4, <2>5
<1>7. CASE ~(taken > 2 * extracted)
  <2>1. todo' = <<TryRead>> \o Rest /\ UNCHANGED <<extracted, signals>>
    BY <1>1, <1>7 DEF OnProcessRead
  <2>2. Shape' /\ QuietSteps
    BY <1>1, <1>2, <1>4, <2>1, PushTryRead
  <2>3. Flow'
    BY <1>1, <1>4, <2>1, <2>2, QuietStep
  <2> QED BY <1>3, <2>2, <2>3
<1> QED BY <1>6, <1>7

\* try_read.
LEMMA TryReadStep ==
  ASSUME ActorInv, SocketTypeOK, conn = "Given", conn' = conn, OnTryRead
  PROVE  Flow' /\ Fresh' /\ Begun' /\ Shape'
<1>1. /\ todo # <<>> /\ Head(todo) = TryRead /\ Running
      /\ UNCHANGED <<script, task, dial, handshake, connection, dispatcher, queued, written>>
      /\ stream' = stream \/ stream' = FALSE
  BY DEF OnTryRead, Calls, Disconnect, lifeVars, outVars
<1>2. ReadPoint
  BY <1>1, ReadFacts
<1>3. Fresh' /\ Begun'
  BY <1>1, <1>2, ReadBegun
<1>4. /\ Flow /\ ActorTypeOK /\ Rest \in Seq(Item) /\ <<>> \in Seq(Item) /\ extracted \in Nat
      /\ signals \in Seq(Item) /\ taken \in Nat
  BY <1>1, ActorFacts, Nothing DEF ActorInv
<1>5. CASE todo' = Rest /\ MayTell /\ UNCHANGED <<extracted, taken, signals>>
  <2>1. Head(todo)[1] # "Message" /\ Head(todo) # Established
    BY <1>1, Tags
  <2>2. QuietSteps /\ (Silent(history) => Silent(history'))
    BY <1>1, <1>5, <2>1, PopQuiet DEF ActorInv
  <2>3. PopFrame
    BY <1>1, <1>5, <2>1, <2>2 DEF PopFrame
  <2> QED BY <1>1, <1>5, <2>2, <2>3, PopStep, QuietStep DEF ActorInv
<1>6. ASSUME NEW N \in Seq(Item), OnlyMessages(N), Increasing(N), extracted' \in Nat,
             extracted <= extracted', Brings(N, extracted, extracted'),
             N = <<>> \/ extracted' = Whole(taken'),
             signals' = <<>>, todo' = (signals \o N) \o Rest, history' = history
      PROVE  Flow' /\ Shape'
  <2>1. Rest = <<>> \o Rest /\ Silent(<<>>)
    BY <1>4, Nothing, EmptyFacts
  <2>2. Flow'
    <3>1. todo' = (signals \o N) \o (<<>> \o Rest)
      BY <1>6, <2>1
    <3> QED BY <1>1, <1>2, <1>4, <1>6, <2>1, <3>1, PushFlow
  <2>3. TickLast(Rest) /\ Lacks(Rest, Established) /\ Lacks(Rest, FirstRead) /\ ReadsLast(Rest)
        /\ (Silent(Rest) \/ signals = <<>>)
    BY <1>2 DEF ReadPoint
  <2>4. Shape'
    BY <1>2, <1>4, <1>6, <2>3, PushShape
  <2> QED BY <2>2, <2>4
<1>7. ASSUME NEW n \in Readable, taken' = taken + n, extracted' = Whole(taken + n),
             Drain(NewSignals(taken + n), Rest), UNCHANGED outVars
      PROVE  Flow' /\ Shape'
  <2> DEFINE N == NewSignals(taken + n)
  <2>1. taken + n \in Nat /\ taken <= taken + n /\ taken + n <= arrived
    <3>1. taken \in Nat /\ arrived \in Nat
      BY SocketNumbers
    <3> QED BY <3>1 DEF Readable
  <2>2. /\ Whole(taken + n) \in Nat /\ extracted <= Whole(taken + n) /\ N \in Seq(Item)
        /\ OnlyMessages(N) /\ Increasing(N) /\ Brings(N, extracted, Whole(taken + n))
    BY <1>2, <1>4, <2>1, FoundFacts
  <2>3. todo' = (signals \o N) \o Rest /\ signals' = <<>> /\ history' = history
    BY <1>7 DEF Drain, outVars
  <2>4. extracted' = Whole(taken')
    BY <1>7 DEF Whole
  <2> HIDE DEF N
  <2> QED BY <1>6, <1>7, <2>2, <2>3, <2>4
<1>8. ASSUME Drain(<<>>, Rest), UNCHANGED <<taken, extracted, outVars>>
      PROVE  Flow' /\ Shape'
  <2>1. OnlyMessages(<<>>) /\ Increasing(<<>>) /\ Brings(<<>>, extracted, extracted)
    <3>1. extracted + 1 .. extracted = {}
      BY <1>4
    <3> QED BY <3>1, EmptyFacts DEF OnlyMessages, Brings, Messages
  <2>2. todo' = (signals \o <<>>) \o Rest /\ signals' = <<>> /\ history' = history
        /\ extracted' = extracted
    BY <1>8 DEF Drain, outVars
  <2>3. extracted' \in Nat /\ extracted <= extracted' /\ Brings(<<>>, extracted, extracted')
    BY <1>4, <2>1, <2>2
  <2> QED BY <1>4, <1>6, <2>1, <2>2, <2>3
<1>9. \/ todo' = Rest /\ MayTell /\ UNCHANGED <<extracted, taken, signals>>
      \/ \E n \in Readable : /\ taken' = taken + n
                             /\ extracted' = Whole(taken + n)
                             /\ Drain(NewSignals(taken + n), Rest)
                             /\ UNCHANGED outVars
      \/ Drain(<<>>, Rest) /\ UNCHANGED <<taken, extracted, outVars>>
  BY DEF OnTryRead, MayTell, Disconnect, outVars
<1> QED BY <1>3, <1>5, <1>7, <1>8, <1>9

-----------------------------------------------------------------------------
(* The calls around the first read. *)

LEMMA FirstLastFacts ==
  ASSUME NEW q \in Seq(Item), NEW r \in Seq(Item), \A i \in DOMAIN q : q[i] \in Asked, OnlyTicks(r)
  PROVE  FirstLast((q \o <<FirstRead>>) \o r)
<1> DEFINE p == q \o <<FirstRead>>
           s == p \o r
<1>1. /\ <<FirstRead>> \in Seq(Item) /\ DOMAIN <<FirstRead>> = {1} /\ Len(<<FirstRead>>) = 1
      /\ <<FirstRead>>[1] = FirstRead
  BY Kinds DEF Item
<1>2. /\ p \in Seq(Item) /\ Len(p) = Len(q) + 1 /\ Len(q) \in Nat /\ DOMAIN q = 1 .. Len(q)
      /\ \A i \in DOMAIN p : \/ i \in DOMAIN q /\ p[i] = q[i]
                             \/ i > Len(q) /\ i - Len(q) \in {1}
      /\ DOMAIN p = 1 .. Len(q) + 1
  BY <1>1, Cat
<1> HIDE DEF p
<1>3. /\ DOMAIN s = 1 .. Len(p) + Len(r) /\ Len(r) \in Nat
      /\ \A i \in DOMAIN s : \/ i \in DOMAIN p /\ s[i] = p[i]
                             \/ i > Len(p) /\ i - Len(p) \in DOMAIN r /\ s[i] = r[i - Len(p)]
  <2>1. p \in Seq(Item)
    BY <1>2
  <2> QED BY <2>1, Cat
<1> HIDE DEF s
<1>4. \A i \in DOMAIN s : \/ i <= Len(q) /\ s[i] \in Asked
                          \/ i = Len(q) + 1
                          \/ i > Len(q) + 1 /\ s[i] = EndOfTick
  BY <1>2, <1>3 DEF OnlyTicks
<1>5. EndOfTick # FirstRead /\ FirstRead \notin Asked
  BY Tags
<1>6. \A i \in DOMAIN s : s[i] = FirstRead => i = Len(q) + 1
  BY <1>4, <1>5
<1>7. ASSUME NEW i \in DOMAIN s, s[i] = FirstRead, NEW j \in DOMAIN s
      PROVE  (j < i => s[j] \in Asked) /\ (j > i => s[j] = EndOfTick)
  <2>1. i = Len(q) + 1 /\ j \in Int
    BY <1>3, <1>6, <1>7
  <2> QED BY <1>2, <1>4, <2>1
<1>8. FirstLast(s)
  BY <1>7 DEF FirstLast
<1> QED BY <1>8 DEF s, p

LEMMA TicksFacts ==
  ASSUME NEW s, OnlyTicks(s)
  PROVE  /\ Silent(s) /\ ReadsLast(s)
         /\ Lacks(s, Established) /\ Lacks(s, FirstRead) /\ Lacks(s, ProcessRead)
         /\ Lacks(s, TryRead)
BY Tags DEF OnlyTicks, Silent, Lacks, ReadsLast

\* on_connection_established: what was queued is called first, then the first read.
LEMMA EstablishedStep ==
  ASSUME ActorInv, SocketTypeOK, conn = "Given", conn' = conn, OnEstablished
  PROVE  Flow' /\ Fresh' /\ Begun' /\ Shape'
<1>1. /\ todo # <<>> /\ Head(todo) = Established /\ Running
      /\ UNCHANGED <<script, extracted, taken, task, dial, handshake, signals>>
  BY DEF OnEstablished, Calls, socketVars, lifeVars
<1>2. CASE stream' = FALSE /\ MayTell /\ todo' = Rest /\ UNCHANGED <<dispatcher, written, queued>>
  <2>1. Head(todo)[1] # "Message"
    BY <1>1, Tags
  <2>2. QuietSteps /\ (Silent(history) => Silent(history'))
    BY <1>1, <1>2, <2>1, PopQuiet DEF ActorInv
  <2>3. PopFrame
    BY <1>1, <1>2, <2>2 DEF PopFrame
  <2> QED BY <1>1, <2>2, <2>3, PopStep, QuietStep DEF ActorInv
<1>3. CASE /\ stream' = TRUE /\ dispatcher' = TRUE /\ connection' = "Connected"
           /\ written' = written \o (IF handshake THEN <<<<"PierceFireWall">>>> ELSE <<>>)
           /\ queued' = <<>> /\ todo' = (queued \o <<FirstRead>>) \o Rest
           /\ history' = history
  <2>1. /\ todo \in Seq(Doing) /\ queued \in Seq(Asked) /\ written \in Seq(Sent) /\ Rest = Tail(todo)
        /\ Fresh /\ Begun /\ TickLast(todo) /\ EstablishedShape
    BY DEF ActorInv, ActorTypeOK, Shape, Rest
  <2>2. OnlyTicks(Rest) /\ ~dispatcher /\ signals = <<>> /\ dial # "Dialing"
    <3>1. ~Lacks(todo, Established)
      BY <1>1, <2>1, PopFacts
    <3> QED BY <2>1, <3>1 DEF EstablishedShape
  <2>3. /\ Silent(history) /\ Silent(todo) /\ (handshake => written = <<>>)
    BY <2>1, <2>2 DEF Fresh
  <2>4. TickLast(Rest)
    BY <1>1, <2>1, PopFacts
  <2>5. /\ Rest \in Seq(Item) /\ queued \in Seq(Item) /\ FirstRead \in Item
        /\ <<FirstRead>> \in Seq(Item) /\ history \in Seq(Item)
        /\ <<Established>> \in Seq(Item) /\ todo = <<Established>> \o Rest
    BY <1>1, ActorFacts, Single DEF ActorInv
  <2>6. \A i \in DOMAIN queued : queued[i] \in Asked /\ queued[i][1] = "Write"
    <3>1. DOMAIN queued = 1 .. Len(queued)
      BY <2>1, LenProperties
    <3> QED BY <2>1, <3>1, ElementOfSeq, Tags
  <2>7. /\ Silent(queued) /\ Lacks(queued, EndOfTick) /\ Lacks(queued, Established)
        /\ Lacks(queued, ProcessRead) /\ Lacks(queued, TryRead) /\ ReadsLast(queued)
    BY <2>6, Tags DEF Silent, Lacks, ReadsLast
  <2>8. /\ Silent(<<FirstRead>>) /\ Lacks(<<FirstRead>>, EndOfTick)
        /\ Lacks(<<FirstRead>>, Established) /\ Lacks(<<FirstRead>>, ProcessRead)
        /\ Lacks(<<FirstRead>>, TryRead) /\ ReadsLast(<<FirstRead>>)
        /\ Silent(<<Established>>) /\ Silent(<<>>)
    BY Tags, SingleFacts, EmptyFacts
  <2>9. /\ Silent(Rest) /\ ReadsLast(Rest) /\ Lacks(Rest, Established)
    BY <2>2, TicksFacts
  <2> DEFINE p == queued \o <<FirstRead>>
  <2>10. /\ p \in Seq(Item) /\ Silent(p) /\ Lacks(p, EndOfTick) /\ Lacks(p, Established)
         /\ ReadsLast(p)
    BY <2>5, <2>7, <2>8, CatFacts, SilentConcat, ConcatProperties
  <2>11. FirstLast(p \o Rest)
    BY <2>2, <2>5, <2>6, FirstLastFacts
  <2>12. todo' = p \o Rest
    BY <1>3
  <2> HIDE DEF p
  <2>13. /\ Silent(todo') /\ TickLast(todo') /\ Lacks(todo', Established) /\ ReadsLast(todo')
         /\ FirstLast(todo')
    BY <2>4, <2>5, <2>9, <2>10, <2>11, <2>12, CatFacts, SilentConcat
  <2>14. Shape'
    <3>1. signals' = <<>> /\ history' = history
      BY <1>1, <1>3, <2>2
    <3> QED
      BY <2>3, <2>13, <3>1 DEF Shape, SignalShape, EstablishedShape, FirstReadShape, ReadShape,
                                Established, Failed, ProcessRead
  <2>15. QuietSteps
    <3>1. history' = history \o <<>> /\ <<>> \in Seq(Item)
      BY <1>3, <2>5, Nothing
    <3> QED BY <2>5, <2>8, <2>10, <2>12, <3>1 DEF QuietSteps
  <2>16. Flow'
    BY <1>1, <2>15, QuietStep DEF ActorInv
  <2>17. Fresh' /\ Begun'
    <3>1. handshake => written' # <<>>
      <4>1. <<<<"PierceFireWall">>>> \in Seq(Sent) /\ <<<<"PierceFireWall">>>> # <<>>
        BY Kinds
      <4>2. handshake => written' = <<<<"PierceFireWall">>>>
        BY <1>3, <2>3, <4>1, Nothing
      <4> QED BY <4>1, <4>2
    <3> QED BY <1>1, <1>3, <2>2, <3>1 DEF Running, Fresh, Begun
  <2> QED BY <2>14, <2>16, <2>17
<1>4. \/ /\ stream' = TRUE /\ dispatcher' = TRUE /\ connection' = "Connected"
         /\ written' = written \o (IF handshake THEN <<<<"PierceFireWall">>>> ELSE <<>>)
         /\ queued' = <<>> /\ todo' = (queued \o <<FirstRead>>) \o Rest
         /\ history' = history
      \/ stream' = FALSE /\ MayTell /\ todo' = Rest /\ UNCHANGED <<dispatcher, written, queued>>
  BY DEF OnEstablished, Disconnect, MayTell
<1> QED BY <1>2, <1>3, <1>4

\* A read that is put before calls none of which is a message's.
LEMMA PushProcessRead ==
  ASSUME ActorInv, SocketTypeOK, conn = "Given", conn' = conn, dispatcher, dial # "Dialing",
         Running, todo # <<>>, Head(todo)[1] # "Message", todo' = <<ProcessRead>> \o Rest,
         signals \in {<<>>, <<ProcessRead>>}, signals' \in {signals, <<ProcessRead>>},
         signals' = <<ProcessRead>> => Silent(history),
         Silent(Rest), TickLast(Rest), Lacks(Rest, Established), Lacks(Rest, FirstRead),
         UNCHANGED <<script, extracted, taken, history, task, dial, handshake, stream, connection,
                     written, dispatcher, queued>>
  PROVE  Flow' /\ Fresh' /\ Begun' /\ Shape'
<1>1. /\ Rest \in Seq(Item) /\ <<Head(todo)>> \in Seq(Item) /\ todo = <<Head(todo)>> \o Rest
      /\ ProcessRead \in Item /\ <<ProcessRead>> \in Seq(Item) /\ history \in Seq(Item)
  BY ActorFacts, Single DEF ActorInv
<1>2. /\ Silent(<<ProcessRead>>) /\ ReadsLast(<<ProcessRead>>)
      /\ Lacks(<<ProcessRead>>, EndOfTick) /\ Lacks(<<ProcessRead>>, Established)
      /\ Lacks(<<ProcessRead>>, FirstRead) /\ Silent(<<Head(todo)>>) /\ Silent(<<>>)
  BY Tags, SingleFacts, EmptyFacts
<1>3. ReadsLast(Rest)
  <2>1. ReadShape /\ todo \in Seq(Doing)
    BY DEF ActorInv, Shape, ActorTypeOK
  <2> QED BY <2>1, PopFacts DEF ReadShape, Rest
<1>4. /\ Silent(todo') /\ TickLast(todo') /\ Lacks(todo', Established) /\ Lacks(todo', FirstRead)
      /\ ReadsLast(todo')
  BY <1>1, <1>2, <1>3, CatFacts, SilentConcat
<1>5. Shape'
  BY <1>4, Tags DEF Shape, SignalShape, EstablishedShape, FirstReadShape, ReadShape,
                    Established, Failed, ProcessRead
<1>6. QuietSteps
  <2>1. history' = history \o <<>> /\ <<>> \in Seq(Item)
    BY <1>1, Nothing
  <2> QED BY <1>1, <1>2, <2>1 DEF QuietSteps
<1>7. Flow'
  BY <1>6, QuietStep DEF ActorInv
<1>8. Fresh' /\ Begun'
  BY DEF ActorInv, Running, Fresh, Begun
<1> QED BY <1>5, <1>7, <1>8

LEMMA FirstReadStep ==
  ASSUME ActorInv, SocketTypeOK, conn = "Given", conn' = conn, OnFirstRead
  PROVE  Flow' /\ Fresh' /\ Begun' /\ Shape'
<1>1. /\ todo # <<>> /\ Head(todo) = FirstRead /\ Running
      /\ signals' = Append(signals, ProcessRead) /\ todo' = <<ProcessRead>> \o Rest
      /\ UNCHANGED <<script, extracted, taken, history, task, dial, handshake, stream, connection,
                     written, dispatcher, queued>>
  BY DEF OnFirstRead, Calls, socketVars, lifeVars, outVars
<1>2. /\ todo \in Seq(Doing) /\ Fresh /\ Begun /\ TickLast(todo) /\ FirstReadShape
      /\ Rest = Tail(todo)
  BY DEF ActorInv, ActorTypeOK, Shape, Rest
<1>3. ~Lacks(todo, FirstRead)
  BY <1>1, <1>2, PopFacts
<1>4. dispatcher /\ dial # "Dialing"
  BY <1>2, <1>3 DEF Fresh, Begun
<1>5. signals = <<>> /\ Silent(history) /\ FirstLast(todo)
  BY <1>2, <1>3 DEF FirstReadShape
<1>6. Head(todo)[1] # "Message" /\ Head(todo) \notin Asked
  BY <1>1, Tags
<1>7. OnlyTicks(Rest) /\ TickLast(Rest)
  BY <1>1, <1>2, <1>5, <1>6, PopFacts
<1>8. Silent(Rest) /\ Lacks(Rest, Established) /\ Lacks(Rest, FirstRead)
  BY <1>7, TicksFacts
<1>9. signals' = <<ProcessRead>>
  BY <1>1, <1>5
<1> QED BY <1>1, <1>4, <1>5, <1>6, <1>7, <1>8, <1>9, PushProcessRead

LEMMA EndOfTickStep ==
  ASSUME ActorInv, SocketTypeOK, conn = "Given", conn' = conn, OnEndOfTick
  PROVE  Flow' /\ Fresh' /\ Begun' /\ Shape'
<1>1. CASE ~(connection = "Connected" /\ stream)
  BY <1>1, EndOfTickPops
<1>2. CASE connection = "Connected" /\ stream
  <2>1. /\ todo # <<>> /\ Head(todo) = EndOfTick /\ Running
        /\ todo' = <<ProcessRead>> \o Rest
        /\ UNCHANGED <<script, extracted, taken, history, task, dial, handshake, stream,
                       connection, written, dispatcher, queued, signals>>
    BY <1>2 DEF OnEndOfTick, Calls, socketVars, lifeVars, outVars
  <2>2. /\ todo \in Seq(Doing) /\ Begun /\ TickLast(todo) /\ SignalShape /\ Rest = Tail(todo)
    BY DEF ActorInv, ActorTypeOK, Shape, Rest
  <2>3. Rest = <<>>
    BY <2>1, <2>2, PopFacts
  <2>4. Head(todo)[1] # "Message" /\ todo # <<Established>>
    BY <2>1, <2>2, Tags, Pop
  <2>5. dispatcher /\ dial # "Dialing"
    BY <1>2, <2>1, <2>2, <2>4 DEF Begun, Running
  <2>6. signals \in {<<>>, <<ProcessRead>>} /\ (signals = <<ProcessRead>> => Silent(history))
    BY <2>2, <2>5 DEF SignalShape
  <2>7. Silent(Rest) /\ TickLast(Rest) /\ Lacks(Rest, Established) /\ Lacks(Rest, FirstRead)
    BY <2>3, EmptyFacts
  <2> QED BY <1>2, <2>1, <2>4, <2>5, <2>6, <2>7, PushProcessRead
<1> QED BY <1>1, <1>2

-----------------------------------------------------------------------------
(* The loop of the actor. *)

\* tick: what waits is taken out.
LEMMA TickStep ==
  ASSUME ActorInv, SocketTypeOK, conn = "Given", conn' = conn, Tick
  PROVE  Flow' /\ Fresh' /\ Begun' /\ Shape'
<1>1. /\ todo = <<>> /\ Running /\ todo' = signals \o <<EndOfTick>> /\ signals' = <<>>
      /\ UNCHANGED <<script, extracted, taken, history, task, dial, handshake, stream, connection,
                     written, dispatcher, queued>>
  BY DEF Tick, Idle, socketVars, lifeVars, outVars
<1>2. /\ Fresh /\ Begun /\ SignalShape /\ signals \in Seq(Item) /\ history \in Seq(Item)
      /\ EndOfTick \in Item /\ <<EndOfTick>> \in Seq(Item)
      /\ {Established, Failed, ProcessRead} \subseteq Item
  BY ActorFacts, Single DEF ActorInv, Shape
<1>3. /\ Silent(<<EndOfTick>>) /\ ReadsLast(<<EndOfTick>>) /\ TickLast(<<EndOfTick>>)
      /\ Lacks(<<EndOfTick>>, Established) /\ Lacks(<<EndOfTick>>, FirstRead)
      /\ Lacks(<<EndOfTick>>, ProcessRead) /\ Lacks(<<EndOfTick>>, TryRead) /\ Silent(<<>>)
  BY Tags, SingleFacts, EmptyFacts
<1>4. /\ Silent(signals) /\ ReadsLast(signals) /\ Lacks(signals, EndOfTick)
      /\ Lacks(signals, FirstRead) /\ Lacks(signals, TryRead)
      /\ signals # <<Established>> => Lacks(signals, Established)
      /\ signals # <<ProcessRead>> => Lacks(signals, ProcessRead)
  BY <1>2, Tags, SingleFacts, EmptyFacts DEF SignalShape
<1>5. /\ Silent(todo') /\ ReadsLast(todo') /\ TickLast(todo') /\ Lacks(todo', FirstRead)
      /\ Lacks(todo', TryRead)
      /\ signals # <<Established>> => Lacks(todo', Established)
      /\ signals # <<ProcessRead>> => Lacks(todo', ProcessRead)
  BY <1>1, <1>2, <1>3, <1>4, CatFacts, SilentConcat
<1>6. EstablishedShape'
  <2>1. CASE signals = <<Established>>
    <3>1. todo' # <<>> /\ Head(todo') = Established /\ Tail(todo') = <<EndOfTick>>
      BY <1>1, <1>2, <2>1, ConsTail
    <3>2. OnlyTicks(<<EndOfTick>>)
      BY DEF OnlyTicks
    <3>3. OnlyTicks(Tail(todo'))
      BY <3>1, <3>2
    <3>4. ~dispatcher' /\ signals' = <<>> /\ dial' # "Dialing"
      BY <1>1, <1>2, <2>1 DEF SignalShape
    <3> QED BY <3>1, <3>3, <3>4 DEF EstablishedShape
  <2>2. CASE signals # <<Established>>
    BY <1>5, <2>2 DEF EstablishedShape
  <2> QED BY <2>1, <2>2
<1>7. Shape'
  BY <1>1, <1>5, <1>6 DEF Shape, SignalShape, FirstReadShape, ReadShape,
                          Established, Failed, ProcessRead
<1>8. QuietSteps
  <2>1. <<>> \in Seq(Item) /\ history' = history \o <<>> /\ todo = <<>> \o <<>>
    BY <1>1, <1>2, Nothing
  <2>2. todo' \in Seq(Item) /\ todo' = todo' \o <<>>
    <3>1. signals \o <<EndOfTick>> \in Seq(Item)
      BY <1>2, ConcatProperties
    <3> QED BY <1>1, <3>1, Nothing
  <2> QED BY <1>3, <1>5, <2>1, <2>2 DEF QuietSteps
<1>9. Flow'
  BY <1>1, <1>8, QuietStep DEF ActorInv
<1>10. Fresh'
  BY <1>1, <1>2, <1>5, Tags DEF Fresh, ProcessRead
<1>11. Begun'
  <2>1. dial = "Dialing" => Lacks(todo', Established)
    <3>1. dial = "Dialing" => signals # <<Established>>
      BY <1>2, Tags DEF Begun, Established
    <3> QED BY <1>5, <3>1
  <2>2. stream => dispatcher
    BY <1>1, <1>2 DEF Begun, Running, Established
  <2> QED BY <1>1, <1>2, <2>1, <2>2 DEF Running, Begun
<1> QED BY <1>7, <1>9, <1>10, <1>11

\* on_start.
LEMMA StartStep ==
  ASSUME ActorInv, SocketTypeOK, conn = "Given", conn' = conn, OnStart
  PROVE  Flow' /\ Fresh' /\ Begun' /\ Shape'
<1>1. /\ signals = <<>> /\ todo = <<>> /\ history = <<>> /\ queued = <<>> /\ written = <<>>
      /\ ~dispatcher /\ task' = "Running" /\ dial = "None"
      /\ (stream => connection = "Connected" /\ ~handshake)
      /\ \A n \in 1 .. extracted : script[n] \notin Handled
  BY DEF ActorInv, Begun, Fresh, OnStart
<1>2. /\ todo' = <<Established>> \/ todo' = <<>>
      /\ todo' = <<Established>> => dial' = "None"
      /\ MayTell
      /\ stream' => stream /\ todo' = <<Established>> /\ connection' = connection
      /\ UNCHANGED <<script, extracted, taken, handshake, written, dispatcher, signals, queued>>
  BY <1>1 DEF OnStart, Disconnect, MayTell, socketVars, outVars
<1>3. /\ Silent(todo') /\ ReadsLast(todo') /\ TickLast(todo') /\ Lacks(todo', ProcessRead)
      /\ Lacks(todo', TryRead) /\ Lacks(todo', FirstRead)
  BY <1>2, Tags, SingleFacts, EmptyFacts
<1>4. Silent(history')
  BY <1>1, <1>2, EmptyFacts, TellFacts DEF ActorInv
<1>5. EstablishedShape'
  <2>1. CASE todo' = <<>>
    BY <2>1, EmptyFacts DEF EstablishedShape
  <2>2. CASE todo' = <<Established>>
    <3>1. /\ Established \in Item /\ <<Established>> \in Seq(Item) /\ <<>> \in Seq(Item)
      BY ActorFacts, Single DEF ActorInv
    <3>2. <<Established>> = <<Established>> \o <<>>
      BY <3>1, Nothing
    <3>3. todo' # <<>> /\ Head(todo') = Established /\ Tail(todo') = <<>>
      BY <2>2, <3>1, <3>2, ConsTail
    <3>4. OnlyTicks(Tail(todo'))
      BY <3>3 DEF OnlyTicks
    <3> QED BY <1>1, <1>2, <2>2, <3>3, <3>4 DEF EstablishedShape
  <2> QED BY <1>2, <2>1, <2>2
<1>6. Shape'
  BY <1>1, <1>2, <1>3, <1>5, Tags DEF Shape, SignalShape, FirstReadShape, ReadShape,
                                Established, Failed, ProcessRead
<1>7. Fresh'
  BY <1>1, <1>2, <1>3, <1>4 DEF Fresh, ProcessRead
<1>8. Begun'
  <2>1. dial' = "Dialing" => Lacks(todo', Established)
    BY <1>2, EmptyFacts
  <2> QED BY <1>1, <1>2, <2>1 DEF Begun
<1>9. QuietSteps
  <2>1. PICK X \in Seq(Item) : Silent(X) /\ history' = history \o X
    BY <1>2, TellFacts DEF ActorInv
  <2>2. todo' \in Seq(Item) /\ <<>> \in Seq(Item) /\ todo' = todo' \o <<>> /\ todo = <<>> \o <<>>
        /\ Silent(<<>>)
    <3>1. todo' \in Seq(Item) /\ <<>> \in Seq(Item)
      BY <1>2, ActorFacts, Single DEF ActorInv
    <3> QED BY <1>1, <3>1, Nothing, EmptyFacts
  <2> QED BY <1>3, <2>1, <2>2 DEF QuietSteps
<1>10. Flow'
  BY <1>2, <1>9, QuietStep DEF ActorInv
<1> QED BY <1>6, <1>7, <1>8, <1>10

\* A command is handled, or the loop ends.
LEMMA IdleStep ==
  ASSUME ActorInv, SocketTypeOK, conn = "Given", conn' = conn, Running, todo = <<>>, MayTell,
         UNCHANGED <<script, extracted, taken, todo, dial, handshake, dispatcher, signals>>,
         task' \in {task, "Ended"},
         stream' => (stream /\ UNCHANGED <<connection, queued, task>>),
         written' = written \/ (stream /\ \E x : written' = Append(written, x))
  PROVE  Flow' /\ Fresh' /\ Begun' /\ Shape'
<1>1. Fresh /\ Begun /\ SignalShape /\ written \in Seq(Sent) /\ history \in Seq(Item)
  BY ActorFacts DEF ActorInv, Shape, ActorTypeOK
<1>2. Silent(history) => Silent(history')
  BY TellFacts DEF ActorInv
<1>3. Fresh'
  BY <1>1, <1>2 DEF Fresh
<1>4. Begun'
  <2>1. stream' => written' # <<>> \/ ~handshake
    <3>1. ASSUME NEW x, written' = Append(written, x) PROVE written' # <<>>
      BY <1>1, <3>1
    <3> QED BY <1>1, <3>1 DEF Begun
  <2> QED BY <1>1, <2>1 DEF Begun, Running
<1>5. Shape'
  <2>1. /\ TickLast(todo') /\ Lacks(todo', Established) /\ Lacks(todo', FirstRead)
        /\ ReadsLast(todo')
    BY EmptyFacts
  <2>2. SignalShape'
    BY <1>1, <1>2 DEF SignalShape
  <2> QED BY <2>1, <2>2 DEF Shape, EstablishedShape, FirstReadShape, ReadShape
<1>6. QuietSteps
  <2>1. PICK X \in Seq(Item) : Silent(X) /\ history' = history \o X
    BY TellFacts DEF ActorInv
  <2>2. <<>> \in Seq(Item) /\ <<>> = <<>> \o <<>> /\ Silent(<<>>)
    BY <1>1, Nothing, EmptyFacts
  <2> QED BY <2>1, <2>2 DEF QuietSteps
<1>7. Flow'
  BY <1>6, QuietStep DEF ActorInv
<1> QED BY <1>3, <1>4, <1>5, <1>7

LEMMA HandleStep ==
  ASSUME ActorInv, SocketTypeOK, conn = "Given", conn' = conn, Handle
  PROVE  Flow' /\ Fresh' /\ Begun' /\ Shape'
<1>1. /\ Running /\ todo = <<>>
      /\ UNCHANGED <<script, extracted, taken, todo, dial, handshake, dispatcher, signals, task,
                     connection>>
  BY DEF Handle, Idle, socketVars, lifeVars
<1>2. CASE connection = "Connecting"
  <2>1. UNCHANGED <<stream, written, history>>
    BY <1>2 DEF Handle, outVars
  <2>2. ~stream
    BY <1>2 DEF ActorInv, Begun
  <2> QED BY <1>1, <2>1, <2>2, IdleStep DEF MayTell
<1>3. CASE connection # "Connecting"
  <2>1. Send(Head(mailbox), history) /\ queued' = queued
    BY <1>3 DEF Handle
  <2>2. /\ MayTell
        /\ UNCHANGED written \/ (stream /\ written' = Append(written, Head(mailbox)))
        /\ stream' = stream \/ stream' = FALSE
    BY <2>1, SendFacts DEF MayTell
  <2> QED BY <1>1, <2>1, <2>2, IdleStep
<1> QED BY <1>2, <1>3

LEMMA FinishStep ==
  ASSUME ActorInv, SocketTypeOK, conn = "Given", conn' = conn, Finish
  PROVE  Flow' /\ Fresh' /\ Begun' /\ Shape'
<1>1. /\ Running /\ todo = <<>> /\ MayTell /\ task' = "Ended" /\ stream' = FALSE
      /\ UNCHANGED <<script, extracted, taken, todo, dial, handshake, dispatcher, signals,
                     written>>
  BY DEF Finish, Idle, Disconnect, MayTell, socketVars, callVars
<1> QED BY <1>1, IdleStep

\* What others do: the connecting task, and the worker with the registry.
LEMMA OutsideStep ==
  ASSUME ActorInv, SocketTypeOK, conn = "Given", conn' = conn, task # "None",
         Dialed \/ RemovePeer \/ Overwritten \/ \E c \in Command : SendToPeer(c)
  PROVE  Flow' /\ Fresh' /\ Begun' /\ Shape'
<1>1. /\ Flow /\ Fresh /\ Begun /\ Shape /\ SignalShape
  BY DEF ActorInv, Shape
<1>2. UNCHANGED <<script, extracted, taken, history, todo, task, handshake, stream, connection,
                  written, dispatcher, queued>>
  BY DEF Dialed, RemovePeer, Overwritten, SendToPeer, socketVars, lifeVars, outVars, callVars
<1>3. \/ UNCHANGED <<signals, dial>>
      \/ /\ dial = "Dialing" /\ dial' = "Done"
         /\ signals' \in {Append(signals, Established), Append(signals, Failed)}
  BY DEF Dialed, RemovePeer, Overwritten, SendToPeer, socketVars, lifeVars, outVars, callVars
<1>4. Flow'
  <2>1. FlowOK(history' \o todo', extracted')
    BY <1>1, <1>2 DEF Flow
  <2> QED BY <1>2, <2>1 DEF Flow, FlowOK, Messages, Message, Handled
<1>5. (extracted = Whole(taken)) = (extracted = Whole(taken))'
  BY <1>2 DEF Whole
<1>6. CASE UNCHANGED <<signals, dial>>
  BY <1>1, <1>2, <1>4, <1>5, <1>6
     DEF Fresh, Begun, Shape, SignalShape, EstablishedShape, FirstReadShape, ReadShape
<1>7. CASE /\ dial = "Dialing" /\ dial' = "Done"
           /\ signals' \in {Append(signals, Established), Append(signals, Failed)}
  <2>1. signals = <<>> /\ ~dispatcher /\ Lacks(todo, Established)
    BY <1>1, <1>7 DEF Begun
  <2>2. signals' \in {<<Established>>, <<Failed>>} /\ signals' # <<ProcessRead>>
    BY <1>7, <2>1 DEF Established, Failed, ProcessRead
  <2>3. Fresh'
    BY <1>1, <1>2, <2>2 DEF Fresh
  <2>4. Begun'
    BY <1>1, <1>2, <1>7 DEF Begun
  <2>5. SignalShape'
    BY <1>2, <1>7, <2>1, <2>2 DEF SignalShape
  <2>6. EstablishedShape'
    BY <1>2, <2>1 DEF EstablishedShape
  <2>7. FirstReadShape'
    BY <1>1, <1>2, <2>1 DEF Fresh, FirstReadShape
  <2>8. ReadShape'
    BY <1>1, <1>2, <1>5 DEF Shape, ReadShape
  <2> QED BY <1>1, <1>2, <1>4, <2>3, <2>4, <2>5, <2>6, <2>7, <2>8 DEF Shape
<1> QED BY <1>3, <1>6, <1>7

-----------------------------------------------------------------------------
(* Every step of the actor, and of the others. *)

LEMMA ActorSteps ==
  ASSUME TransferInv, ActorInv, ActorNext, UNCHANGED <<conn, transferVars>>
  PROVE  ActorInv'
<1>1. ActorTypeOK'
  BY ActorTypes DEF ActorInv
<1>2. SocketTypeOK /\ conn' = conn
  BY DEF TransferInv
<1>3. task # "None"
  <2>1. task = "None" => dial = "None" /\ ~registered
    BY DEF TransferInv, Owner, ActorInv, Begun
  <2> QED
    BY <2>1 DEF ActorNext, Call, OnStart, Dialed, RemovePeer, Overwritten, SendToPeer, Handle,
                ReceiveStop, Shutdown, Finish, Tick, OnProcessRead, OnTryRead, OnEstablished,
                OnFirstRead, OnFailed, OnWrite, OnMessage, OnEndOfTick, Calls, Idle, Running
<1>4. conn = "Given"
  BY <1>3 DEF TransferInv, Owner
<1>5. Flow' /\ Fresh' /\ Begun' /\ Shape'
  <2>1. CASE OnStart
    BY <1>2, <1>4, <2>1, StartStep
  <2>2. CASE Dialed \/ RemovePeer \/ Overwritten \/ \E c \in Command : SendToPeer(c)
    BY <1>2, <1>3, <1>4, <2>2, OutsideStep
  <2>3. CASE Handle
    BY <1>2, <1>4, <2>3, HandleStep
  <2>4. CASE ReceiveStop \/ Shutdown
    BY <1>2, <1>4, <2>4, FinishStep DEF ReceiveStop, Shutdown
  <2>5. CASE Tick
    BY <1>2, <1>4, <2>5, TickStep
  <2>6. CASE OnProcessRead
    BY <1>2, <1>4, <2>6, ProcessReadStep
  <2>7. CASE OnTryRead
    BY <1>2, <1>4, <2>7, TryReadStep
  <2>8. CASE OnEstablished
    BY <1>2, <1>4, <2>8, EstablishedStep
  <2>9. CASE OnFirstRead
    BY <1>2, <1>4, <2>9, FirstReadStep
  <2>10. CASE OnFailed
    BY <1>2, <1>4, <2>10, FailedStep
  <2>11. CASE OnWrite
    BY <1>2, <1>4, <2>11, WriteStep
  <2>12. CASE OnMessage
    BY <1>2, <1>4, <2>12, MessageStep
  <2>13. CASE OnEndOfTick
    BY <1>2, <1>4, <2>13, EndOfTickStep
  <2> QED
    BY <2>1, <2>2, <2>3, <2>4, <2>5, <2>6, <2>7, <2>8, <2>9, <2>10, <2>11, <2>12, <2>13
       DEF ActorNext, Call
<1> QED BY <1>1, <1>5 DEF ActorInv

\* The others leave the actor; before it is there, the listener takes the first
\* message out of the reader, which is none of those that have a handler.
LEMMA FrameStep ==
  ASSUME ActorInv, UNCHANGED <<script, actorVars>>,
         UNCHANGED <<extracted, taken>> \/ task = "None",
         conn' \in {"None", "Reading"} => UNCHANGED extracted /\ conn \in {"None", "Reading"},
         conn' \in {"Reading", "Routing"} => First \notin Handled,
         extracted' \in {extracted, 1},
         extracted' # extracted => First \notin Handled /\ extracted = 0
  PROVE  ActorInv'
<1>1. /\ ActorTypeOK /\ Flow /\ Fresh /\ Begun /\ Shape /\ First' = First /\ extracted' \in {extracted, 1}
  BY DEF ActorInv, First
<1>2. UNCHANGED <<task, dial, handshake, named, mailbox, accepted, registered, stream, written,
                  history, connection, dispatcher, signals, todo, queued>>
  BY DEF actorVars, lifeVars, registryVars, outVars, callVars
<1>3. ActorTypeOK'
  BY <1>1, <1>2 DEF ActorTypeOK, Signal, Doing, Asked, Mail, Sent, Done
<1>4. Begun'
  BY <1>1, <1>2 DEF Begun
<1>5. CASE UNCHANGED <<extracted, taken>>
  <2>1. FlowOK(history' \o todo', extracted')
    BY <1>1, <1>2, <1>5 DEF Flow
  <2>2. Flow'
    BY <1>2, <2>1 DEF Flow, FlowOK, Messages, Message, Handled
  <2>3. (extracted = Whole(taken)) = (extracted = Whole(taken))'
    BY <1>5 DEF Whole
  <2>4. Fresh' /\ Shape'
    BY <1>1, <1>2, <1>5, <2>3
       DEF Fresh, Shape, SignalShape, EstablishedShape, FirstReadShape, ReadShape
  <2> QED BY <1>3, <1>4, <2>2, <2>4 DEF ActorInv
<1>6. CASE task = "None"
  <2>1. todo = <<>> /\ history = <<>> /\ signals = <<>> /\ ~dispatcher
    BY <1>1, <1>6 DEF Begun
  <2>2. \A n \in 1 .. extracted' : script[n] \notin Handled
    <3>1. CASE extracted' = extracted
      BY <1>1, <2>1, <3>1 DEF Fresh
    <3>2. CASE extracted' # extracted
      <4>1. extracted' = 1 /\ First \notin Handled
        BY <3>2
      <4> QED BY <4>1 DEF First
    <3> QED BY <3>1, <3>2
  <2>3. Fresh'
    BY <1>1, <1>2, <2>1, <2>2 DEF Fresh
  <2>4. Shape'
    BY <1>2, <2>1, EmptyFacts
       DEF Shape, SignalShape, EstablishedShape, FirstReadShape, ReadShape,
           Established, Failed, ProcessRead
  <2>5. Flow'
    <3>1. history' \o todo' = <<>>
      BY <1>2, <2>1
    <3>2. FlowOK(<<>>, extracted')
      BY <2>2 DEF FlowOK, Messages
    <3>3. FlowOK(history' \o todo', extracted')
      BY <3>1, <3>2
    <3> QED BY <3>3 DEF Flow, FlowOK, Messages, Message, Handled
  <2> QED BY <1>3, <1>4, <2>3, <2>4, <2>5 DEF ActorInv
<1> QED BY <1>5, <1>6

\* The registry makes the actor.
LEMMA RegisterStep ==
  ASSUME TransferInv, ActorInv, NEW withStream \in BOOLEAN, Register(withStream),
         UNCHANGED socketVars, conn' = "Given"
  PROVE  ActorInv'
<1>1. /\ ActorTypeOK /\ Flow /\ Fresh /\ Begun /\ Shape /\ task = "None" /\ dial = "None"
  BY DEF ActorInv, TransferInv, Owner, Register
<1>2. /\ task' = "Spawned" /\ stream' = withStream /\ handshake' = ~withStream
      /\ connection' = (IF withStream THEN "Connected" ELSE "Disconnected") /\ registered' = TRUE
      /\ UNCHANGED <<dial, named, mailbox, accepted, written, history, dispatcher, signals, todo,
                     queued, script, extracted, taken>>
  BY DEF Register, socketVars
<1>3. todo = <<>> /\ history = <<>> /\ signals = <<>> /\ ~dispatcher /\ queued = <<>>
      /\ written = <<>>
  BY <1>1 DEF Begun
<1>4. ActorTypeOK'
  BY <1>1, <1>2 DEF ActorTypeOK, Signal, Doing, Asked, Mail, Sent, Done
<1>5. Flow'
  <2>1. FlowOK(history' \o todo', extracted')
    BY <1>1, <1>2 DEF Flow
  <2> QED BY <1>2, <2>1 DEF Flow, FlowOK, Messages, Message, Handled
<1>6. Fresh' /\ Begun'
  BY <1>1, <1>2, <1>3 DEF Fresh, Begun
<1>7. Shape'
  BY <1>2, <1>3, EmptyFacts
     DEF Shape, SignalShape, EstablishedShape, FirstReadShape, ReadShape,
         Established, Failed, ProcessRead
<1> QED BY <1>4, <1>5, <1>6, <1>7 DEF ActorInv

LEMMA InitActorInv == Init => ActorInv
<1> SUFFICES ASSUME Init PROVE ActorInv
  OBVIOUS
<1>1. /\ conn = "None" /\ extracted = 0 /\ ActorInit
  BY DEF Init, SocketInit
<1>2. ActorTypeOK
  <2>1. /\ {stream, handshake, dispatcher, named, registered} \subseteq BOOLEAN
        /\ task = "None" /\ connection = "Disconnected" /\ dial = "None"
        /\ signals = <<>> /\ todo = <<>> /\ queued = <<>> /\ accepted = <<>> /\ mailbox = <<>>
        /\ written = <<>> /\ history = <<>>
    BY <1>1 DEF ActorInit
  <2> QED BY <2>1 DEF ActorTypeOK
<1>3. Fresh /\ Begun
  BY <1>1, EmptyFacts DEF ActorInit, Fresh, Begun, ProcessRead
<1>4. Shape
  BY <1>1, EmptyFacts DEF ActorInit, Shape, SignalShape, EstablishedShape, FirstReadShape,
                          ReadShape, Established, Failed, ProcessRead
<1>5. Flow
  <2>1. history \o todo = <<>>
    BY <1>1 DEF ActorInit
  <2>2. FlowOK(<<>>, 0)
    BY DEF FlowOK, Messages
  <2> QED BY <1>1, <2>1, <2>2 DEF Flow
<1> QED BY <1>2, <1>3, <1>4, <1>5 DEF ActorInv

LEMMA NextActorInv == TransferInv /\ ActorInv /\ [Next]_vars => ActorInv'
<1> SUFFICES ASSUME TransferInv, ActorInv, [Next]_vars PROVE ActorInv'
  OBVIOUS
<1>1. Begun /\ Owner
  BY DEF ActorInv, TransferInv
<1>2. CASE Listener
  <2>1. CASE Accept
    <3>1. /\ UNCHANGED <<script, extracted, taken, actorVars>> /\ conn' = "Reading"
          /\ First \notin Handled /\ conn = "None"
      BY <2>1 DEF Accept, Handled, InitItem
    <3> QED BY <3>1, FrameStep
  <2>2. CASE ReadInit
    <3>1. /\ UNCHANGED <<script, actorVars>> /\ conn = "Reading" /\ task = "None"
          /\ First \notin Handled /\ extracted = 0 /\ extracted' \in {extracted, 1}
          /\ conn' = "Routing" \/ (conn' = "Reading" /\ UNCHANGED extracted)
      BY <1>1, <2>2 DEF ReadInit, Begun, Owner
    <3> QED BY <3>1, FrameStep
  <2>3. CASE InitFails \/ Ask
    <3>1. /\ UNCHANGED <<script, extracted, taken, actorVars>>
          /\ conn' \in {"Closed", "Given"}
      BY <2>3 DEF InitFails, Ask, socketVars
    <3> QED BY <3>1, FrameStep
  <2>4. CASE Route
    <3>1. CASE conn' = "Given" /\ Register(TRUE) /\ UNCHANGED socketVars
      BY <3>1, RegisterStep
    <3>2. CASE conn' \in {"Asking", "Closed"} /\ UNCHANGED <<socketVars, actorVars>>
      BY <3>2, FrameStep DEF socketVars
    <3> QED BY <2>4, <3>1, <3>2 DEF Route
  <2> QED BY <1>2, <2>1, <2>2, <2>3, <2>4 DEF Listener
<1>3. CASE Worker
  <2>1. CASE ConnectP
    BY <2>1, RegisterStep DEF ConnectP
  <2>2. CASE ConnectF \/ DownloadFromPeer
    <3>1. UNCHANGED <<script, extracted, taken, actorVars>> /\ conn' = "Given"
      BY <2>2 DEF ConnectF, DownloadFromPeer, socketVars
    <3> QED BY <3>1, FrameStep
  <2> QED BY <1>3, <2>1, <2>2 DEF Worker
<1>4. CASE ActorNext /\ UNCHANGED <<conn, transferVars>>
  BY <1>4, ActorSteps
<1>5. CASE TransferNext /\ UNCHANGED <<conn, actorVars>>
  <2>1. phase # "None" /\ script' = script
    BY <1>5, WorkOwner
  <2>2. conn = "Given" /\ task = "None"
    BY <1>1, <2>1 DEF Owner
  <2>3. extracted' = extracted
    BY <1>5 DEF TransferNext, Work, EstablishConnection, ReadToken, Resolve, OpenOutput,
                ReadChunk, ReadEnd, ReadTimeout, ReadError, AskAgain, Cancel, socketVars
  <2> QED BY <1>5, <2>1, <2>2, <2>3, FrameStep
<1>6. CASE Peer /\ UNCHANGED <<conn, actorVars, transferVars>>
  <2>1. UNCHANGED <<script, extracted, taken>>
    BY <1>6 DEF Peer, PeerSends, PeerCloses
  <2> QED BY <1>1, <1>6, <2>1, FrameStep DEF Begun
<1>7. CASE UNCHANGED vars
  BY <1>1, <1>7, FrameStep DEF vars, socketVars, Begun
<1> QED BY <1>2, <1>3, <1>4, <1>5, <1>6, <1>7 DEF Next

-----------------------------------------------------------------------------
(* The order of the commands. *)

\* q was given a before b.
Precedes(q, a, b) == \E k, l \in DOMAIN q : k < l /\ q[k] = a /\ q[l] = b

\* The commands of s were given before those of t; those of s in their order.
Before(q, s, t) == \A i \in Commands(s), j \in Commands(t) : Precedes(q, s[i], t[j])

InOrder(q, s) ==
  /\ \A i \in Commands(s) : \E k \in DOMAIN q : q[k] = s[i]
  /\ \A i, j \in Commands(s) : i < j => Precedes(q, s[i], s[j])

NoCommands(s) == \A i \in DOMAIN s : s[i][1] # "Write"

LEMMA NoCommandsFacts ==
  ASSUME NEW q, NEW s, NoCommands(s)
  PROVE  InOrder(q, s) /\ \A u : Before(q, s, u) /\ Before(q, u, s)
BY DEF NoCommands, InOrder, Before, Commands

LEMMA NoCommandsConcat ==
  ASSUME NEW S, NEW s \in Seq(S), NEW t \in Seq(S), NoCommands(s), NoCommands(t)
  PROVE  NoCommands(s \o t)
<1>1. \A i \in DOMAIN (s \o t) : \/ i \in DOMAIN s /\ (s \o t)[i] = s[i]
                                 \/ i - Len(s) \in DOMAIN t /\ (s \o t)[i] = t[i - Len(s)]
  BY Cat
<1> QED BY <1>1 DEF NoCommands

LEMMA NoCommandsSingle ==
  ASSUME NEW c, c[1] # "Write"
  PROVE  NoCommands(<<c>>) /\ NoCommands(<<>>)
BY DEF NoCommands

LEMMA OrderConcat ==
  ASSUME NEW S, NEW s \in Seq(S), NEW t \in Seq(S), NEW q
  PROVE  /\ InOrder(q, s) /\ InOrder(q, t) /\ Before(q, s, t) => InOrder(q, s \o t)
         /\ \A u : Before(q, s, u) /\ Before(q, t, u) => Before(q, s \o t, u)
         /\ \A u : Before(q, u, s) /\ Before(q, u, t) => Before(q, u, s \o t)
<1> DEFINE r == s \o t
           n == Len(s)
<1>1. /\ n \in Nat /\ DOMAIN s = 1 .. n /\ DOMAIN r \subseteq Int
      /\ \A i \in DOMAIN r : \/ i \in DOMAIN s /\ r[i] = s[i]
                             \/ i > n /\ i - n \in DOMAIN t /\ r[i] = t[i - n]
  BY Cat
<1> HIDE DEF r, n
<1>2. \A i \in Commands(r) : \/ i \in Commands(s) /\ r[i] = s[i]
                             \/ i > n /\ i - n \in Commands(t) /\ r[i] = t[i - n]
  BY <1>1 DEF Commands
<1>3. Commands(s) \subseteq 1 .. n /\ Commands(r) \subseteq Int
  BY <1>1 DEF Commands
<1>4. ASSUME InOrder(q, s), InOrder(q, t), Before(q, s, t) PROVE InOrder(q, r)
  <2>1. ASSUME NEW i \in Commands(r) PROVE \E k \in DOMAIN q : q[k] = r[i]
    BY <1>2, <1>4 DEF InOrder
  <2>2. ASSUME NEW i \in Commands(r), NEW j \in Commands(r), i < j
        PROVE  Precedes(q, r[i], r[j])
    <3>1. CASE j \in Commands(s) /\ r[j] = s[j]
      <4>1. i \in Commands(s) /\ r[i] = s[i]
        BY <1>1, <1>2, <1>3, <2>2, <3>1
      <4> QED BY <1>4, <2>2, <3>1, <4>1 DEF InOrder
    <3>2. CASE j > n /\ j - n \in Commands(t) /\ r[j] = t[j - n]
      <4>1. CASE i \in Commands(s) /\ r[i] = s[i]
        BY <1>4, <3>2, <4>1 DEF Before
      <4>2. CASE i > n /\ i - n \in Commands(t) /\ r[i] = t[i - n]
        <5>1. i - n < j - n
          BY <1>1, <1>3, <2>2
        <5> QED BY <1>4, <3>2, <4>2, <5>1 DEF InOrder
      <4> QED BY <1>2, <2>2, <4>1, <4>2
    <3> QED BY <1>2, <2>2, <3>1, <3>2
  <2> QED BY <2>1, <2>2 DEF InOrder
<1>5. \A u : Before(q, s, u) /\ Before(q, t, u) => Before(q, r, u)
  BY <1>2 DEF Before
<1>6. \A u : Before(q, u, s) /\ Before(q, u, t) => Before(q, u, r)
  BY <1>2 DEF Before
<1> QED BY <1>4, <1>5, <1>6 DEF r

LEMMA OrderPop ==
  ASSUME NEW S, NEW s \in Seq(S), s # <<>>, NEW q
  PROVE  /\ InOrder(q, s) => /\ InOrder(q, Tail(s)) /\ InOrder(q, <<Head(s)>>)
                             /\ Before(q, <<Head(s)>>, Tail(s))
         /\ \A u : Before(q, s, u) => Before(q, Tail(s), u) /\ Before(q, <<Head(s)>>, u)
         /\ \A u : Before(q, u, s) => Before(q, u, Tail(s)) /\ Before(q, u, <<Head(s)>>)
<1> DEFINE r == Tail(s)
           h == <<Head(s)>>
<1>1. /\ 1 \in DOMAIN s /\ Head(s) = s[1]
      /\ \A i \in DOMAIN r : i \in Int /\ i > 0 /\ i + 1 \in DOMAIN s /\ r[i] = s[i + 1]
  BY Pop
<1>2. DOMAIN h = {1} /\ h[1] = Head(s)
  OBVIOUS
<1> HIDE DEF r, h
<1>3. \A i \in Commands(r) : i \in Int /\ i > 0 /\ i + 1 \in Commands(s) /\ r[i] = s[i + 1]
  BY <1>1 DEF Commands
<1>4. \A i \in Commands(h) : i = 1 /\ 1 \in Commands(s) /\ h[i] = s[1]
  BY <1>1, <1>2 DEF Commands
<1>5. ASSUME InOrder(q, s) PROVE InOrder(q, r) /\ InOrder(q, h) /\ Before(q, h, r)
  <2>1. InOrder(q, r)
    <3>1. \A i, j \in Commands(r) : i < j => i + 1 < j + 1
      BY <1>3
    <3> QED BY <1>3, <1>5, <3>1 DEF InOrder
  <2>2. InOrder(q, h)
    BY <1>4, <1>5 DEF InOrder
  <2>3. Before(q, h, r)
    <3>1. \A j \in Commands(r) : 1 < j + 1
      BY <1>3
    <3> QED BY <1>3, <1>4, <1>5, <3>1 DEF InOrder, Before
  <2> QED BY <2>1, <2>2, <2>3
<1>6. \A u : Before(q, s, u) => Before(q, r, u) /\ Before(q, h, u)
  BY <1>3, <1>4 DEF Before
<1>7. \A u : Before(q, u, s) => Before(q, u, r) /\ Before(q, u, h)
  BY <1>3, <1>4 DEF Before
<1> QED BY <1>5, <1>6, <1>7 DEF r, h

\* A command more is given after all others.
LEMMA OrderAccept ==
  ASSUME NEW S, NEW q \in Seq(S), NEW w \in S
  PROVE  /\ \A s : InOrder(q, s) => InOrder(Append(q, w), s) /\ Before(Append(q, w), s, <<w>>)
         /\ \A s, t : Before(q, s, t) => Before(Append(q, w), s, t)
         /\ InOrder(Append(q, w), <<w>>)
<1> DEFINE p == Append(q, w)
<1>1. /\ Len(q) \in Nat /\ DOMAIN q = 1 .. Len(q) /\ DOMAIN p = 1 .. Len(q) + 1
      /\ \A i \in 1 .. Len(q) : p[i] = q[i]
      /\ p[Len(q) + 1] = w
  BY LenProperties, AppendProperties
<1> HIDE DEF p
<1>2. /\ \A k \in DOMAIN q : k \in DOMAIN p /\ p[k] = q[k] /\ k < Len(q) + 1
      /\ Len(q) + 1 \in DOMAIN p
  BY <1>1
<1>3. \A a, b : Precedes(q, a, b) => Precedes(p, a, b)
  BY <1>2 DEF Precedes
<1>4. \A k \in DOMAIN q : Precedes(p, q[k], w)
  BY <1>1, <1>2 DEF Precedes
<1>5. DOMAIN <<w>> = {1} /\ <<w>>[1] = w
  OBVIOUS
<1>6. ASSUME NEW s, InOrder(q, s) PROVE InOrder(p, s) /\ Before(p, s, <<w>>)
  <2>1. \A i \in Commands(s) : \E k \in DOMAIN q : q[k] = s[i]
    BY <1>6 DEF InOrder
  <2>2. InOrder(p, s)
    BY <1>2, <1>3, <1>6 DEF InOrder
  <2>3. \A i \in Commands(s) : Precedes(p, s[i], w)
    BY <1>4, <2>1
  <2> QED BY <1>5, <2>2, <2>3 DEF Before, Commands
<1>7. \A s, t : Before(q, s, t) => Before(p, s, t)
  BY <1>3 DEF Before
<1>8. InOrder(p, <<w>>)
  <2>1. \A i \in Commands(<<w>>) : i = 1
    BY <1>5 DEF Commands
  <2> QED BY <1>1, <1>2, <1>5, <2>1 DEF InOrder
<1> QED BY <1>6, <1>7, <1>8 DEF p

-----------------------------------------------------------------------------
(* The way of the commands: the mailbox, the queue, the calls, the stream. *)

Pipeline ==
  /\ InOrder(accepted, written) /\ InOrder(accepted, todo) /\ InOrder(accepted, queued)
  /\ InOrder(accepted, mailbox)
  /\ Before(accepted, written, todo) /\ Before(accepted, written, queued)
  /\ Before(accepted, written, mailbox) /\ Before(accepted, todo, mailbox)
  /\ Before(accepted, queued, mailbox)

PierceFirst == handshake /\ written # <<>> => written[1] = <<"PierceFireWall">>

\* Nothing but the connection keeps a command waiting.
Waiting == task \in {"None", "Spawned"} \/ (Running /\ connection = "Connecting")

Waits(end) == queued \o mailbox = accepted \o end

WaitingCommands ==
  Waiting => (registered => Waits(<<>>)) /\ (Waits(<<>>) \/ Waits(<<Stop>>) \/ Waits(<<Closed>>))

CommandInv == Pipeline /\ PierceFirst /\ WaitingCommands

LEMMA CommandTypes ==
  ASSUME ActorTypeOK
  PROVE  /\ written \in Seq(Item) /\ todo \in Seq(Item) /\ queued \in Seq(Item)
         /\ mailbox \in Seq(Item) /\ accepted \in Seq(Item) /\ signals \in Seq(Item)
         /\ \A c \in Command : Write(c) \in Item
         /\ {Stop, Closed} \subseteq Item /\ Sent \subseteq Item
         /\ {Established, Failed, ProcessRead, TryRead, FirstRead, EndOfTick} \subseteq Item
<1>1. Doing \subseteq Item /\ Sent \subseteq Item /\ Mail \subseteq Item /\ Asked \subseteq Item
      /\ Signal \subseteq Item
  BY Kinds DEF Item
<1>2. /\ \A c \in Command : Write(c) \in Item
      /\ {Stop, Closed} \subseteq Item
      /\ {Established, Failed, ProcessRead, TryRead, FirstRead, EndOfTick} \subseteq Item
  BY <1>1, Kinds
<1> QED BY <1>1, <1>2, SeqOfSubset DEF ActorTypeOK

\* Things that are no commands are written, and calls that write none are made.
QuietPipe ==
  /\ \E X \in Seq(Item) : NoCommands(X) /\ written' = written \o X
  /\ \/ todo' = todo
     \/ todo' = <<>>
     \/ todo # <<>> /\ \E X \in Seq(Item) : NoCommands(X) /\ todo' = X \o Rest
     \/ todo = <<>> /\ NoCommands(todo')
  /\ UNCHANGED <<accepted, queued>> /\ mailbox' \in {mailbox, <<>>}

LEMMA QuietPipeStep ==
  ASSUME ActorTypeOK, Pipeline, QuietPipe
  PROVE  Pipeline'
<1>1. /\ written \in Seq(Item) /\ todo \in Seq(Item)
      /\ NoCommands(<<>>)
  BY CommandTypes DEF NoCommands
<1>2. /\ InOrder(accepted, mailbox')
      /\ Before(accepted, written, mailbox') /\ Before(accepted, todo, mailbox')
      /\ Before(accepted, queued, mailbox')
  BY <1>1, NoCommandsFacts DEF QuietPipe, Pipeline
<1>3. /\ InOrder(accepted, todo') /\ Before(accepted, written, todo')
      /\ Before(accepted, todo', mailbox')
  <2>1. CASE todo' = todo
    BY <1>2, <2>1 DEF Pipeline
  <2>2. CASE NoCommands(todo')
    BY <2>2, NoCommandsFacts
  <2>3. ASSUME todo # <<>>, NEW X \in Seq(Item), NoCommands(X), todo' = X \o Rest
        PROVE  /\ InOrder(accepted, todo') /\ Before(accepted, written, todo')
               /\ Before(accepted, todo', mailbox')
    <3>1. Rest \in Seq(Item) /\ Rest = Tail(todo)
      BY <1>1, <2>3, Pop DEF Rest
    <3>2. /\ InOrder(accepted, Rest) /\ Before(accepted, written, Rest)
          /\ Before(accepted, Rest, mailbox')
      BY <1>1, <1>2, <2>3, <3>1, OrderPop DEF Pipeline
    <3> QED BY <2>3, <3>1, <3>2, NoCommandsFacts, OrderConcat
  <2> QED BY <1>1, <2>1, <2>2, <2>3 DEF QuietPipe
<1>4. PICK X \in Seq(Item) : NoCommands(X) /\ written' = written \o X
  BY DEF QuietPipe
<1>5. /\ InOrder(accepted, written') /\ Before(accepted, written', todo')
      /\ Before(accepted, written', queued) /\ Before(accepted, written', mailbox')
  BY <1>1, <1>2, <1>3, <1>4, NoCommandsFacts, OrderConcat DEF Pipeline
<1> QED BY <1>2, <1>3, <1>5 DEF Pipeline, QuietPipe

\* What the stream gets.
LEMMA WrittenFacts ==
  ASSUME ActorTypeOK, NEW out \in Item, out[1] # "Write",
         written' = written \/ written' = Append(written, out)
  PROVE  \E X \in Seq(Item) : NoCommands(X) /\ written' = written \o X
<1>1. /\ written \in Seq(Item) /\ <<>> \in Seq(Item) /\ <<out>> \in Seq(Item)
      /\ written \o <<>> = written /\ Append(written, out) = written \o <<out>>
  BY CommandTypes, Single
<1>2. NoCommands(<<out>>) /\ NoCommands(<<>>)
  BY NoCommandsSingle
<1> QED BY <1>1, <1>2

LEMMA UnwrittenFacts ==
  ASSUME ActorTypeOK, written' = written
  PROVE  \E X \in Seq(Item) : NoCommands(X) /\ written' = written \o X
BY Tags, WrittenFacts, CommandTypes DEF Stop

\* The first thing written stays the first.
LEMMA PierceStays ==
  ASSUME ActorInv, PierceFirst, UNCHANGED handshake,
         written' = written \/ (stream /\ \E x \in Item : written' = Append(written, x))
  PROVE  PierceFirst'
<1>1. written \in Seq(Item) /\ (stream /\ handshake => written # <<>>)
  BY CommandTypes DEF ActorInv, Begun
<1>2. ASSUME NEW x \in Item, stream, handshake, written' = Append(written, x)
      PROVE  written'[1] = written[1]
  <2>1. 1 \in 1 .. Len(written)
    BY <1>1, <1>2, Pop
  <2> QED BY <1>1, <1>2, <2>1, AppendProperties
<1> QED BY <1>1, <1>2 DEF PierceFirst

\* A command leaves its place for the next: the queue, or the stream, or nowhere.
LEMMA HandlePipe ==
  ASSUME ActorInv, CommandInv, Handle
  PROVE  CommandInv'
<1>1. /\ Running /\ todo = <<>> /\ mailbox # <<>> /\ Head(mailbox) \in Asked
      /\ mailbox' = Tail(mailbox)
      /\ UNCHANGED <<task, handshake, connection, todo, accepted, registered>>
      /\ ActorTypeOK /\ Pipeline /\ PierceFirst /\ WaitingCommands
  BY DEF Handle, Idle, ActorInv, CommandInv, lifeVars
<1>2. /\ written \in Seq(Item) /\ queued \in Seq(Item) /\ mailbox \in Seq(Item)
      /\ accepted \in Seq(Item) /\ Head(mailbox) \in Item /\ <<Head(mailbox)>> \in Seq(Item)
      /\ Tail(mailbox) \in Seq(Item) /\ mailbox = <<Head(mailbox)>> \o Tail(mailbox)
  BY <1>1, CommandTypes, Pop
<1> DEFINE h == <<Head(mailbox)>>
           r == Tail(mailbox)
<1>3. /\ InOrder(accepted, r) /\ InOrder(accepted, h) /\ Before(accepted, h, r)
      /\ Before(accepted, written, r) /\ Before(accepted, written, h)
      /\ Before(accepted, queued, r) /\ Before(accepted, queued, h)
      /\ Before(accepted, <<>>, r) /\ Before(accepted, h, <<>>)
  <2>1. NoCommands(<<>>)
    BY DEF NoCommands
  <2> QED BY <1>1, <1>2, <2>1, OrderPop, NoCommandsFacts DEF Pipeline
<1>4. Append(written, Head(mailbox)) = written \o h /\ Append(queued, Head(mailbox)) = queued \o h
  BY <1>2, Single
<1>5. h \in Seq(Item) /\ r \in Seq(Item) /\ mailbox' = r /\ mailbox = h \o r
  BY <1>1, <1>2
<1> HIDE DEF h, r
<1>6. CASE connection = "Connecting"
  <2>1. queued' = queued \o h /\ written' = written
    BY <1>4, <1>6 DEF Handle, outVars
  <2>2. /\ InOrder(accepted, queued') /\ Before(accepted, written, queued')
        /\ Before(accepted, queued', r)
    BY <1>1, <1>2, <1>3, <1>5, <2>1, OrderConcat DEF Pipeline
  <2>3. Pipeline'
    BY <1>1, <1>3, <1>5, <2>1, <2>2 DEF Pipeline
  <2>4. PierceFirst'
    BY <1>1, <2>1 DEF PierceFirst
  <2>5. queued' \o mailbox' = queued \o mailbox
    <3>1. (queued \o h) \o r = queued \o (h \o r)
      <4>1. queued \in Seq(Item) /\ h \in Seq(Item) /\ r \in Seq(Item)
        BY <1>2, <1>5
      <4> QED BY <4>1, ItemsAssociate
    <3> QED BY <1>5, <2>1, <3>1
  <2>6. WaitingCommands'
    BY <1>1, <1>6, <2>5 DEF WaitingCommands, Waiting, Waits, Running, Stop, Closed
  <2> QED BY <2>3, <2>4, <2>6 DEF CommandInv
<1>7. CASE connection # "Connecting"
  <2>1. Send(Head(mailbox), history) /\ queued' = queued
    BY <1>7 DEF Handle
  <2>2. UNCHANGED written \/ (stream /\ written' = Append(written, Head(mailbox)))
    BY <2>1, SendFacts
  <2>3. PierceFirst'
    BY <1>1, <1>2, <2>2, PierceStays
  <2>4. WaitingCommands'
    BY <1>1, <1>7 DEF WaitingCommands, Waiting, Running
  <2>5. CASE written' = written
    <3>1. Pipeline'
      BY <1>1, <1>3, <1>5, <2>1, <2>5 DEF Pipeline
    <3> QED BY <2>3, <2>4, <3>1 DEF CommandInv
  <2>6. CASE stream /\ written' = Append(written, Head(mailbox))
    <3>1. queued = <<>> /\ written' = written \o h
      BY <1>4, <2>6 DEF ActorInv, Begun
    <3>2. /\ InOrder(accepted, written') /\ Before(accepted, written', todo)
          /\ Before(accepted, written', queued) /\ Before(accepted, written', r)
      BY <1>1, <1>2, <1>3, <1>5, <3>1, OrderConcat DEF Pipeline
    <3>3. Pipeline'
      BY <1>1, <1>3, <1>5, <2>1, <3>2 DEF Pipeline
    <3> QED BY <2>3, <2>4, <3>3 DEF CommandInv
  <2> QED BY <2>2, <2>5, <2>6
<1> QED BY <1>6, <1>7

LEMMA WritePipe ==
  ASSUME ActorInv, CommandInv, OnWrite
  PROVE  CommandInv'
<1>1. /\ Running /\ todo # <<>> /\ todo' = Rest /\ Send(Head(todo), history)
      /\ UNCHANGED <<task, handshake, connection, accepted, registered, queued, mailbox>>
      /\ ActorTypeOK /\ Pipeline /\ PierceFirst /\ WaitingCommands
  BY DEF OnWrite, ActorInv, CommandInv, lifeVars, registryVars
<1>2. /\ written \in Seq(Item) /\ todo \in Seq(Item) /\ Head(todo) \in Item
      /\ <<Head(todo)>> \in Seq(Item) /\ Rest \in Seq(Item) /\ Rest = Tail(todo)
  BY <1>1, CommandTypes, Pop DEF Rest
<1>3. UNCHANGED written \/ (stream /\ written' = Append(written, Head(todo)))
  BY <1>1, SendFacts
<1>4. PierceFirst'
  BY <1>1, <1>2, <1>3, PierceStays
<1>5. WaitingCommands'
  BY <1>1 DEF WaitingCommands, Waiting, Running, Waits, Stop, Closed
<1> DEFINE h == <<Head(todo)>>
<1>6. /\ InOrder(accepted, Rest) /\ InOrder(accepted, h) /\ Before(accepted, h, Rest)
      /\ Before(accepted, written, Rest) /\ Before(accepted, written, h)
      /\ Before(accepted, Rest, mailbox) /\ Before(accepted, h, mailbox)
      /\ Before(accepted, h, <<>>)
  <2>1. NoCommands(<<>>)
    BY DEF NoCommands
  <2> QED BY <1>1, <1>2, <2>1, OrderPop, NoCommandsFacts DEF Pipeline
<1>7. Append(written, Head(todo)) = written \o h /\ h \in Seq(Item)
  BY <1>2, Single
<1> HIDE DEF h
<1>8. CASE written' = written
  <2>1. Pipeline'
    BY <1>1, <1>6, <1>8 DEF Pipeline
  <2> QED BY <1>4, <1>5, <2>1 DEF CommandInv
<1>9. CASE stream /\ written' = Append(written, Head(todo))
  <2>1. queued = <<>> /\ written' = written \o h
    BY <1>7, <1>9 DEF ActorInv, Begun
  <2>2. /\ InOrder(accepted, written') /\ Before(accepted, written', Rest)
        /\ Before(accepted, written', queued) /\ Before(accepted, written', mailbox)
    BY <1>1, <1>2, <1>6, <1>7, <2>1, OrderConcat DEF Pipeline
  <2>3. Pipeline'
    BY <1>1, <1>6, <2>2 DEF Pipeline
  <2> QED BY <1>4, <1>5, <2>3 DEF CommandInv
<1> QED BY <1>3, <1>8, <1>9


-----------------------------------------------------------------------------
(* The commands, in every step. *)

\* A step that neither gives, takes nor writes a command.
LEMMA QuietCommands ==
  ASSUME ActorInv, CommandInv, QuietPipe, UNCHANGED handshake,
         written' = written \/ (stream /\ \E x \in Item : written' = Append(written, x)),
         Waiting' => Waiting /\ UNCHANGED <<registered, mailbox>>
  PROVE  CommandInv'
<1>1. ActorTypeOK /\ Pipeline /\ PierceFirst /\ WaitingCommands /\ UNCHANGED <<accepted, queued>>
  BY DEF ActorInv, CommandInv, QuietPipe
<1>2. Pipeline'
  BY <1>1, QuietPipeStep
<1>3. PierceFirst'
  BY <1>1, PierceStays
<1>4. WaitingCommands'
  BY <1>1 DEF WaitingCommands, Waits, Stop, Closed
<1> QED BY <1>2, <1>3, <1>4 DEF CommandInv

\* The calls that write nothing.
UnwrittenCall ==
  /\ UNCHANGED <<task, handshake, registered, accepted, queued, mailbox, connection, written>>
  /\ Running /\ todo # <<>>
  /\ \E X \in Seq(Item) : NoCommands(X) /\ todo' = X \o Rest

LEMMA UnwrittenCallStep ==
  ASSUME ActorInv, CommandInv, UnwrittenCall
  PROVE  CommandInv'
<1>1. \E X \in Seq(Item) : NoCommands(X) /\ written' = written \o X
  BY UnwrittenFacts DEF ActorInv, UnwrittenCall
<1>2. QuietPipe
  BY <1>1 DEF QuietPipe, UnwrittenCall
<1>3. Waiting' => Waiting /\ UNCHANGED <<registered, mailbox>>
  BY DEF Waiting, Running, UnwrittenCall
<1> QED BY <1>2, <1>3, QuietCommands DEF UnwrittenCall

\* The calls a signal, or a call, leads to.
LEMMA CallFacts ==
  ASSUME ActorInv, SocketTypeOK, todo # <<>>
  PROVE  /\ Rest \in Seq(Item) /\ signals \in Seq(Item) /\ NoCommands(signals)
         /\ <<>> \in Seq(Item) /\ NoCommands(<<>>) /\ Rest = <<>> \o Rest
         /\ <<TryRead>> \in Seq(Item) /\ NoCommands(<<TryRead>>)
         /\ <<ProcessRead>> \in Seq(Item) /\ NoCommands(<<ProcessRead>>)
         /\ <<FirstRead>> \in Seq(Item) /\ NoCommands(<<FirstRead>>)
<1>1. /\ Rest \in Seq(Item) /\ signals \in Seq(Item)
      /\ {Established, Failed, ProcessRead, TryRead, FirstRead, EndOfTick} \subseteq Item
  BY ActorFacts DEF ActorInv
<1>2. /\ <<>> \in Seq(Item) /\ Rest = <<>> \o Rest
      /\ <<TryRead>> \in Seq(Item) /\ <<ProcessRead>> \in Seq(Item) /\ <<FirstRead>> \in Seq(Item)
  BY <1>1, Single, Nothing
<1>3. /\ NoCommands(<<>>) /\ NoCommands(<<TryRead>>) /\ NoCommands(<<ProcessRead>>)
      /\ NoCommands(<<FirstRead>>) /\ NoCommands(<<Established>>) /\ NoCommands(<<Failed>>)
  BY Tags, NoCommandsSingle
<1>4. NoCommands(signals)
  BY <1>3 DEF ActorInv, Shape, SignalShape
<1> QED BY <1>1, <1>2, <1>3, <1>4

LEMMA DrainedCall ==
  ASSUME ActorInv, SocketTypeOK, todo # <<>>, NEW N \in Seq(Item), OnlyMessages(N),
         NEW T \in Seq(Item), NoCommands(T), todo' = (signals \o N) \o (T \o Rest)
  PROVE  \E X \in Seq(Item) : NoCommands(X) /\ todo' = X \o Rest
<1> DEFINE U == signals \o N
           Z == U \o T
<1>1. /\ Rest \in Seq(Item) /\ signals \in Seq(Item) /\ NoCommands(signals) /\ NoCommands(N)
  BY CallFacts DEF OnlyMessages, NoCommands
<1>2. U \in Seq(Item) /\ NoCommands(U)
  BY <1>1, NoCommandsConcat, ConcatProperties
<1>3. todo' = U \o (T \o Rest)
  OBVIOUS
<1> HIDE DEF U
<1>4. Z \in Seq(Item) /\ NoCommands(Z)
  BY <1>2, NoCommandsConcat, ConcatProperties
<1>5. Z \o Rest = U \o (T \o Rest)
  BY <1>1, <1>2, ItemsAssociate
<1> HIDE DEF Z
<1> QED BY <1>3, <1>4, <1>5

LEMMA ProcessReadPipe ==
  ASSUME ActorInv, SocketTypeOK, CommandInv, OnProcessRead
  PROVE  CommandInv'
<1>1. /\ todo # <<>> /\ Head(todo) = ProcessRead /\ Running
      /\ UNCHANGED <<task, handshake, registered, accepted, queued, mailbox, connection, written>>
  BY DEF OnProcessRead, Calls, lifeVars, registryVars, outVars
<1>2. CASE taken > 2 * extracted
  <2>1. todo' = (signals \o NewSignals(taken)) \o (<<TryRead>> \o Rest)
    BY <1>2 DEF OnProcessRead, Drain
  <2>2. NewSignals(taken) \in Seq(Item) /\ OnlyMessages(NewSignals(taken))
    <3>1. taken \in Nat /\ taken <= taken /\ taken <= arrived
      BY SocketNumbers
    <3> QED BY <1>1, <3>1, ReadFacts, FoundFacts DEF ActorInv
  <2>3. <<TryRead>> \in Seq(Item) /\ NoCommands(<<TryRead>>)
    BY <1>1, CallFacts
  <2>4. \E X \in Seq(Item) : NoCommands(X) /\ todo' = X \o Rest
    BY <1>1, <2>1, <2>2, <2>3, DrainedCall
  <2> QED BY <1>1, <2>4, UnwrittenCallStep DEF UnwrittenCall
<1>3. CASE ~(taken > 2 * extracted)
  <2>1. todo' = <<TryRead>> \o Rest
    BY <1>3 DEF OnProcessRead
  <2> QED BY <1>1, <2>1, CallFacts, UnwrittenCallStep DEF UnwrittenCall
<1> QED BY <1>2, <1>3

LEMMA TryReadPipe ==
  ASSUME ActorInv, SocketTypeOK, CommandInv, OnTryRead
  PROVE  CommandInv'
<1>1. /\ todo # <<>> /\ Head(todo) = TryRead /\ Running
      /\ UNCHANGED <<task, handshake, registered, accepted, queued, mailbox, connection, written>>
  BY DEF OnTryRead, Calls, lifeVars, registryVars, outVars
<1>2. <<>> \in Seq(Item) /\ NoCommands(<<>>) /\ Rest = <<>> \o Rest
  BY <1>1, CallFacts
<1>3. CASE todo' = Rest
  BY <1>1, <1>2, <1>3, UnwrittenCallStep DEF UnwrittenCall
<1>4. ASSUME NEW N \in Seq(Item), OnlyMessages(N), todo' = (signals \o N) \o Rest
      PROVE  CommandInv'
  <2>1. todo' = (signals \o N) \o (<<>> \o Rest)
    BY <1>2, <1>4
  <2>2. \E X \in Seq(Item) : NoCommands(X) /\ todo' = X \o Rest
    BY <1>1, <1>2, <1>4, <2>1, DrainedCall
  <2> QED BY <1>1, <2>2, UnwrittenCallStep DEF UnwrittenCall
<1>5. CASE todo' = (signals \o <<>>) \o Rest
  <2>1. OnlyMessages(<<>>)
    BY DEF OnlyMessages
  <2> QED BY <1>2, <1>4, <1>5, <2>1
<1>6. ASSUME NEW n \in Readable, todo' = (signals \o NewSignals(taken + n)) \o Rest
      PROVE  CommandInv'
  <2>1. taken + n \in Nat /\ taken <= taken + n /\ taken + n <= arrived
    <3>1. taken \in Nat /\ arrived \in Nat
      BY SocketNumbers
    <3> QED BY <3>1 DEF Readable
  <2>2. NewSignals(taken + n) \in Seq(Item) /\ OnlyMessages(NewSignals(taken + n))
    BY <1>1, <2>1, ReadFacts, FoundFacts DEF ActorInv
  <2> QED BY <1>4, <1>6, <2>2
<1> QED BY <1>3, <1>5, <1>6 DEF OnTryRead, Drain

LEMMA OtherCallsPipe ==
  ASSUME ActorInv, SocketTypeOK, CommandInv, OnFirstRead \/ OnFailed \/ OnEndOfTick
  PROVE  CommandInv'
<1>1. /\ todo # <<>> /\ Running
      /\ UNCHANGED <<task, handshake, registered, accepted, queued, mailbox, connection, written>>
      /\ todo' = Rest \/ todo' = <<ProcessRead>> \o Rest
  BY DEF OnFirstRead, OnFailed, OnEndOfTick, Calls, Disconnect, lifeVars, registryVars, outVars
<1> QED BY <1>1, CallFacts, UnwrittenCallStep DEF UnwrittenCall

LEMMA MessagePipe ==
  ASSUME ActorInv, SocketTypeOK, CommandInv, OnMessage
  PROVE  CommandInv'
<1>1. /\ todo # <<>> /\ Running /\ todo' = Rest
      /\ UNCHANGED <<task, handshake, registered, accepted, queued, mailbox, connection>>
  BY DEF OnMessage, registryVars
<1>2. PICK n \in DOMAIN script :
        UNCHANGED written \/ (stream /\ written' = Append(written, <<"Answer", n>>))
  <2>1. PICK n \in DOMAIN script :
          IF script[n] \in Answered
          THEN Send(<<"Answer", n>>, Append(history, Message(n)))
          ELSE history' = Append(history, Message(n)) /\ UNCHANGED <<stream, written>>
    BY DEF OnMessage
  <2>2. CASE script[n] \in Answered
    <3>1. Send(<<"Answer", n>>, Append(history, Message(n)))
      BY <2>1, <2>2
    <3> QED BY <3>1, SendFacts
  <2>3. CASE script[n] \notin Answered
    BY <2>1, <2>3
  <2> QED BY <2>2, <2>3
<1>3. <<"Answer", n>> \in Item /\ <<"Answer", n>>[1] # "Write"
  BY Kinds DEF Item
<1>4. \E X \in Seq(Item) : NoCommands(X) /\ written' = written \o X
  BY <1>2, <1>3, WrittenFacts DEF ActorInv
<1>5. \E X \in Seq(Item) : NoCommands(X) /\ todo' = X \o Rest
  BY <1>1, CallFacts
<1>6. QuietPipe
  BY <1>1, <1>4, <1>5 DEF QuietPipe
<1>7. Waiting' => Waiting /\ UNCHANGED <<registered, mailbox>>
  BY <1>1 DEF Waiting, Running
<1> QED BY <1>1, <1>2, <1>3, <1>6, <1>7, QuietCommands

\* The queued commands are called next; the handshake is the first thing written.
LEMMA EstablishedPipe ==
  ASSUME ActorInv, SocketTypeOK, CommandInv, OnEstablished
  PROVE  CommandInv'
<1>1. /\ todo # <<>> /\ Head(todo) = Established /\ Running
      /\ connection' = "Connected"
      /\ UNCHANGED <<task, handshake, registered, accepted, mailbox>>
  BY DEF OnEstablished, Calls, lifeVars, registryVars
<1>2. ~Waiting'
  BY <1>1 DEF Waiting, Running
<1>3. WaitingCommands'
  BY <1>2 DEF WaitingCommands
<1>4. CASE todo' = Rest /\ UNCHANGED <<written, queued>>
  <2>1. /\ \E X \in Seq(Item) : NoCommands(X) /\ todo' = X \o Rest
        /\ \E X \in Seq(Item) : NoCommands(X) /\ written' = written \o X
    BY <1>1, <1>4, CallFacts, UnwrittenFacts DEF ActorInv
  <2>2. QuietPipe
    BY <1>1, <1>4, <2>1 DEF QuietPipe
  <2> QED BY <1>1, <1>2, <1>4, <2>2, QuietCommands
<1>5. CASE /\ written' = written \o (IF handshake THEN <<<<"PierceFireWall">>>> ELSE <<>>)
           /\ queued' = <<>> /\ todo' = (queued \o <<FirstRead>>) \o Rest
  <2>1. /\ Pipeline /\ PierceFirst /\ written \in Seq(Item) /\ queued \in Seq(Item)
        /\ Rest \in Seq(Item) /\ <<FirstRead>> \in Seq(Item) /\ NoCommands(<<FirstRead>>)
        /\ NoCommands(<<>>)
    BY <1>1, CallFacts, CommandTypes DEF ActorInv, CommandInv
  <2>2. OnlyTicks(Rest) /\ ~dispatcher
    <3>1. todo \in Seq(Doing) /\ Rest = Tail(todo) /\ EstablishedShape
      BY DEF ActorInv, ActorTypeOK, Shape, Rest
    <3>2. ~Lacks(todo, Established)
      BY <1>1, <3>1, PopFacts
    <3> QED BY <3>1, <3>2 DEF EstablishedShape
  <2>3. NoCommands(Rest)
    BY <2>2, Tags DEF OnlyTicks, NoCommands
  <2>4. PICK X \in Seq(Item) : NoCommands(X) /\ written' = written \o X
    <3>1. /\ <<"PierceFireWall">> \in Item /\ <<"PierceFireWall">>[1] # "Write"
      BY Kinds DEF Item
    <3>2. /\ <<<<"PierceFireWall">>>> \in Seq(Item) /\ <<>> \in Seq(Item)
          /\ NoCommands(<<<<"PierceFireWall">>>>)
      BY <3>1, Single, NoCommandsSingle
    <3> QED BY <1>5, <2>1, <3>2
  <2>5. PierceFirst'
    <3>1. CASE handshake
      <4>1. written = <<>>
        BY <2>2, <3>1 DEF ActorInv, Fresh
      <4>2. written' = <<<<"PierceFireWall">>>>
        BY <1>5, <3>1, <4>1
      <4> QED BY <4>2 DEF PierceFirst
    <3>2. CASE ~handshake
      BY <1>1, <3>2 DEF PierceFirst
    <3> QED BY <3>1, <3>2
  <2> DEFINE q == queued \o <<FirstRead>>
  <2>6. q \in Seq(Item)
    BY <2>1, ConcatProperties
  <2>7. InOrder(accepted, q) /\ Before(accepted, written, q) /\ Before(accepted, q, mailbox)
    BY <2>1, NoCommandsFacts, OrderConcat DEF Pipeline
  <2>8. todo' = q \o Rest
    BY <1>5
  <2> HIDE DEF q
  <2>9. /\ InOrder(accepted, todo') /\ Before(accepted, written, todo')
        /\ Before(accepted, todo', mailbox)
    BY <2>1, <2>3, <2>6, <2>7, <2>8, NoCommandsFacts, OrderConcat
  <2>10. /\ InOrder(accepted, written') /\ Before(accepted, written', todo')
         /\ Before(accepted, written', mailbox)
    BY <2>1, <2>4, <2>9, NoCommandsFacts, OrderConcat DEF Pipeline
  <2>11. Pipeline'
    <3>1. /\ InOrder(accepted, queued') /\ Before(accepted, written', queued')
          /\ Before(accepted, queued', mailbox)
      BY <1>5, <2>1, NoCommandsFacts
    <3> QED BY <1>1, <2>1, <2>9, <2>10, <3>1 DEF Pipeline
  <2> QED BY <1>3, <2>5, <2>11 DEF CommandInv
<1> QED BY <1>4, <1>5 DEF OnEstablished

LEMMA IdlePipe ==
  ASSUME ActorInv, SocketTypeOK, CommandInv, OnStart \/ Dialed \/ Tick \/ Finish
  PROVE  CommandInv'
<1>1. UNCHANGED <<handshake, registered, accepted, queued, written>>
  BY DEF OnStart, Dialed, Tick, Finish, Disconnect, lifeVars, registryVars, outVars, callVars
<1>2. \E X \in Seq(Item) : NoCommands(X) /\ written' = written \o X
  BY <1>1, UnwrittenFacts DEF ActorInv
<1>3. signals \in Seq(Item) /\ NoCommands(signals) /\ NoCommands(<<>>)
  <2>1. NoCommands(<<>>) /\ NoCommands(<<Established>>) /\ NoCommands(<<Failed>>)
        /\ NoCommands(<<ProcessRead>>)
    BY Tags, NoCommandsSingle
  <2> QED BY <2>1, ActorFacts DEF ActorInv, Shape, SignalShape
<1>4. CASE OnStart
  <2>1. todo = <<>> /\ task = "Spawned" /\ mailbox' = mailbox /\ todo' \in {<<>>, <<Established>>}
    BY <1>4 DEF OnStart, ActorInv, Begun, registryVars
  <2>2. NoCommands(todo')
    BY <1>3, <2>1, Tags, NoCommandsSingle
  <2> QED BY <1>1, <1>2, <2>1, <2>2, QuietCommands DEF QuietPipe, Waiting
<1>5. CASE Dialed
  <2>1. UNCHANGED <<task, connection, todo, mailbox>>
    BY <1>5 DEF Dialed, registryVars
  <2> QED BY <1>1, <1>2, <2>1, QuietCommands DEF QuietPipe, Waiting, Running
<1>6. CASE Tick
  <2>1. /\ todo = <<>> /\ todo' = signals \o <<EndOfTick>>
        /\ UNCHANGED <<task, connection, mailbox>>
    BY <1>6 DEF Tick, Idle, lifeVars, registryVars
  <2>2. EndOfTick \in Item /\ <<EndOfTick>> \in Seq(Item) /\ NoCommands(<<EndOfTick>>)
    BY Tags, ActorFacts, Single, NoCommandsSingle DEF ActorInv
  <2>3. NoCommands(todo')
    BY <1>3, <2>1, <2>2, NoCommandsConcat
  <2> QED BY <1>1, <1>2, <2>1, <2>3, QuietCommands DEF QuietPipe, Waiting, Running
<1>7. CASE Finish
  <2>1. /\ task' = "Ended" /\ mailbox' = <<>> /\ todo' = todo
    BY <1>7 DEF Finish, callVars
  <2> QED BY <1>1, <1>2, <2>1, QuietCommands DEF QuietPipe, Waiting, Running
<1> QED BY <1>4, <1>5, <1>6, <1>7

\* A command is given.
LEMMA SendPipe ==
  ASSUME ActorInv, CommandInv, NEW c \in Command, SendToPeer(c)
  PROVE  CommandInv'
<1> DEFINE w == Write(c)
           one == <<w>>
<1>1. /\ registered /\ mailbox' = Append(mailbox, w) /\ accepted' = Append(accepted, w)
      /\ UNCHANGED <<task, connection, handshake, registered, written, todo, queued>>
      /\ Pipeline /\ PierceFirst /\ WaitingCommands
  BY DEF SendToPeer, CommandInv, lifeVars, outVars, callVars
<1>2. /\ written \in Seq(Item) /\ todo \in Seq(Item) /\ queued \in Seq(Item)
      /\ mailbox \in Seq(Item) /\ accepted \in Seq(Item) /\ w \in Item
  BY CommandTypes DEF ActorInv
<1>3. /\ one \in Seq(Item) /\ Append(mailbox, w) = mailbox \o one
      /\ Append(accepted, w) = accepted \o one /\ accepted \o <<>> = accepted
  BY <1>2, Single
<1>4. /\ \A s : InOrder(accepted, s) => InOrder(accepted', s) /\ Before(accepted', s, one)
      /\ \A s, t : Before(accepted, s, t) => Before(accepted', s, t)
      /\ InOrder(accepted', one)
  BY <1>1, <1>2, OrderAccept
<1> HIDE DEF w, one
<1>5. /\ InOrder(accepted', mailbox) /\ Before(accepted', mailbox, one)
      /\ Before(accepted', written, mailbox) /\ Before(accepted', written, one)
      /\ Before(accepted', todo, mailbox) /\ Before(accepted', todo, one)
      /\ Before(accepted', queued, mailbox) /\ Before(accepted', queued, one)
  BY <1>1, <1>4 DEF Pipeline
<1>6. /\ InOrder(accepted', mailbox \o one) /\ Before(accepted', written, mailbox \o one)
      /\ Before(accepted', todo, mailbox \o one) /\ Before(accepted', queued, mailbox \o one)
  BY <1>2, <1>3, <1>4, <1>5, OrderConcat
<1>7. Pipeline'
  BY <1>1, <1>3, <1>4, <1>6 DEF Pipeline
<1>8. Waiting' => Waits(<<>>)'
  <2>1. SUFFICES ASSUME Waiting' PROVE Waits(<<>>)'
    OBVIOUS
  <2>2. queued \o mailbox = accepted
    BY <1>1, <1>3, <2>1 DEF WaitingCommands, Waiting, Waits, Running
  <2>3. (queued \o mailbox) \o one = queued \o (mailbox \o one)
    <3>1. queued \in Seq(Item) /\ mailbox \in Seq(Item) /\ one \in Seq(Item)
      BY <1>2, <1>3
    <3> QED BY <3>1, ItemsAssociate
  <2>4. queued' \o mailbox' = accepted'
    BY <1>1, <1>3, <2>2, <2>3
  <2>5. accepted' \in Seq(Item)
    BY <1>1, <1>2, AppendProperties
  <2>6. accepted' \o <<>> = accepted'
    BY <2>5, Nothing
  <2> QED BY <2>4, <2>6 DEF Waits
<1>9. WaitingCommands'
  BY <1>8 DEF WaitingCommands
<1>10. PierceFirst'
  BY <1>1 DEF PierceFirst
<1> QED BY <1>7, <1>9, <1>10 DEF CommandInv

\* The registry lets go of the actor.
LEMMA ClosingPipe ==
  ASSUME ActorInv, CommandInv, RemovePeer \/ Overwritten
  PROVE  CommandInv'
<1>1. PICK e \in {Stop, Closed} : mailbox' = Append(mailbox, e)
  BY DEF RemovePeer, Overwritten
<1>2. /\ registered /\ ~registered'
      /\ UNCHANGED <<task, connection, handshake, written, todo, queued, accepted>>
      /\ Pipeline /\ PierceFirst /\ WaitingCommands
  BY DEF RemovePeer, Overwritten, CommandInv, lifeVars, outVars, callVars
<1>3. /\ queued \in Seq(Item) /\ mailbox \in Seq(Item) /\ accepted \in Seq(Item) /\ e \in Item
      /\ e[1] # "Write"
  BY CommandTypes, Tags DEF ActorInv
<1> DEFINE one == <<e>>
<1>4. /\ one \in Seq(Item) /\ Append(mailbox, e) = mailbox \o one /\ NoCommands(one)
      /\ accepted \o <<>> = accepted
  BY <1>3, Single, NoCommandsSingle
<1>5. one \in {<<Stop>>, <<Closed>>}
  OBVIOUS
<1> HIDE DEF one
<1>6. /\ InOrder(accepted, mailbox') /\ Before(accepted, written, mailbox')
      /\ Before(accepted, todo, mailbox') /\ Before(accepted, queued, mailbox')
  BY <1>1, <1>2, <1>3, <1>4, NoCommandsFacts, OrderConcat DEF Pipeline
<1>7. Pipeline'
  BY <1>2, <1>6 DEF Pipeline
<1>8. ASSUME Waiting' PROVE Waits(one)'
  <2>1. queued \o mailbox = accepted
    BY <1>2, <1>4, <1>8 DEF WaitingCommands, Waiting, Waits, Running
  <2>2. (queued \o mailbox) \o one = queued \o (mailbox \o one)
    <3>1. queued \in Seq(Item) /\ mailbox \in Seq(Item) /\ one \in Seq(Item)
      BY <1>3, <1>4
    <3> QED BY <3>1, ItemsAssociate
  <2> QED BY <1>1, <1>2, <1>4, <2>1, <2>2 DEF Waits
<1>9. WaitingCommands'
  BY <1>2, <1>5, <1>8 DEF WaitingCommands, Stop, Closed
<1>10. PierceFirst'
  BY <1>2 DEF PierceFirst
<1> QED BY <1>7, <1>9, <1>10 DEF CommandInv

\* Steps of the others, and the making of the actor.
LEMMA CommandFrame ==
  ASSUME ActorInv, CommandInv, NEW withStream,
         UNCHANGED actorVars \/ Register(withStream)
  PROVE  CommandInv'
<1>1. CASE UNCHANGED actorVars
  BY <1>1 DEF CommandInv, Pipeline, PierceFirst, WaitingCommands, Waiting, Waits, Running,
              actorVars, lifeVars, registryVars, outVars, callVars, Stop, Closed
<1>2. CASE Register(withStream)
  <2>1. /\ task = "None" /\ UNCHANGED <<mailbox, accepted, written, todo, queued>>
    BY <1>2 DEF Register
  <2>2. mailbox = <<>> /\ accepted = <<>> /\ written = <<>> /\ queued = <<>>
    BY <2>1 DEF ActorInv, Begun
  <2>3. Waits(<<>>)'
    BY <2>1, <2>2 DEF Waits
  <2> QED BY <2>1, <2>2, <2>3 DEF CommandInv, Pipeline, PierceFirst, WaitingCommands
<1> QED BY <1>1, <1>2

LEMMA InitCommandInv == Init => CommandInv
<1> SUFFICES ASSUME Init PROVE CommandInv
  OBVIOUS
<1>1. /\ written = <<>> /\ todo = <<>> /\ queued = <<>> /\ mailbox = <<>> /\ accepted = <<>>
  BY DEF Init, ActorInit
<1>2. NoCommands(<<>>)
  BY DEF NoCommands
<1>3. Pipeline
  BY <1>1, <1>2, NoCommandsFacts DEF Pipeline
<1>4. PierceFirst /\ WaitingCommands
  BY <1>1 DEF PierceFirst, WaitingCommands, Waits
<1> QED BY <1>3, <1>4 DEF CommandInv

LEMMA NextCommandInv == TransferInv /\ ActorInv /\ CommandInv /\ [Next]_vars => CommandInv'
<1> SUFFICES ASSUME TransferInv, ActorInv, CommandInv, [Next]_vars PROVE CommandInv'
  OBVIOUS
<1>1. SocketTypeOK
  BY DEF TransferInv
<1>2. CASE UNCHANGED actorVars
  BY <1>2, CommandFrame
<1>3. CASE Route \/ ConnectP
  <2>1. UNCHANGED actorVars \/ Register(TRUE) \/ Register(FALSE)
    BY <1>3 DEF Route, ConnectP
  <2> QED BY <2>1, CommandFrame
<1>4. CASE ActorNext
  <2>1. CASE OnStart \/ Dialed \/ ReceiveStop \/ Shutdown \/ Tick
    BY <1>1, <2>1, IdlePipe DEF ReceiveStop, Shutdown
  <2>2. CASE RemovePeer \/ Overwritten
    BY <2>2, ClosingPipe
  <2>3. CASE \E c \in Command : SendToPeer(c)
    BY <2>3, SendPipe
  <2>4. CASE Handle
    BY <2>4, HandlePipe
  <2>5. CASE OnWrite
    BY <2>5, WritePipe
  <2>6. CASE OnMessage
    BY <1>1, <2>6, MessagePipe
  <2>7. CASE OnEstablished
    BY <1>1, <2>7, EstablishedPipe
  <2>8. CASE OnProcessRead
    BY <1>1, <2>8, ProcessReadPipe
  <2>9. CASE OnTryRead
    BY <1>1, <2>9, TryReadPipe
  <2>10. CASE OnFirstRead \/ OnFailed \/ OnEndOfTick
    BY <1>1, <2>10, OtherCallsPipe
  <2> QED
    BY <1>4, <2>1, <2>2, <2>3, <2>4, <2>5, <2>6, <2>7, <2>8, <2>9, <2>10 DEF ActorNext, Call
<1> QED
  BY <1>2, <1>3, <1>4 DEF Next, Listener, Worker, Accept, ReadInit, InitFails, Ask, ConnectF,
                          DownloadFromPeer, vars

-----------------------------------------------------------------------------
(* The types of a transfer.  Its clocks stand still until the file is read. *)

Early == phase \in {"None", "Connecting", "Piercing", "Resolving", "Opening"}

TransferTypes == TransferTypeOK /\ (Early => quiet = 0 /\ stale = 0)

LEMMA EndsTypes ==
  ASSUME TransferTypes, known \in Downloads \cup {"Nobody"},
         NEW res \in {"Completed", "Failed", "TimedOut", "Cancelled"}, Ends(res)
  PROVE  /\ phase' \in {"Asking", "Reported"} /\ ~Early'
         /\ told' \in Downloads \cup {"Nobody"}
         /\ result' \in {"None", "Completed", "Failed", "TimedOut", "Cancelled"}
BY DEF Ends, Reported, TransferTypes, TransferTypeOK, Early

LEMMA LaterFacts ==
  ASSUME NEW most \in Nat, NEW t \in 0 .. most
  PROVE  Later(t, most) \in 0 .. most
BY DEF Later

LEMMA ReadingTypes ==
  ASSUME TransferInv, TransferTypes, ReadChunk
  PROVE  TransferTypes'
<1>1. /\ TransferTypeOK /\ limit \in Nat /\ Stall \in Nat /\ UpdateEvery \in Nat \ {0}
      /\ known \in Downloads \cup {"Nobody"} /\ 0 \in 0 .. limit /\ 0 \in 0 .. Stall
  BY TimeoutAssumption, UpdateAssumption DEF TransferTypes, TransferTypeOK
<1>2. /\ phase = "Reading"
      /\ UNCHANGED <<pierced, initiating, cancelled, given, known, limit>>
  BY DEF ReadChunk, Reading, runVars
<1>3. PICK n \in Readable :
       \/ /\ file' = file + n
          /\ chunks' = (chunks + 1) % UpdateEvery
          /\ quiet' = 0
          /\ after' = IF cancelled THEN after + 1 ELSE after
          /\ IF FlagSeen THEN Ends("Cancelled") /\ UNCHANGED stale
             ELSE /\ IF chunks' = 0 THEN stale' = 0
                     ELSE stale' \in {stale, Later(stale, limit)}
                  /\ IF Enough(n) THEN Ends("Completed") \/ Ends("Failed")
                     ELSE UNCHANGED <<phase, result, told>>
       \/ Ends("Failed") /\ UNCHANGED loopVars
  BY DEF ReadChunk
<1>4. n \in Nat
  <2>1. taken \in Nat /\ arrived \in Nat
    BY SocketNumbers DEF TransferInv, SocketTypeOK
  <2> QED BY <2>1 DEF Readable
<1>5. /\ phase' \in {"Reading", "Asking", "Reported"} /\ ~Early'
      /\ told' \in Downloads \cup {"Nobody"}
      /\ result' \in {"None", "Completed", "Failed", "TimedOut", "Cancelled"}
  <2>1. CASE UNCHANGED <<phase, result, told>>
    BY <1>1, <1>2, <2>1 DEF TransferTypeOK, Early
  <2>2. CASE Ends("Failed")
    BY <1>1, <2>2, EndsTypes
  <2>3. CASE Ends("Completed")
    BY <1>1, <2>3, EndsTypes
  <2>4. CASE Ends("Cancelled")
    BY <1>1, <2>4, EndsTypes
  <2> QED BY <1>3, <2>1, <2>2, <2>3, <2>4
<1>6. CASE UNCHANGED loopVars
  BY <1>1, <1>2, <1>5, <1>6 DEF TransferTypes, TransferTypeOK, loopVars
<1>7. CASE /\ file' = file + n /\ chunks' = (chunks + 1) % UpdateEvery /\ quiet' = 0
           /\ after' = IF cancelled THEN after + 1 ELSE after
           /\ stale' \in {stale, 0, Later(stale, limit)}
  <2>1. chunks' \in 0 .. UpdateEvery - 1
    <3>1. chunks + 1 \in Nat
      BY <1>1 DEF TransferTypeOK
    <3> QED BY <1>1, <1>7, <3>1
  <2>2. stale' \in 0 .. limit'
    <3>1. stale \in 0 .. limit
      BY <1>1 DEF TransferTypeOK
    <3> QED BY <1>1, <1>2, <1>7, <3>1, LaterFacts
  <2>3. file' \in Int /\ file' >= -1 /\ after' \in Nat
    BY <1>1, <1>4, <1>7 DEF TransferTypeOK
  <2> QED BY <1>1, <1>2, <1>5, <1>7, <2>1, <2>2, <2>3 DEF TransferTypes, TransferTypeOK
<1> QED BY <1>3, <1>6, <1>7

\* The way to the file's first byte, and the end.
LEMMA WayTypes ==
  ASSUME TransferInv, TransferTypes,
         EstablishConnection \/ ReadToken \/ Resolve \/ OpenOutput \/ AskAgain \/ Cancel
  PROVE  TransferTypes'
<1>1. /\ TransferTypeOK /\ known \in Downloads \cup {"Nobody"} /\ Stages
      /\ ProgressTimeouts \subseteq Nat /\ limit \in Nat
  BY TimeoutAssumption DEF TransferTypes, TransferTypeOK, TransferInv
<1>2. UNCHANGED <<pierced, initiating, given, chunks, quiet, stale, after>>
  BY DEF EstablishConnection, ReadToken, Resolve, OpenOutput, AskAgain, Cancel, runVars, loopVars
<1>3. /\ known' \in Downloads \cup {"Nobody"} /\ cancelled' \in BOOLEAN
      /\ limit' \in ProgressTimeouts \cup {0}
      /\ limit' = limit \/ Early
  BY <1>1 DEF EstablishConnection, ReadToken, Resolve, OpenOutput, AskAgain, Cancel, runVars,
              loopVars, Downloads, TransferTypeOK, Early
<1>4. stale' \in 0 .. limit'
  BY <1>1, <1>2, <1>3 DEF TransferTypes, TransferTypeOK
<1>5. file' \in Int /\ file' >= -1
  <2>1. CASE file' = file
    BY <1>1, <2>1 DEF TransferTypeOK
  <2>2. CASE OpenOutput /\ file' = (IF pierced THEN taken - 2 ELSE 0)
    <3>1. pierced => taken >= 2
      <4>1. script \in Scripts /\ taken >= Header /\ (pierced => First = "Token")
        BY <1>1, <2>2 DEF OpenOutput, Stages, TransferInv, SocketTypeOK
      <4> QED BY <4>1, HeaderFacts
    <3>2. taken \in Nat
      BY SocketNumbers DEF TransferInv
    <3> QED BY <2>2, <3>1, <3>2
  <2> QED BY <2>1, <2>2 DEF EstablishConnection, ReadToken, Resolve, OpenOutput, AskAgain, Cancel,
                            loopVars
<1>6. /\ \/ phase' \in {"Piercing", "Resolving", "Opening", "Reading"}
            /\ Early /\ UNCHANGED <<result, told>>
         \/ phase' \in {"Asking", "Reported"}
         \/ UNCHANGED <<phase, result, told>>
      /\ told' \in Downloads \cup {"Nobody"}
      /\ result' \in {"None", "Completed", "Failed", "TimedOut", "Cancelled"}
  <2>1. CASE Ends("Failed")
    BY <1>1, <2>1, EndsTypes
  <2>2. CASE Cancel
    BY <1>1, <2>2 DEF Cancel, TransferTypeOK
  <2>3. CASE AskAgain
    BY <1>1, <2>3 DEF AskAgain, TransferTypeOK, Reported
  <2>4. CASE Resolve
    BY <1>1, <2>4 DEF Resolve, TransferTypeOK, Early
  <2>5. CASE (EstablishConnection \/ ReadToken \/ OpenOutput) /\ ~Ends("Failed")
    <3>1. Early /\ UNCHANGED <<result, told>>
          /\ phase' \in {"Piercing", "Resolving", "Opening", "Reading"}
      BY <2>5 DEF EstablishConnection, ReadToken, OpenOutput, Early
    <3> QED BY <1>1, <3>1 DEF TransferTypeOK
  <2> QED BY <2>1, <2>2, <2>3, <2>4, <2>5
<1> QED BY <1>1, <1>2, <1>3, <1>4, <1>5, <1>6 DEF TransferTypes, TransferTypeOK, Early

LEMMA WaitTypes ==
  ASSUME TransferInv, TransferTypes, ReadEnd \/ ReadTimeout \/ ReadError
  PROVE  TransferTypes'
<1>1. /\ TransferTypeOK /\ known \in Downloads \cup {"Nobody"} /\ limit \in Nat /\ Stall \in Nat
      /\ quiet \in 0 .. Stall /\ stale \in 0 .. limit
  BY TimeoutAssumption DEF TransferTypes, TransferTypeOK
<1>2. /\ UNCHANGED <<pierced, initiating, given, cancelled, known, limit, file, chunks, after>>
      /\ phase = "Reading"
      /\ quiet' \in {quiet, Later(quiet, Stall)} /\ stale' \in {stale, Later(stale, limit)}
  BY DEF ReadEnd, ReadTimeout, ReadError, Reading, runVars, loopVars
<1>3. quiet' \in 0 .. Stall /\ stale' \in 0 .. limit
  BY <1>1, <1>2, LaterFacts
<1>4. /\ phase' \in {"Reading", "Asking", "Reported"} /\ ~Early'
      /\ told' \in Downloads \cup {"Nobody"}
      /\ result' \in {"None", "Completed", "Failed", "TimedOut", "Cancelled"}
  <2>1. ASSUME NEW res \in {"Completed", "Failed", "TimedOut", "Cancelled"}, Ends(res)
        PROVE  /\ phase' \in {"Asking", "Reported"} /\ ~Early'
               /\ told' \in Downloads \cup {"Nobody"}
               /\ result' \in {"None", "Completed", "Failed", "TimedOut", "Cancelled"}
    BY <1>1, <2>1, EndsTypes
  <2>2. CASE UNCHANGED <<phase, result, told>>
    BY <1>1, <1>2, <2>2 DEF TransferTypeOK, Early
  <2>3. \/ Ends("Completed") \/ Ends("Failed") \/ Ends("TimedOut") \/ Ends("Cancelled")
        \/ UNCHANGED <<phase, result, told>>
    BY DEF ReadEnd, ReadTimeout, ReadError
  <2> QED BY <2>1, <2>2, <2>3
<1> QED BY <1>1, <1>2, <1>3, <1>4 DEF TransferTypes, TransferTypeOK

LEMMA SpawnTypes ==
  ASSUME TransferInv, TransferTypes, NEW withStream \in BOOLEAN, SpawnDirect(withStream) \/ SpawnPierced
  PROVE  TransferTypes'
<1>1. /\ TransferTypeOK /\ quiet = 0 /\ stale = 0 /\ ProgressTimeouts \subseteq Nat
      /\ Stall \in Nat
  BY TimeoutAssumption DEF TransferTypes, Early, SpawnDirect, SpawnPierced
<1>2. CASE SpawnDirect(withStream)
  <2>1. taken \in Nat
    BY SocketNumbers DEF TransferInv
  <2> QED
    BY <1>1, <1>2, <2>1 DEF SpawnDirect, TransferTypes, TransferTypeOK, Early, Downloads
<1>3. CASE SpawnPierced
  BY <1>1, <1>3 DEF SpawnPierced, loopVars, TransferTypes, TransferTypeOK, Early, Downloads
<1> QED BY <1>2, <1>3

LEMMA InitTypes == Init => TransferTypes
<1> SUFFICES ASSUME Init PROVE TransferTypes
  OBVIOUS
<1>1. /\ 0 \in 0 .. UpdateEvery - 1 /\ 0 \in 0 .. Stall /\ 0 \in 0 .. 0
      /\ -1 \in Int /\ -1 >= -1
  BY TimeoutAssumption, UpdateAssumption
<1>2. TransferInit
  BY DEF Init
<1>3. /\ phase = "None" /\ pierced \in BOOLEAN /\ cancelled \in BOOLEAN
      /\ limit = 0 /\ initiating = "Nobody" /\ known = "Nobody" /\ told = "Nobody"
      /\ given = 0 /\ file = -1 /\ chunks = 0 /\ quiet = 0 /\ stale = 0 /\ after = 0 /\ result = "None"
  BY <1>2 DEF TransferInit
<1> QED BY <1>1, <1>3 DEF TransferTypes, TransferTypeOK, Early

LEMMA NextTypes == TransferInv /\ TransferTypes /\ [Next]_vars => TransferTypes'
<1> SUFFICES ASSUME TransferInv, TransferTypes, [Next]_vars PROVE TransferTypes'
  OBVIOUS
<1>1. CASE UNCHANGED transferVars
  BY <1>1 DEF TransferTypes, TransferTypeOK, Early, transferVars
<1>2. CASE Ask \/ ConnectF \/ DownloadFromPeer
  <2>1. SpawnDirect(TRUE) \/ SpawnDirect(FALSE) \/ SpawnPierced \/ UNCHANGED transferVars
    BY <1>2 DEF Ask, ConnectF, DownloadFromPeer
  <2> QED BY <1>1, <2>1, SpawnTypes
<1>3. CASE TransferNext
  BY <1>3, ReadingTypes, WayTypes, WaitTypes DEF TransferNext, Work
<1> QED
  BY <1>1, <1>2, <1>3 DEF Next, Listener, Worker, Accept, ReadInit, InitFails, Route, ConnectP, vars

-----------------------------------------------------------------------------
(* What holds in every reachable state. *)

Place == conn \in {"None", "Reading", "Routing", "Asking", "Closed", "Given"}

LEMMA NextPlace == Place /\ [Next]_vars => Place'
BY DEF Place, Next, Listener, Worker, Accept, ReadInit, InitFails, Route, Ask, ConnectP,
       ConnectF, DownloadFromPeer, vars

ConnectionInv == Place /\ TransferInv /\ TransferTypes /\ ActorInv /\ CommandInv

\* The inductive invariant of a connection.
THEOREM ConnectionInvariant == Spec => []ConnectionInv
<1>1. Init => ConnectionInv
  BY InitTransferInv, InitTypes, InitActorInv, InitCommandInv DEF ConnectionInv, Init, Place
<1>2. ConnectionInv /\ [Next]_vars => ConnectionInv'
  BY NextTransferInv, NextTypes, NextActorInv, NextCommandInv, NextPlace
     DEF ConnectionInv
<1> QED BY <1>1, <1>2, PTL DEF Spec

\* The state of the listener, the socket, the actor and the transfer keeps its types.
THEOREM TypesKept == Spec => []TypeOK
<1>1. ConnectionInv => TypeOK
  BY DEF ConnectionInv, Place, TransferInv, SocketTypeOK, TransferTypes, ActorInv, TypeOK
<1> QED BY <1>1, ConnectionInvariant, PTL

\* Every message taken out of the reader that has a handler is handled once: the
\* nested reads of drain_signals neither lose nor repeat one.
THEOREM MessagesHandledOnce == Spec => []HandledOnce
<1>1. ASSUME ConnectionInv PROVE HandledOnce
  <2>1. /\ SocketTypeOK /\ ActorTypeOK /\ Flow /\ SignalShape
    BY <1>1 DEF ConnectionInv, TransferInv, ActorInv, Shape
  <2>2. /\ history \in Seq(Item) /\ todo \in Seq(Item) /\ signals \in Seq(Item)
        /\ extracted \in Nat
    BY <2>1, ActorFacts
  <2> DEFINE A == history \o todo
  <2>3. A \in Seq(Item) /\ <<>> \in Seq(Item) /\ A \o <<>> = A /\ signals \o <<>> = signals
        /\ <<>> \o <<>> = <<>>
    <3>1. A \in Seq(Item)
      BY <2>2, ConcatProperties
    <3> QED BY <2>2, <3>1, Nothing
  <2>4. FlowOK(A, extracted)
    BY <2>1 DEF Flow
  <2>5. Silent(signals) /\ Silent(<<>>)
    BY <2>1, Tags, SingleFacts, EmptyFacts DEF SignalShape
  <2> HIDE DEF A
  <2>6. FlowOK(A \o (signals \o <<>>), extracted)
    <3>1. FlowOK(A \o (<<>> \o <<>>), extracted)
      BY <2>3, <2>4
    <3> QED BY <2>2, <2>3, <2>5, <3>1, QuietSplice
  <2>7. FlowOK(A \o signals, extracted)
    BY <2>3, <2>6
  <2> QED BY <2>7 DEF FlowOK, HandledOnce, A
<1> QED BY <1>1, ConnectionInvariant, PTL

\* Messages are handled in the peer's order, but for those of the first read, which
\* the ProcessRead sent before it overtakes.
THEOREM MessagesInOrder == Spec => []OvertakenOnlyAtStart
<1>1. ASSUME ConnectionInv PROVE OvertakenOnlyAtStart
  <2> DEFINE A == history \o todo
  <2>1. FlowOK(A, extracted)
    BY <1>1 DEF ConnectionInv, ActorInv, Flow
  <2> HIDE DEF A
  <2>2. extracted \in Nat /\ DOMAIN A \subseteq Int
    <3>1. SocketTypeOK /\ ActorTypeOK
      BY <1>1 DEF ConnectionInv, TransferInv, ActorInv
    <3>2. history \in Seq(Item) /\ todo \in Seq(Item) /\ extracted \in Nat
      BY <3>1, ActorFacts
    <3>3. DOMAIN A = 1 .. Len(history) + Len(todo) /\ Len(history) \in Nat /\ Len(todo) \in Nat
      BY <3>2, Cat DEF A
    <3> QED BY <3>2, <3>3
  <2>3. ASSUME NEW i \in Messages(A), NEW j \in Messages(A), i < j,
               Messages(A) \cap (i + 1 .. j - 1) = {}, A[i][2] > A[j][2],
               NEW k \in Messages(A)
        PROVE  A[j][2] <= A[k][2]
    <3>1. /\ i \in Int /\ j \in Int /\ k \in Int
          /\ A[i][2] \in Int /\ A[j][2] \in Int /\ A[k][2] \in Int
      BY <2>1, <2>2 DEF FlowOK, Messages
    <3>2. A[j][2] > A[k][2] => i < k /\ k < j
      BY <2>1, <2>3 DEF FlowOK
    <3>3. ~(i < k /\ k < j)
      BY <2>3, <3>1
    <3> QED BY <3>1, <3>2, <3>3
  <2> QED BY <2>3 DEF OvertakenOnlyAtStart, A
<1> QED BY <1>1, ConnectionInvariant, PTL

\* Commands wait for the connection, none is lost while they do; they are written
\* after the handshake, in the order they were given.
THEOREM CommandsAfterHandshake == Spec => []CommandsFollowHandshake
<1>1. ASSUME ConnectionInv PROVE CommandsFollowHandshake
  <2>1. Pipeline /\ PierceFirst /\ WaitingCommands
    BY <1>1 DEF ConnectionInv, CommandInv
  <2>2. task = "Running" /\ connection = "Connecting"
          => \E end \in {<<>>, <<Stop>>, <<Closed>>} : queued \o mailbox = accepted \o end
    BY <2>1 DEF WaitingCommands, Waiting, Waits, Running
  <2>3. \A i, j \in Commands(written) :
          i < j => \E k, l \in DOMAIN accepted :
                     k < l /\ accepted[k] = written[i] /\ accepted[l] = written[j]
    BY <2>1 DEF Pipeline, InOrder, Precedes
  <2> QED BY <2>1, <2>2, <2>3 DEF CommandsFollowHandshake, PierceFirst
<1> QED BY <1>1, ConnectionInvariant, PTL
=============================================================================
