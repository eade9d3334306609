------------------------ MODULE ReductionListProofs -------------------------
(***************************************************************************)
(* Theorems about ReductionList, for lists of any length, any number of    *)
(* nested passes and any sequence of insertions and removals in them.      *)
(***************************************************************************)
EXTENDS ReductionList, SequenceTheorems, WellFoundedInduction, TLAPS

-----------------------------------------------------------------------------
(* The inductive invariant                                                 *)

Refs == Addresses \union {Null}

\* What a list and a pass may be, whether the links make sense or not.
Lists == [head : Refs, tail : Refs, count : Int, alive : SUBSET Addresses,
          next : [Addresses -> Refs], prev : [Addresses -> Refs],
          deleteFlag : [Addresses -> Nat]]
Passes == [node : Addresses, other : Nat, flag : BOOLEAN, gone : BOOLEAN, reused : BOOLEAN]

\* The i-th of the n nodes in s, or no node.
Place(s, n, i) == IF i \in 1 .. n THEN s[i] ELSE Null

\* The links of l put its nodes in the order of s.
Ordered(l, s) ==
    /\ \A i, j \in 1 .. l.count : s[i] = s[j] => i = j
    /\ \A i \in 1 .. l.count : s[i] \in l.alive
    /\ \A n \in l.alive : \E i \in 1 .. l.count : s[i] = n
    /\ l.head = Place(s, l.count, 1) /\ l.tail = Place(s, l.count, l.count)
    /\ \A i \in 1 .. l.count : /\ l.next[s[i]] = Place(s, l.count, i + 1)
                               /\ l.prev[s[i]] = Place(s, l.count, i - 1)

Linked(l) == l.count \in Nat /\ \E s \in [1 .. l.count -> Addresses] : Ordered(l, s)

\* k is null, or the innermost of the passes below depth d that are at node n.
Lends(ps, d, n, k) ==
    \/ k = Null
    \/ /\ k \in 1 .. d - 1 /\ ps[k].node = n
       /\ \A j \in k + 1 .. d - 1 : ps[j].node # n

\* A node points to the flag of the innermost of the k passes at it, if to any, and a
\* pass remembers the one before; and who waits for news of its node has it, or will
\* get it from a pass inside, or the node still points to its flag.
ToldOf(alive, flags, ps, k) ==
    /\ \A n \in alive : Lends(ps, k + 1, n, flags[n])
    /\ \A i \in 1 .. k : Lends(ps, i, ps[i].node, ps[i].other)
    /\ \A i \in 1 .. k : \/ ps[i].flag
                         \/ \E j \in 1 .. k : ps[j].other = i
                         \/ ps[i].node \in alive /\ flags[ps[i].node] = i

Told(l, ps) == ToldOf(l.alive, l.deleteFlag, ps, Len(ps))

\* The node of a pass is gone when it is not alive, and what is alive in spite of that
\* is another node at its address.
Knows(p, alive) == /\ p.node \notin alive => p.gone
                   /\ p.gone => p.reused \/ p.node \notin alive
                   /\ p.flag => p.gone

\* Who is told has lost a node; of two passes at one address the outer one came first.
GoneOf(alive, ps, k) ==
    /\ \A i \in 1 .. k : Knows(ps[i], alive)
    /\ \A i, j \in 1 .. k : i < j /\ ps[j].node = ps[i].node /\ ps[j].gone => ps[i].gone

Gone(l, ps) == GoneOf(l.alive, ps, Len(ps))

-----------------------------------------------------------------------------
(* Single links                                                            *)

LEMMA NullIsNone == Null \notin Addresses /\ Null \in Nat /\ Addresses \subseteq Nat
BY AddressesAssumption DEF Null

\* Set changes a function where there is a node.
LEMMA SetIs ==
    ASSUME NEW f \in [Addresses -> Refs], NEW n \in Refs, NEW v \in Refs
    PROVE  Set(f, n, v) = [a \in Addresses |-> IF a = n THEN v ELSE f[a]]
<1>1. CASE n = Null
    BY <1>1, NullIsNone DEF Set
<1>2. CASE n # Null
  <2>1. Set(f, n, v) = [f EXCEPT ![n] = v]
      BY <1>2 DEF Set
  <2>. QED
      BY <2>1
<1>. QED
    BY <1>1, <1>2

Changed(f, p, q, n, v) ==
    [a \in Addresses |-> IF a = n THEN v ELSE IF a = p THEN q ELSE f[a]]

LEMMA SetTwice ==
    ASSUME NEW f \in [Addresses -> Refs], NEW p \in Refs, NEW q \in Refs,
           NEW n \in Addresses, NEW v \in Refs
    PROVE  Set(Set(f, p, q), n, v) = Changed(f, p, q, n, v)
<1>. DEFINE g == [a \in Addresses |-> IF a = p THEN q ELSE f[a]]
<1>1. g \in [Addresses -> Refs]
    OBVIOUS
<1>2. Set(f, p, q) = g
    BY SetIs
<1>3. n \in Refs
    BY DEF Refs
<1>. HIDE DEF g
<1>4. Set(g, n, v) = [a \in Addresses |-> IF a = n THEN v ELSE g[a]]
    BY <1>1, <1>3, SetIs
<1>. QED
    BY <1>2, <1>4 DEF g, Changed

\* Unlink, link by link.
LEMMA UnlinkIs ==
    ASSUME NEW l \in Lists, NEW n \in Addresses
    PROVE  \E m \in Lists :
           /\ m = Unlink(l, n)
           /\ m.alive = l.alive \ {n} /\ m.count = l.count - 1
           /\ m.deleteFlag = l.deleteFlag
           /\ m.head = IF l.head = n THEN l.next[n] ELSE l.head
           /\ m.tail = IF l.tail = n THEN l.prev[n] ELSE l.tail
           /\ \A a \in Addresses :
                 m.next[a] = IF a = n THEN Null ELSE IF a = l.prev[n] THEN l.next[n] ELSE l.next[a]
           /\ \A a \in Addresses :
                 m.prev[a] = IF a = n THEN Null ELSE IF a = l.next[n] THEN l.prev[n] ELSE l.prev[a]
<1>1. /\ l.next \in [Addresses -> Refs] /\ l.prev \in [Addresses -> Refs]
      /\ l.next[n] \in Refs /\ l.prev[n] \in Refs /\ Null \in Refs
    BY DEF Lists, Refs
<1>. DEFINE f == Changed(l.next, l.prev[n], l.next[n], n, Null)
            g == Changed(l.prev, l.next[n], l.prev[n], n, Null)
            m == [head |-> IF l.head = n THEN l.next[n] ELSE l.head,
                  tail |-> IF l.tail = n THEN l.prev[n] ELSE l.tail,
                  count |-> l.count - 1, alive |-> l.alive \ {n},
                  next |-> f, prev |-> g, deleteFlag |-> l.deleteFlag]
<1>2. Set(Set(l.next, l.prev[n], l.next[n]), n, Null) = f
    BY <1>1, SetTwice
<1>3. Set(Set(l.prev, l.next[n], l.prev[n]), n, Null) = g
    BY <1>1, SetTwice
<1>4. f \in [Addresses -> Refs] /\ g \in [Addresses -> Refs]
    BY <1>1 DEF Changed
<1>. HIDE DEF f, g
<1>5. m = Unlink(l, n)
  <2>. DEFINE h == IF l.head = n THEN l.next[n] ELSE l.head
              t == IF l.tail = n THEN l.prev[n] ELSE l.tail
              c == l.count - 1
              a == l.alive \ {n}
  <2>1. Unlink(l, n) = [l EXCEPT !.head = h, !.tail = t, !.prev = g, !.next = f,
                                 !.alive = a, !.count = c]
      BY <1>2, <1>3 DEF Unlink
  <2>2. m = [head |-> h, tail |-> t, count |-> c, alive |-> a, next |-> f, prev |-> g,
             deleteFlag |-> l.deleteFlag]
      OBVIOUS
  <2>. HIDE DEF h, t, c, a, m
  <2>. QED
      BY <2>1, <2>2 DEF Lists
<1>6. m \in Lists
    BY <1>1, <1>4 DEF Lists
<1>. QED
    BY <1>5, <1>6 DEF f, g, Changed

\* A node that is put between two others, link by link.
Coupled(l, p, n, q, m) ==
    /\ m = Couple(l, p, n, q)
    /\ m.alive = l.alive \union {n} /\ m.count = l.count + 1
    /\ m.head = l.head /\ m.tail = l.tail
    /\ \A a \in Addresses : m.deleteFlag[a] = IF a = n THEN Null ELSE l.deleteFlag[a]
    /\ \A a \in Addresses : m.next[a] = IF a = n THEN q ELSE IF a = p THEN n ELSE l.next[a]
    /\ \A a \in Addresses : m.prev[a] = IF a = n THEN p ELSE IF a = q THEN n ELSE l.prev[a]

LEMMA CoupleIs ==
    ASSUME NEW l \in Lists, NEW p \in Refs, NEW n \in Addresses, NEW q \in Refs
    PROVE  \E m \in Lists : Coupled(l, p, n, q, m)
<1>1. /\ l.next \in [Addresses -> Refs] /\ l.prev \in [Addresses -> Refs] /\ n \in Refs
      /\ l.deleteFlag \in [Addresses -> Nat]
    BY DEF Lists, Refs
<1>. DEFINE f == Changed(l.next, p, n, n, q)
            g == Changed(l.prev, q, n, n, p)
            d == [l.deleteFlag EXCEPT ![n] = Null]
            m == [head |-> l.head, tail |-> l.tail,
                  count |-> l.count + 1, alive |-> l.alive \union {n},
                  next |-> f, prev |-> g, deleteFlag |-> d]
<1>2. Set(Set(l.next, p, n), n, q) = f
    BY <1>1, SetTwice
<1>3. Set(Set(l.prev, q, n), n, p) = g
    BY <1>1, SetTwice
<1>4. f \in [Addresses -> Refs] /\ g \in [Addresses -> Refs] /\ d \in [Addresses -> Nat]
    BY <1>1, NullIsNone DEF Changed
<1>5. \A a \in Addresses : d[a] = IF a = n THEN Null ELSE l.deleteFlag[a]
    BY <1>1
<1>. HIDE DEF f, g
<1>6. m = Couple(l, p, n, q)
  <2>. DEFINE c == l.count + 1
              a == l.alive \union {n}
  <2>1. Couple(l, p, n, q) = [l EXCEPT !.next = f, !.prev = g, !.deleteFlag = d,
                                       !.alive = a, !.count = c]
      BY <1>2, <1>3 DEF Couple
  <2>2. m = [head |-> l.head, tail |-> l.tail, count |-> c, alive |-> a, next |-> f, prev |-> g,
             deleteFlag |-> d]
      OBVIOUS
  <2>. HIDE DEF c, a, d, m
  <2>. QED
      BY <2>1, <2>2 DEF Lists
<1>. HIDE DEF d
<1>7. m \in Lists
    BY <1>4 DEF Lists
<1>. QED
    BY <1>5, <1>6, <1>7 DEF f, g, Changed, Coupled

-----------------------------------------------------------------------------
(* Insertion and removal                                                   *)

\* What a node of a list that is linked may point to.
LEMMA Neighbours ==
    ASSUME NEW l \in Lists, Linked(l)
    PROVE  /\ l.head \in l.alive \union {Null} /\ l.tail \in l.alive \union {Null}
           /\ l.head = Null <=> l.count = 0
           /\ l.tail = Null <=> l.count = 0
           /\ l.alive = {} <=> l.count = 0
           /\ l.count # 0 => l.next[l.tail] = Null /\ l.prev[l.head] = Null
           /\ \A n \in l.alive : l.next[n] \in (l.alive \ {n}) \union {Null}
<1>1. PICK c \in Nat : c = l.count
    BY DEF Linked
<1>2. PICK s \in [1 .. c -> Addresses] : Ordered(l, s)
    BY <1>1 DEF Linked
<1>3. \A i \in 1 .. c : s[i] \in l.alive /\ s[i] # Null
    BY <1>1, <1>2, NullIsNone DEF Ordered
<1>4. l.head = Place(s, c, 1) /\ l.tail = Place(s, c, c)
    BY <1>1, <1>2 DEF Ordered
<1>5. l.alive = {} <=> c = 0
    BY <1>1, <1>2, <1>3 DEF Ordered
<1>6. /\ c = 0 => l.head = Null /\ l.tail = Null
      /\ c # 0 => l.head = s[1] /\ l.tail = s[c] /\ 1 \in 1 .. c /\ c \in 1 .. c
    BY <1>4 DEF Place
<1>7. ASSUME c # 0 PROVE l.next[l.tail] = Null /\ l.prev[l.head] = Null
  <2>1. l.next[s[c]] = Place(s, c, c + 1) /\ l.prev[s[1]] = Place(s, c, 0)
      BY <1>1, <1>2, <1>6, <1>7 DEF Ordered
  <2>. QED
      BY <1>6, <1>7, <2>1 DEF Place
<1>8. ASSUME NEW n \in l.alive PROVE l.next[n] \in (l.alive \ {n}) \union {Null}
  <2>1. PICK i \in 1 .. c : s[i] = n
      BY <1>1, <1>2 DEF Ordered
  <2>2. l.next[n] = Place(s, c, i + 1)
      BY <1>1, <1>2, <2>1 DEF Ordered
  <2>3. CASE i = c
      BY <2>2, <2>3 DEF Place
  <2>4. CASE i # c
    <3>1. i + 1 \in 1 .. c /\ i + 1 # i
        BY <2>4
    <3>2. s[i + 1] # n
        BY <1>1, <1>2, <2>1, <3>1 DEF Ordered
    <3>. QED
        BY <1>3, <2>2, <3>1, <3>2 DEF Place
  <2>. QED
      BY <2>3, <2>4
<1>. QED
    BY <1>1, <1>3, <1>5, <1>6, <1>7, <1>8

\* Remove takes one node out of the order and leaves the others in theirs.
LEMMA Unlinked ==
    ASSUME NEW l \in Lists, Linked(l), NEW n \in l.alive
    PROVE  /\ Unlink(l, n) \in Lists /\ Linked(Unlink(l, n))
           /\ Unlink(l, n).alive = l.alive \ {n} /\ Unlink(l, n).count = l.count - 1
           /\ Unlink(l, n).deleteFlag = l.deleteFlag
<1>1. PICK c \in Nat : c = l.count
    BY DEF Linked
<1>2. PICK s \in [1 .. c -> Addresses] : Ordered(l, s)
    BY <1>1 DEF Linked
<1>3. /\ \A i, j \in 1 .. c : s[i] = s[j] => i = j
      /\ \A i \in 1 .. c : s[i] \in l.alive /\ s[i] # Null
      /\ \A a \in l.alive : \E i \in 1 .. c : s[i] = a
      /\ l.head = Place(s, c, 1) /\ l.tail = Place(s, c, c)
      /\ \A i \in 1 .. c : l.next[s[i]] = Place(s, c, i + 1) /\ l.prev[s[i]] = Place(s, c, i - 1)
  <2>1. \A i \in 1 .. c : s[i] # Null
      BY NullIsNone
  <2>. QED
      BY <1>1, <1>2, <2>1 DEF Ordered
<1>4. n \in Addresses
    BY DEF Lists
<1>5. PICK k \in 1 .. c : s[k] = n
    BY <1>3
<1>6. PICK m \in Lists :
           /\ m = Unlink(l, n)
           /\ m.alive = l.alive \ {n} /\ m.count = l.count - 1
           /\ m.deleteFlag = l.deleteFlag
           /\ m.head = IF l.head = n THEN l.next[n] ELSE l.head
           /\ m.tail = IF l.tail = n THEN l.prev[n] ELSE l.tail
           /\ \A a \in Addresses :
                 m.next[a] = IF a = n THEN Null ELSE IF a = l.prev[n] THEN l.next[n] ELSE l.next[a]
           /\ \A a \in Addresses :
                 m.prev[a] = IF a = n THEN Null ELSE IF a = l.next[n] THEN l.prev[n] ELSE l.prev[a]
    BY <1>4, UnlinkIs
<1>. DEFINE from(i) == IF i < k THEN i ELSE i + 1
            t == [i \in 1 .. c - 1 |-> s[from(i)]]
<1>7. \A i \in 1 .. c - 1 : from(i) \in 1 .. c /\ from(i) # k
    OBVIOUS
<1>8. t \in [1 .. c - 1 -> Addresses] /\ c - 1 \in Nat
    BY <1>7
<1>9. \A i, j \in 1 .. c - 1 : t[i] = t[j] => i = j
  <2>1. \A i, j \in 1 .. c - 1 : from(i) = from(j) => i = j
      OBVIOUS
  <2>. QED
      BY <1>3, <1>7, <2>1
<1>10. \A i \in 1 .. c - 1 : t[i] \in l.alive \ {n}
    BY <1>3, <1>5, <1>7
<1>11. \A a \in l.alive \ {n} : \E i \in 1 .. c - 1 : t[i] = a
  <2>1. ASSUME NEW a \in l.alive \ {n} PROVE \E i \in 1 .. c - 1 : t[i] = a
    <3>1. PICK j \in 1 .. c : s[j] = a
        BY <1>3
    <3>2. j # k
        BY <1>5, <3>1
    <3>3. CASE j < k
        BY <3>1, <3>3
    <3>4. CASE j > k
      <4>1. j - 1 \in 1 .. c - 1 /\ from(j - 1) = j
          BY <3>4
      <4>. QED
          BY <3>1, <4>1
    <3>. QED
        BY <3>2, <3>3, <3>4
  <2>. QED
      BY <2>1
\* The i-th place of t is that of s, or the one after it.
<1>12. \A i \in 0 .. c : Place(t, c - 1, i) = IF i < k THEN Place(s, c, i) ELSE Place(s, c, i + 1)
    BY DEF Place
<1>13. l.next[n] = Place(s, c, k + 1) /\ l.prev[n] = Place(s, c, k - 1)
    BY <1>3, <1>5
<1>14. \A i, j \in 0 .. c + 1 : i \in 1 .. c /\ Place(s, c, i) = Place(s, c, j) => i = j
    BY <1>3 DEF Place
<1>. HIDE DEF t
<1>15. m.head = Place(t, c - 1, 1)
  <2>1. CASE k = 1
    <3>1. l.head = n
        BY <1>3, <1>5, <2>1 DEF Place
    <3>. QED
        BY <1>6, <1>12, <1>13, <2>1, <3>1
  <2>2. CASE k # 1
    <3>1. l.head = s[1] /\ 1 \in 1 .. c
        BY <1>3, <2>2 DEF Place
    <3>2. l.head # n
        BY <1>3, <1>5, <2>2, <3>1
    <3>. QED
        BY <1>3, <1>6, <1>12, <2>2, <3>2
  <2>. QED
      BY <2>1, <2>2
<1>16. m.tail = Place(t, c - 1, c - 1)
  <2>1. l.tail = s[c] /\ c \in 1 .. c
      BY <1>3 DEF Place
  <2>2. CASE k = c
    <3>1. l.tail = n
        BY <1>5, <2>1, <2>2
    <3>. QED
        BY <1>6, <1>12, <1>13, <2>2, <3>1
  <2>3. CASE k # c
    <3>1. l.tail # n
        BY <1>3, <1>5, <2>1, <2>3
    <3>2. c - 1 \in 0 .. c /\ ~(c - 1 < k) /\ c - 1 + 1 = c
        BY <2>3
    <3>3. Place(t, c - 1, c - 1) = Place(s, c, c)
        BY <1>12, <3>2
    <3>. QED
        BY <1>3, <1>6, <3>1, <3>3
  <2>. QED
      BY <2>2, <2>3
<1>17. ASSUME NEW i \in 1 .. c - 1
       PROVE  m.next[t[i]] = Place(t, c - 1, i + 1) /\ m.prev[t[i]] = Place(t, c - 1, i - 1)
  <2>1. t[i] = s[from(i)] /\ t[i] \in Addresses /\ t[i] # n
      BY <1>8, <1>10 DEF t
  <2>2. /\ l.next[t[i]] = Place(s, c, from(i) + 1) /\ l.prev[t[i]] = Place(s, c, from(i) - 1)
        /\ t[i] = Place(s, c, from(i))
    <3>1. t[i] = Place(s, c, from(i))
        BY <1>7, <2>1 DEF Place
    <3>. QED
        BY <1>3, <1>7, <2>1, <3>1
  <2>3. m.next[t[i]] = IF t[i] = l.prev[n] THEN l.next[n] ELSE l.next[t[i]]
      BY <1>6, <2>1
  <2>4. m.prev[t[i]] = IF t[i] = l.next[n] THEN l.prev[n] ELSE l.prev[t[i]]
      BY <1>6, <2>1
  <2>5. t[i] = l.prev[n] <=> from(i) = k - 1
      BY <1>7, <1>13, <1>14, <2>2
  <2>6. t[i] = l.next[n] <=> from(i) = k + 1
      BY <1>7, <1>13, <1>14, <2>2
  <2>7. m.next[t[i]] = Place(t, c - 1, i + 1)
    <3>1. CASE i < k - 1
        BY <1>12, <2>2, <2>3, <2>5, <3>1
    <3>2. CASE i = k - 1
        BY <1>12, <1>13, <2>3, <2>5, <3>2
    <3>3. CASE i >= k
        BY <1>12, <2>2, <2>3, <2>5, <3>3
    <3>. QED
        BY <3>1, <3>2, <3>3
  <2>8. m.prev[t[i]] = Place(t, c - 1, i - 1)
    <3>1. CASE i < k
        BY <1>12, <2>2, <2>4, <2>6, <3>1
    <3>2. CASE i = k
        BY <1>12, <1>13, <2>4, <2>6, <3>2
    <3>3. CASE i > k
        BY <1>12, <2>2, <2>4, <2>6, <3>3
    <3>. QED
        BY <3>1, <3>2, <3>3
  <2>. QED
      BY <2>7, <2>8
<1>18. m.count = c - 1
    BY <1>1, <1>6
<1>19. Ordered(m, t)
    BY <1>6, <1>9, <1>10, <1>11, <1>15, <1>16, <1>17, <1>18 DEF Ordered
<1>20. Linked(m)
    BY <1>8, <1>18, <1>19 DEF Linked
<1>. QED
    BY <1>6, <1>20

\* AddTail and AddHead put a new node at one end of the order.
LEMMA Inserted ==
    ASSUME NEW l \in Lists, Linked(l), NEW n \in Addresses, n \notin l.alive, NEW m,
           m = InsertAfter(l, l.tail, n) \/ m = InsertBefore(l, l.head, n)
    PROVE  /\ m \in Lists /\ Linked(m) /\ m.alive = l.alive \union {n}
           /\ \A a \in Addresses : m.deleteFlag[a] = IF a = n THEN Null ELSE l.deleteFlag[a]
<1>1. PICK c \in Nat : c = l.count
    BY DEF Linked
<1>2. PICK s \in [1 .. c -> Addresses] : Ordered(l, s)
    BY <1>1 DEF Linked
<1>3. /\ \A i, j \in 1 .. c : s[i] = s[j] => i = j
      /\ \A i \in 1 .. c : s[i] \in l.alive /\ s[i] # Null /\ s[i] # n
      /\ \A a \in l.alive : \E i \in 1 .. c : s[i] = a
      /\ l.head = Place(s, c, 1) /\ l.tail = Place(s, c, c)
      /\ \A i \in 1 .. c : l.next[s[i]] = Place(s, c, i + 1) /\ l.prev[s[i]] = Place(s, c, i - 1)
  <2>1. \A i \in 1 .. c : s[i] # Null
      BY NullIsNone
  <2>. QED
      BY <1>1, <1>2, <2>1 DEF Ordered
<1>4. n # Null /\ Null \in Refs /\ l.head \in Refs /\ l.tail \in Refs
    BY NullIsNone DEF Lists, Refs
<1>5. CASE c = 0
  <2>1. l.head = Null /\ l.tail = Null
      BY <1>3, <1>5 DEF Place
  <2>2. m = Alone(l, n)
      BY <2>1 DEF InsertAfter, InsertBefore
  <2>3. PICK d \in Lists : Coupled(l, Null, n, Null, d)
      BY <1>4, CoupleIs
  <2>3a. /\ d = Couple(l, Null, n, Null)
         /\ d.alive = l.alive \union {n} /\ d.count = l.count + 1
         /\ d.head = l.head /\ d.tail = l.tail
         /\ \A a \in Addresses : d.deleteFlag[a] = IF a = n THEN Null ELSE l.deleteFlag[a]
         /\ \A a \in Addresses : d.next[a] = IF a = n THEN Null ELSE IF a = Null THEN n ELSE l.next[a]
         /\ \A a \in Addresses : d.prev[a] = IF a = n THEN Null ELSE IF a = Null THEN n ELSE l.prev[a]
      BY <2>3 DEF Coupled
  <2>4. m = [d EXCEPT !.head = n, !.tail = n]
      BY <2>2, <2>3a DEF Alone
  <2>5. /\ m \in Lists /\ m.head = n /\ m.tail = n /\ m.alive = d.alive /\ m.count = d.count
        /\ m.deleteFlag = d.deleteFlag /\ m.next = d.next /\ m.prev = d.prev
      BY <2>4 DEF Lists, Refs
  <2>. DEFINE t == [i \in 1 .. 1 |-> n]
  <2>6. l.alive = {}
      BY <1>3, <1>5
  <2>7. m.count = 1 /\ m.alive = {n} /\ m.next[n] = Null /\ m.prev[n] = Null
    <3>1. m.count = 1
      <4>1. m.count = l.count + 1
          BY <2>3a, <2>5
      <4>2. l.count = 0
          BY <1>1, <1>5
      <4>. QED
          BY <4>1, <4>2
    <3>2. m.alive = {n}
        BY <2>3a, <2>5, <2>6
    <3>. QED
        BY <2>3a, <2>5, <3>1, <3>2
  <2>8. Ordered(m, t)
      BY <2>5, <2>7 DEF Ordered, Place
  <2>9. Linked(m)
      BY <2>7, <2>8 DEF Linked
  <2>. QED
      BY <2>3a, <2>5, <2>9
<1>6. CASE c # 0 /\ m = InsertAfter(l, l.tail, n)
  <2>1. l.tail = s[c] /\ c \in 1 .. c /\ l.tail # Null /\ l.tail # n /\ l.tail \in Addresses
      BY <1>3, <1>6 DEF Place
  <2>2. l.next[l.tail] = Null
      BY <1>3, <2>1 DEF Place
  <2>0. PICK p \in Refs : p = l.tail
      BY <1>4
  <2>3. PICK d \in Lists : Coupled(l, p, n, Null, d)
      BY <1>4, CoupleIs
  <2>3a. /\ d = Couple(l, p, n, Null)
         /\ d.alive = l.alive \union {n} /\ d.count = l.count + 1
         /\ d.head = l.head /\ d.tail = l.tail
         /\ \A a \in Addresses : d.deleteFlag[a] = IF a = n THEN Null ELSE l.deleteFlag[a]
         /\ \A a \in Addresses : d.next[a] = IF a = n THEN Null ELSE IF a = p THEN n ELSE l.next[a]
         /\ \A a \in Addresses : d.prev[a] = IF a = n THEN p ELSE IF a = Null THEN n ELSE l.prev[a]
      BY <2>3 DEF Coupled
  <2>4. m = [d EXCEPT !.tail = n]
      BY <1>6, <2>1, <2>0, <2>2, <2>3a DEF InsertAfter
  <2>5. /\ m \in Lists /\ m.head = l.head /\ m.tail = n /\ m.alive = d.alive /\ m.count = c + 1
        /\ m.deleteFlag = d.deleteFlag /\ m.next = d.next /\ m.prev = d.prev
      BY <1>1, <2>3a, <2>4 DEF Lists, Refs
  <2>. DEFINE t == [i \in 1 .. c + 1 |-> IF i = c + 1 THEN n ELSE s[i]]
  <2>6. t \in [1 .. c + 1 -> Addresses]
      OBVIOUS
  <2>7. \A i, j \in 1 .. c + 1 : t[i] = t[j] => i = j
      BY <1>3
  <2>8. \A i \in 1 .. c + 1 : t[i] \in l.alive \union {n}
      BY <1>3
  <2>9. \A a \in l.alive \union {n} : \E i \in 1 .. c + 1 : t[i] = a
    <3>1. c + 1 \in 1 .. c + 1 /\ t[c + 1] = n
        OBVIOUS
    <3>2. \A i \in 1 .. c : i \in 1 .. c + 1 /\ t[i] = s[i]
        OBVIOUS
    <3>. QED
        BY <1>3, <3>1, <3>2
  <2>10. /\ \A i \in 0 .. c : Place(t, c + 1, i) = Place(s, c, i)
         /\ Place(t, c + 1, c + 1) = n /\ Place(t, c + 1, c + 2) = Null
      BY DEF Place
  <2>11. /\ \A i \in 1 .. c : t[i] = s[i] /\ t[i] \in Addresses /\ t[i] # n /\ t[i] # Null
         /\ t[c + 1] = n
      BY <1>3
  <2>. HIDE DEF t
  <2>12. \A i \in 1 .. c : t[i] = l.tail <=> i = c
      BY <1>3, <2>1, <2>11
  <2>13. ASSUME NEW i \in 1 .. c + 1
         PROVE  m.next[t[i]] = Place(t, c + 1, i + 1) /\ m.prev[t[i]] = Place(t, c + 1, i - 1)
    <3>1. CASE i = c + 1
      <4>1. m.next[t[i]] = Null /\ m.prev[t[i]] = l.tail
          BY <2>0, <2>3a, <2>5, <2>11, <3>1
      <4>2. Place(t, c + 1, i + 1) = Null /\ Place(t, c + 1, i - 1) = l.tail
          BY <1>3, <2>10, <3>1
      <4>. QED
          BY <4>1, <4>2
    <3>2. CASE i = c
      <4>1. m.next[t[i]] = n /\ m.prev[t[i]] = l.prev[t[i]]
          BY <1>6, <2>0, <2>3a, <2>5, <2>11, <2>12, <3>2
      <4>2. l.prev[t[i]] = Place(s, c, i - 1)
          BY <1>3, <1>6, <2>11, <3>2
      <4>3. Place(t, c + 1, i - 1) = Place(s, c, i - 1) /\ Place(t, c + 1, i + 1) = n
          BY <1>6, <2>10, <3>2
      <4>. QED
          BY <4>1, <4>2, <4>3
    <3>3. CASE i \in 1 .. c - 1
      <4>1. m.next[t[i]] = l.next[t[i]] /\ m.prev[t[i]] = l.prev[t[i]]
          BY <2>0, <2>3a, <2>5, <2>11, <2>12, <3>3
      <4>2. l.next[t[i]] = Place(s, c, i + 1) /\ l.prev[t[i]] = Place(s, c, i - 1)
        <5>1. i \in 1 .. c /\ t[i] = s[i]
            BY <2>11, <3>3
        <5>. QED
            BY <1>3, <5>1
      <4>3. Place(t, c + 1, i - 1) = Place(s, c, i - 1) /\ Place(t, c + 1, i + 1) = Place(s, c, i + 1)
          BY <2>10, <3>3
      <4>. QED
          BY <4>1, <4>2, <4>3
    <3>. QED
        BY <3>1, <3>2, <3>3
  <2>14. m.head = Place(t, c + 1, 1) /\ m.tail = Place(t, c + 1, c + 1)
      BY <1>3, <1>6, <2>5, <2>10
  <2>15. Ordered(m, t)
    <3>1. m.count = c + 1 /\ m.alive = l.alive \union {n}
        BY <2>3a, <2>5
    <3>. QED
        BY <2>7, <2>8, <2>9, <2>13, <2>14, <3>1 DEF Ordered
  <2>16. Linked(m)
      BY <2>5, <2>6, <2>15 DEF Linked
  <2>. QED
      BY <2>3a, <2>5, <2>16
<1>7. CASE c # 0 /\ m = InsertBefore(l, l.head, n)
  <2>1. l.head = s[1] /\ 1 \in 1 .. c /\ l.head # Null /\ l.head # n /\ l.head \in Addresses
      BY <1>3, <1>7 DEF Place
  <2>2. l.prev[l.head] = Null
      BY <1>3, <2>1 DEF Place
  <2>0. PICK p \in Refs : p = l.head
      BY <1>4
  <2>3. PICK d \in Lists : Coupled(l, Null, n, p, d)
      BY <1>4, CoupleIs
  <2>3a. /\ d = Couple(l, Null, n, p)
         /\ d.alive = l.alive \union {n} /\ d.count = l.count + 1
         /\ d.head = l.head /\ d.tail = l.tail
         /\ \A a \in Addresses : d.deleteFlag[a] = IF a = n THEN Null ELSE l.deleteFlag[a]
         /\ \A a \in Addresses : d.next[a] = IF a = n THEN p ELSE IF a = Null THEN n ELSE l.next[a]
         /\ \A a \in Addresses : d.prev[a] = IF a = n THEN Null ELSE IF a = p THEN n ELSE l.prev[a]
      BY <2>3 DEF Coupled
  <2>4. m = [d EXCEPT !.head = n]
      BY <1>7, <2>1, <2>0, <2>2, <2>3a DEF InsertBefore
  <2>5. /\ m \in Lists /\ m.head = n /\ m.tail = l.tail /\ m.alive = d.alive /\ m.count = c + 1
        /\ m.deleteFlag = d.deleteFlag /\ m.next = d.next /\ m.prev = d.prev
      BY <1>1, <2>3a, <2>4 DEF Lists, Refs
  <2>. DEFINE t == [i \in 1 .. c + 1 |-> IF i = 1 THEN n ELSE s[i - 1]]
  <2>6. t \in [1 .. c + 1 -> Addresses]
      OBVIOUS
  <2>7. \A i, j \in 1 .. c + 1 : t[i] = t[j] => i = j
      BY <1>3
  <2>8. \A i \in 1 .. c + 1 : t[i] \in l.alive \union {n}
      BY <1>3
  <2>9. \A a \in l.alive \union {n} : \E i \in 1 .. c + 1 : t[i] = a
    <3>1. 1 \in 1 .. c + 1 /\ t[1] = n
        OBVIOUS
    <3>2. \A i \in 1 .. c : i + 1 \in 1 .. c + 1 /\ t[i + 1] = s[i]
        OBVIOUS
    <3>3. ASSUME NEW a \in l.alive PROVE \E i \in 1 .. c + 1 : t[i] = a
      <4>1. PICK i \in 1 .. c : s[i] = a
          BY <1>3
      <4>2. i + 1 \in 1 .. c + 1 /\ t[i + 1] = a
          BY <3>2, <4>1
      <4>. QED
          BY <4>2
    <3>. QED
        BY <3>1, <3>3
  <2>11a. t[1] = n /\ \A i \in 1 .. c : t[i + 1] = s[i]
    <3>1. \A i \in 1 .. c : i + 1 \in 1 .. c + 1 /\ i + 1 # 1 /\ i + 1 - 1 = i
        BY <1>3
    <3>2. 1 \in 1 .. c + 1
        BY <1>3
    <3>. QED
        BY <3>1, <3>2
  <2>11. /\ \A i \in 1 .. c : t[i + 1] = s[i] /\ t[i + 1] \in Addresses /\ t[i + 1] # n /\ t[i + 1] # Null
         /\ t[1] = n
      BY <1>3, <2>11a
  <2>. HIDE DEF t
  <2>10a. ASSUME NEW i \in 1 .. c + 1 PROVE Place(t, c + 1, i + 1) = Place(s, c, i)
    <3>1. CASE i = c + 1
      <4>1. i + 1 \notin 1 .. c + 1 /\ i \notin 1 .. c
          BY <1>3, <3>1
      <4>. QED
          BY <4>1 DEF Place
    <3>2. CASE i # c + 1
      <4>1. i + 1 \in 1 .. c + 1 /\ i \in 1 .. c
          BY <1>3, <3>2
      <4>. QED
          BY <2>11, <4>1 DEF Place
    <3>. QED
        BY <3>1, <3>2
  <2>10b. Place(t, c + 1, 1) = n /\ Place(t, c + 1, 0) = Null
    <3>1. 1 \in 1 .. c + 1 /\ 0 \notin 1 .. c + 1
        BY <1>3
    <3>. QED
        BY <2>11, <3>1 DEF Place
  <2>10. /\ \A i \in 1 .. c + 1 : Place(t, c + 1, i + 1) = Place(s, c, i)
         /\ Place(t, c + 1, 1) = n /\ Place(t, c + 1, 0) = Null
      BY <2>10a, <2>10b
  <2>12. \A i \in 1 .. c : t[i + 1] = l.head <=> i = 1
      BY <1>3, <2>1, <2>11
  <2>13. ASSUME NEW i \in 0 .. c
         PROVE  m.next[t[i + 1]] = Place(t, c + 1, i + 2) /\ m.prev[t[i + 1]] = Place(t, c + 1, i)
    <3>1. CASE i = 0
      <4>1. m.next[t[i + 1]] = l.head /\ m.prev[t[i + 1]] = Null
          BY <2>0, <2>3a, <2>5, <2>11, <3>1
      <4>2. Place(t, c + 1, i + 2) = l.head /\ Place(t, c + 1, i) = Null
          BY <1>3, <2>10, <3>1
      <4>. QED
          BY <4>1, <4>2
    <3>2. CASE i = 1
      <4>1. m.next[t[i + 1]] = l.next[t[i + 1]] /\ m.prev[t[i + 1]] = n
          BY <2>0, <2>1, <2>3a, <2>5, <2>11, <2>12, <3>2
      <4>2. l.next[t[i + 1]] = Place(s, c, i + 1)
          BY <1>3, <2>1, <2>11, <3>2
      <4>3. Place(t, c + 1, i + 2) = Place(s, c, i + 1) /\ Place(t, c + 1, i) = n
          BY <2>1, <2>10, <3>2
      <4>. QED
          BY <4>1, <4>2, <4>3
    <3>3. CASE i \in 2 .. c
      <4>1. m.next[t[i + 1]] = l.next[t[i + 1]] /\ m.prev[t[i + 1]] = l.prev[t[i + 1]]
        <5>1. /\ i \in 1 .. c /\ t[i + 1] \in Addresses /\ t[i + 1] # n /\ t[i + 1] # Null
              /\ t[i + 1] # l.head
          <6>1. i \in 1 .. c /\ i # 1
              BY <3>3
          <6>2. t[i + 1] # l.head
              BY <2>12, <6>1
          <6>. QED
              BY <2>11, <6>1, <6>2
        <5>. QED
            BY <2>0, <2>3a, <2>5, <5>1
      <4>2. l.next[t[i + 1]] = Place(s, c, i + 1) /\ l.prev[t[i + 1]] = Place(s, c, i - 1)
        <5>1. i \in 1 .. c /\ t[i + 1] = s[i]
            BY <2>11, <3>3
        <5>. QED
            BY <1>3, <5>1
      <4>3. Place(t, c + 1, i + 2) = Place(s, c, i + 1) /\ Place(t, c + 1, i) = Place(s, c, i - 1)
        <5>1. i + 1 \in 1 .. c + 1 /\ i - 1 \in 1 .. c + 1 /\ (i + 1) + 1 = i + 2 /\ (i - 1) + 1 = i
            BY <3>3
        <5>. QED
            BY <2>10, <5>1
      <4>. QED
          BY <4>1, <4>2, <4>3
    <3>. QED
        BY <3>1, <3>2, <3>3
  <2>14. m.head = Place(t, c + 1, 1) /\ m.tail = Place(t, c + 1, c + 1)
      BY <1>3, <1>7, <2>5, <2>10
  <2>15. \A i \in 1 .. c + 1 : m.next[t[i]] = Place(t, c + 1, i + 1) /\ m.prev[t[i]] = Place(t, c + 1, i - 1)
    <3>1. ASSUME NEW i \in 1 .. c + 1
          PROVE  m.next[t[i]] = Place(t, c + 1, i + 1) /\ m.prev[t[i]] = Place(t, c + 1, i - 1)
      <4>1. i - 1 \in 0 .. c /\ (i - 1) + 1 = i /\ (i - 1) + 2 = i + 1
          OBVIOUS
      <4>. QED
          BY <2>13, <4>1
    <3>. QED
        BY <3>1
  <2>16. Ordered(m, t)
    <3>1. m.count = c + 1 /\ m.alive = l.alive \union {n}
        BY <2>3a, <2>5
    <3>. QED
        BY <2>7, <2>8, <2>9, <2>15, <2>14, <3>1 DEF Ordered
  <2>17. Linked(m)
      BY <2>5, <2>6, <2>16 DEF Linked
  <2>. QED
      BY <2>3a, <2>5, <2>17
<1>. QED
    BY <1>5, <1>6, <1>7

-----------------------------------------------------------------------------
(* RemoveAll and Walk: what a loop of so many rounds ends with             *)

LEMMA LeastNat ==
    ASSUME NEW T \in SUBSET Nat, T # {}
    PROVE  \E m \in T : \A k \in T : m <= k
<1>1. IsWellFoundedOn(OpToRel(<, Nat), Nat)
    BY NatLessThanWellFounded
<1>2. PICK m \in T : \A k \in T : ~ (<<k, m>> \in OpToRel(<, Nat))
    BY <1>1, WFMin
<1>3. \A k \in T : ~(k < m)
    BY <1>2 DEF OpToRel
<1>. QED
    BY <1>3

\* What is true of the first and handed on from each to the next is true of all.
LEMMA HandedOn ==
    ASSUME NEW n \in Nat, NEW T \in SUBSET (0 .. n), 0 \in T,
           \A k \in 1 .. n : k - 1 \in T => k \in T
    PROVE  T = 0 .. n
<1>. DEFINE U == (0 .. n) \ T
<1>1. SUFFICES ASSUME U # {} PROVE FALSE
    OBVIOUS
<1>0. U \in SUBSET Nat
    OBVIOUS
<1>2. PICK m \in U : \A k \in U : m <= k
    BY <1>0, <1>1, LeastNat
<1>3. m \in 1 .. n /\ m - 1 \in 0 .. n /\ m - 1 \notin U
    BY <1>2
<1>. QED
    BY <1>3

\* The list after k rounds of RemoveAll: k nodes less, and still in order.
Rounds(l, f, n) ==
    /\ f \in [0 .. n -> Lists] /\ f[0] = l
    /\ \A k \in 1 .. n : f[k] = Unlink(f[k - 1], f[k - 1].head)
    /\ \A k \in 0 .. n : Linked(f[k]) /\ f[k].count = l.count - k

LEMMA RoundsExist ==
    ASSUME NEW l \in Lists, Linked(l)
    PROVE  \E f \in [0 .. l.count -> Lists] : Rounds(l, f, l.count)
<1>1. PICK c \in Nat : c = l.count
    BY DEF Linked
<1>. DEFINE T == {n \in 0 .. c : \E f \in [0 .. n -> Lists] : Rounds(l, f, n)}
<1>2. 0 \in T
  <2>. DEFINE f == [k \in 0 .. 0 |-> l]
  <2>1. Rounds(l, f, 0)
      BY <1>1 DEF Rounds
  <2>. QED
      BY <2>1
<1>3. ASSUME NEW n \in 1 .. c, n - 1 \in T PROVE n \in T
  <2>1. PICK f \in [0 .. n - 1 -> Lists] : Rounds(l, f, n - 1)
      BY <1>3
  <2>2. PICK m \in Lists : m = f[n - 1]
      BY <1>3
  <2>3. Linked(m) /\ m.count = l.count - (n - 1)
      BY <2>1, <2>2 DEF Rounds
  <2>4. m.count # 0
      BY <1>1, <2>3
  <2>5. m.head \in m.alive
      BY <2>3, <2>4, Neighbours
  <2>6. PICK u \in Lists : u = Unlink(m, m.head) /\ Linked(u) /\ u.count = m.count - 1
      BY <2>3, <2>5, Unlinked
  <2>. DEFINE g == [k \in 0 .. n |-> IF k = n THEN u ELSE f[k]]
  <2>7. g \in [0 .. n -> Lists]
      OBVIOUS
  <2>8. /\ g[n] = u /\ g[n - 1] = m
        /\ \A k \in 0 .. n - 1 : k \in 0 .. n /\ g[k] = f[k]
      BY <2>2
  <2>. HIDE DEF g
  <2>9. g[0] = l
      BY <2>1, <2>8 DEF Rounds
  <2>10. ASSUME NEW k \in 1 .. n PROVE g[k] = Unlink(g[k - 1], g[k - 1].head)
    <3>1. CASE k = n
        BY <2>6, <2>8, <3>1
    <3>2. CASE k \in 1 .. n - 1
      <4>1. f[k] = Unlink(f[k - 1], f[k - 1].head) /\ k \in 0 .. n - 1 /\ k - 1 \in 0 .. n - 1
          BY <2>1, <3>2 DEF Rounds
      <4>2. g[k] = f[k] /\ g[k - 1] = f[k - 1]
          BY <2>8, <4>1
      <4>. QED
          BY <4>1, <4>2
    <3>. QED
        BY <3>1, <3>2
  <2>11. ASSUME NEW k \in 0 .. n PROVE Linked(g[k]) /\ g[k].count = l.count - k
    <3>1. CASE k = n
      <4>1. l.count - (n - 1) - 1 = l.count - n
          BY <1>1
      <4>. QED
          BY <2>3, <2>6, <2>8, <3>1, <4>1
    <3>2. CASE k \in 0 .. n - 1
        BY <2>1, <2>8, <3>2 DEF Rounds
    <3>. QED
        BY <3>1, <3>2
  <2>12. Rounds(l, g, n)
      BY <2>7, <2>9, <2>10, <2>11 DEF Rounds
  <2>. QED
      BY <2>7, <2>12
<1>. HIDE DEF T
<1>4. T \in SUBSET (0 .. c)
    BY DEF T
<1>5. T = 0 .. c
    BY <1>2, <1>3, <1>4, HandedOn
<1>6. c \in T
    BY <1>5
<1>. QED
    BY <1>1, <1>6 DEF T

\* RemoveAll ends with a list that is empty and whose links say so.
LEMMA AllRemoved ==
    ASSUME NEW l \in Lists, Linked(l)
    PROVE  /\ RemoveHeads(l) \in Lists /\ Linked(RemoveHeads(l))
           /\ RemoveHeads(l).alive = {}
<1>1. PICK c \in Nat : c = l.count
    BY DEF Linked
<1>2. PICK f \in [0 .. c -> Lists] : Rounds(l, f, c)
    BY <1>1, RoundsExist
<1>3. PICK w : /\ RemoveHeads(l) = w[l.count]
               /\ w = CHOOSE v : v = [k \in 0 .. l.count |->
                          IF k = 0 THEN l ELSE Unlink(v[k - 1], v[k - 1].head)]
    BY DEF RemoveHeads
<1>4. f = [k \in 0 .. c |-> IF k = 0 THEN l ELSE Unlink(f[k - 1], f[k - 1].head)]
  <2>1. \A k \in 0 .. c : f[k] = IF k = 0 THEN l ELSE Unlink(f[k - 1], f[k - 1].head)
      BY <1>2 DEF Rounds
  <2>. QED
      BY <2>1
<1>5. w = [k \in 0 .. c |-> IF k = 0 THEN l ELSE Unlink(w[k - 1], w[k - 1].head)]
    BY <1>1, <1>3, <1>4
<1>6. \A k \in 0 .. c : w[k] = IF k = 0 THEN l ELSE Unlink(w[k - 1], w[k - 1].head)
    BY <1>5
<1>. DEFINE T == {k \in 0 .. c : w[k] = f[k]}
<1>7. 0 \in T
    BY <1>2, <1>6 DEF Rounds
<1>8. ASSUME NEW k \in 1 .. c, k - 1 \in T PROVE k \in T
  <2>1. w[k] = Unlink(w[k - 1], w[k - 1].head)
      BY <1>6
  <2>2. f[k] = Unlink(f[k - 1], f[k - 1].head)
      BY <1>2 DEF Rounds
  <2>. QED
      BY <1>8, <2>1, <2>2
<1>. HIDE DEF T
<1>9. T \in SUBSET (0 .. c)
    BY DEF T
<1>10. T = 0 .. c
    BY <1>7, <1>8, <1>9, HandedOn
<1>11. w[c] = f[c]
    BY <1>10 DEF T
<1>12. PICK m \in Lists : m = f[c]
    OBVIOUS
<1>13. Linked(m) /\ m.count = 0
  <2>1. c \in 0 .. c
      OBVIOUS
  <2>2. Linked(f[c]) /\ f[c].count = l.count - c
      BY <1>2, <2>1 DEF Rounds
  <2>. QED
      BY <1>1, <1>12, <2>2
<1>14. m.alive = {}
    BY <1>13, Neighbours
<1>. QED
    BY <1>1, <1>3, <1>11, <1>12, <1>13, <1>14

\* A walk over links that put nodes in an order meets them in this order.
LEMMA WalkIs ==
    ASSUME NEW c \in Nat, c = list.count, NEW s \in [1 .. c -> Addresses],
           NEW start, start = Place(s, c, 1), NEW step,
           \A i \in 1 .. c : step[s[i]] = Place(s, c, i + 1)
    PROVE  Walk(start, step) = s
<1>1. s \in Seq(Addresses) /\ Len(s) = c
    BY SeqDef
<1>. DEFINE f == [k \in 0 .. c |-> SubSeq(s, 1, k)]
<1>2. ASSUME NEW k \in 0 .. c
      PROVE  /\ f[k] \in Seq(Addresses) /\ Len(f[k]) = k
             /\ \A i \in 1 .. k : f[k][i] = s[i]
  <2>1. f[k] = SubSeq(s, 1, k)
      OBVIOUS
  <2>2. \A i \in 1 .. k : s[i] \in Addresses
      OBVIOUS
  <2>. QED
      BY <2>1, <2>2, <1>1, SubSeqProperties
<1>. HIDE DEF f
<1>3. f[0] = <<>> /\ f[c] = s
  <2>1. f[0] = <<>>
      BY <1>2, EmptySeq
  <2>2. \A i \in 1 .. c : f[c][i] = s[i]
    <3>1. c \in 0 .. c
        OBVIOUS
    <3>. QED
        BY <1>2, <3>1
  <2>3. f[c] \in Seq(Addresses) /\ Len(f[c]) = Len(s)
    <3>1. c \in 0 .. c
        OBVIOUS
    <3>. QED
        BY <1>1, <1>2, <3>1
  <2>4. f[c] = s
      BY <1>1, <2>2, <2>3, SeqEqual
  <2>. QED
      BY <2>1, <2>4
<1>4. ASSUME NEW k \in 1 .. c
      PROVE  /\ s[k] # Null /\ f[k] = Append(f[k - 1], s[k])
             /\ k # 1 => f[k - 1] # <<>> /\ step[Last(f[k - 1])] = s[k]
             /\ k = 1 => s[k] = start
  <2>1. s[k] # Null
      BY NullIsNone
  <2>2. f[k] = Append(f[k - 1], s[k])
    <3>0. k - 1 \in 0 .. c
        OBVIOUS
    <3>1. PICK x \in Seq(Addresses) : x = f[k - 1]
        BY <1>2, <3>0
    <3>2. Len(x) = k - 1 /\ \A i \in 1 .. k - 1 : x[i] = s[i]
        BY <1>2, <3>0, <3>1
    <3>3. s[k] \in Addresses
        OBVIOUS
    <3>4. PICK y \in Seq(Addresses) : y = Append(x, s[k])
        BY <3>3, AppendProperties
    <3>5. Len(y) = k /\ y[k] = s[k] /\ \A i \in 1 .. k - 1 : y[i] = x[i]
        BY <3>2, <3>3, <3>4, AppendProperties
    <3>6. PICK z \in Seq(Addresses) : z = f[k]
        BY <1>2
    <3>7. Len(z) = k /\ \A i \in 1 .. k : z[i] = s[i]
      <4>1. k \in 0 .. c
          OBVIOUS
      <4>2. Len(f[k]) = k /\ \A i \in 1 .. k : f[k][i] = s[i]
          BY <1>2, <4>1
      <4>. QED
          BY <3>6, <4>2
    <3>8. \A i \in 1 .. k : z[i] = y[i]
      <4>1. \A i \in 1 .. k : i = k \/ i \in 1 .. k - 1
          OBVIOUS
      <4>. QED
          BY <3>2, <3>5, <3>7, <4>1
    <3>9. z = y
        BY <3>5, <3>7, <3>8, SeqEqual
    <3>. QED
        BY <3>1, <3>4, <3>6, <3>9
  <2>3. ASSUME k # 1 PROVE f[k - 1] # <<>> /\ step[Last(f[k - 1])] = s[k]
    <3>1. k - 1 \in 0 .. c /\ k - 1 \in 1 .. c /\ (k - 1) + 1 = k
        BY <2>3
    <3>2. Len(f[k - 1]) = k - 1 /\ f[k - 1][k - 1] = s[k - 1]
        BY <1>2, <3>1
    <3>3. f[k - 1] # <<>>
        BY <3>1, <3>2, EmptySeq
    <3>4. Last(f[k - 1]) = s[k - 1]
        BY <3>2 DEF Last
    <3>5. step[s[k - 1]] = s[k]
        BY <3>1 DEF Place
    <3>. QED
        BY <3>3, <3>4, <3>5
  <2>4. k = 1 => s[k] = start
      BY DEF Place
  <2>. QED
      BY <2>1, <2>2, <2>3, <2>4
<1>5. PICK w : /\ Walk(start, step) = w[c]
               /\ w = CHOOSE v : v = [i \in 0 .. c |->
                       IF i = 0 THEN <<>>
                       ELSE LET from == IF i = 1 THEN start
                                        ELSE IF v[i - 1] = <<>> THEN Null ELSE step[Last(v[i - 1])]
                            IN  IF from = Null THEN v[i - 1] ELSE Append(v[i - 1], from)]
    BY DEF Walk
<1>. DEFINE round(v, i) ==
                IF i = 0 THEN <<>>
                ELSE LET from == IF i = 1 THEN start
                                 ELSE IF v[i - 1] = <<>> THEN Null ELSE step[Last(v[i - 1])]
                     IN  IF from = Null THEN v[i - 1] ELSE Append(v[i - 1], from)
<1>6. \A k \in 0 .. c : f[k] = round(f, k)
  <2>1. f[0] = round(f, 0)
      BY <1>3
  <2>2. ASSUME NEW k \in 1 .. c PROVE f[k] = round(f, k)
    <3>1. k # 0
        OBVIOUS
    <3>2. CASE k = 1
        BY <1>4, <3>1, <3>2
    <3>3. CASE k # 1
        BY <1>4, <3>1, <3>3
    <3>. QED
        BY <3>2, <3>3
  <2>. QED
      BY <2>1, <2>2
<1>7. f = [k \in 0 .. c |-> round(f, k)]
    BY <1>6 DEF f
<1>8. w = [k \in 0 .. c |-> round(w, k)]
    BY <1>5, <1>7
<1>9. \A k \in 0 .. c : w[k] = round(w, k)
    BY <1>8
<1>. DEFINE T == {k \in 0 .. c : w[k] = f[k]}
<1>10. 0 \in T
    BY <1>3, <1>9
<1>11. ASSUME NEW k \in 1 .. c, k - 1 \in T PROVE k \in T
  <2>1. w[k - 1] = f[k - 1]
      BY <1>11
  <2>2. round(w, k) = round(f, k)
      BY <2>1
  <2>3. w[k] = f[k]
      BY <1>6, <1>9, <2>2
  <2>. QED
      BY <2>3
<1>. HIDE DEF T
<1>12. T \in SUBSET (0 .. c)
    BY DEF T
<1>13. T = 0 .. c
    BY <1>10, <1>11, <1>12, HandedOn
<1>14. w[c] = f[c]
    BY <1>13 DEF T
<1>. QED
    BY <1>3, <1>5, <1>14

\* What LinksAgree asks of the walks is what the order of the nodes gives.
LEMMA LinkedAgrees ==
    ASSUME list \in Lists, Linked(list)
    PROVE  LinksAgree
<1>1. PICK c \in Nat : c = list.count
    BY DEF Linked
<1>2. PICK s \in [1 .. c -> Addresses] : Ordered(list, s)
    BY <1>1 DEF Linked
<1>3. /\ \A i, j \in 1 .. c : s[i] = s[j] => i = j
      /\ \A i \in 1 .. c : s[i] \in list.alive
      /\ \A a \in list.alive : \E i \in 1 .. c : s[i] = a
      /\ list.head = Place(s, c, 1) /\ list.tail = Place(s, c, c)
      /\ \A i \in 1 .. c : list.next[s[i]] = Place(s, c, i + 1) /\ list.prev[s[i]] = Place(s, c, i - 1)
  <2>1. PICK l \in Lists : l = list
      OBVIOUS
  <2>2. Ordered(l, s) /\ l.count = c
      BY <1>1, <1>2, <2>1
  <2>3. /\ \A i, j \in 1 .. c : s[i] = s[j] => i = j
        /\ \A i \in 1 .. c : s[i] \in l.alive
        /\ \A a \in l.alive : \E i \in 1 .. c : s[i] = a
        /\ l.head = Place(s, c, 1) /\ l.tail = Place(s, c, c)
        /\ \A i \in 1 .. c : l.next[s[i]] = Place(s, c, i + 1) /\ l.prev[s[i]] = Place(s, c, i - 1)
      BY <2>2 DEF Ordered
  <2>. QED
      BY <2>1, <2>3
<1>4. Walk(list.head, list.next) = s
  <2>1. list.head = Place(s, c, 1)
      BY <1>3
  <2>2. \A i \in 1 .. c : list.next[s[i]] = Place(s, c, i + 1)
      BY <1>3
  <2>. QED
      BY <1>1, <2>1, <2>2, WalkIs
<1>. DEFINE r == [i \in 1 .. c |-> s[c - i + 1]]
<1>5. r \in [1 .. c -> Addresses]
    OBVIOUS
<1>6. \A i \in 1 .. c : r[i] = s[c - i + 1] /\ c - i + 1 \in 1 .. c
    OBVIOUS
<1>7. \A i \in 0 .. c + 1 : Place(r, c, i) = Place(s, c, c - i + 1)
    BY <1>6 DEF Place
<1>. HIDE DEF r
<1>8. list.tail = Place(r, c, 1)
    BY <1>3, <1>7
<1>9. \A i \in 1 .. c : list.prev[r[i]] = Place(r, c, i + 1)
  <2>1. ASSUME NEW i \in 1 .. c PROVE list.prev[r[i]] = Place(r, c, i + 1)
    <3>1. list.prev[r[i]] = Place(s, c, (c - i + 1) - 1)
        BY <1>3, <1>6
    <3>2. i + 1 \in 0 .. c + 1 /\ c - (i + 1) + 1 = (c - i + 1) - 1
        OBVIOUS
    <3>. QED
        BY <1>7, <3>1, <3>2
  <2>. QED
      BY <2>1
<1>10. Walk(list.tail, list.prev) = r
    BY <1>1, <1>5, <1>8, <1>9, WalkIs
<1>11. s \in Seq(Addresses) /\ Len(s) = c /\ DOMAIN s = 1 .. c
    BY SeqDef
<1>12. r \in Seq(Addresses) /\ Len(r) = c
    BY <1>5, SeqDef
<1>13. s = Reverse(r)
  <2>1. Reverse(r) = [i \in 1 .. c |-> r[c - i + 1]]
      BY <1>12 DEF Reverse
  <2>2. \A i \in 1 .. c : s[i] = r[c - i + 1]
    <3>1. ASSUME NEW i \in 1 .. c PROVE s[i] = r[c - i + 1]
      <4>1. c - i + 1 \in 1 .. c /\ c - (c - i + 1) + 1 = i
          OBVIOUS
      <4>. QED
          BY <1>6, <4>1
    <3>. QED
        BY <3>1
  <2>. QED
      BY <2>1, <2>2
<1>14. ToSet(s) = list.alive
  <2>1. ToSet(s) \subseteq list.alive
      BY <1>3, <1>11 DEF ToSet
  <2>2. ASSUME NEW a \in list.alive PROVE a \in ToSet(s)
    <3>1. PICK i \in 1 .. c : s[i] = a
        BY <1>3
    <3>. QED
        BY <1>11, <3>1 DEF ToSet
  <2>. QED
      BY <2>1, <2>2
<1>15. IsInjective(s)
    BY <1>3, <1>11 DEF IsInjective
<1>16. ASSUME s # <<>> PROVE list.next[Last(s)] = Null /\ list.prev[s[1]] = Null
  <2>1. c # 0
      BY <1>11, <1>16, EmptySeq
  <2>2. Last(s) = s[c] /\ c \in 1 .. c /\ 1 \in 1 .. c
      BY <1>11, <2>1 DEF Last
  <2>3. list.next[s[c]] = Place(s, c, c + 1) /\ list.prev[s[1]] = Place(s, c, 0)
      BY <1>3, <2>2
  <2>. QED
      BY <2>2, <2>3 DEF Place
<1>. QED
    BY <1>1, <1>4, <1>10, <1>11, <1>13, <1>14, <1>15, <1>16 DEF LinksAgree

-----------------------------------------------------------------------------
(* Passes                                                                  *)

\* The links are the same list whatever the nodes' flags.
LEMMA SameLinks ==
    ASSUME NEW l \in Lists, Linked(l), NEW d \in [Addresses -> Nat], NEW m,
           m = [l EXCEPT !.deleteFlag = d]
    PROVE  /\ m \in Lists /\ Linked(m) /\ m.deleteFlag = d
           /\ m.alive = l.alive /\ m.next = l.next /\ m.count = l.count
<1>1. /\ m \in Lists /\ m.deleteFlag = d /\ m.alive = l.alive /\ m.next = l.next
      /\ m.prev = l.prev /\ m.head = l.head /\ m.tail = l.tail /\ m.count = l.count
    BY DEF Lists
<1>2. PICK s \in [1 .. l.count -> Addresses] : Ordered(l, s)
    BY DEF Linked
<1>3. Ordered(m, s)
    BY <1>1, <1>2 DEF Ordered
<1>. QED
    BY <1>1, <1>3 DEF Linked

\* Passes that stand where others stand, and are told what they were told.
LEMMA LendsAlike ==
    ASSUME NEW ps, NEW qs, NEW d \in Nat, NEW n, NEW k,
           \A i \in 1 .. d - 1 : qs[i].node = ps[i].node
    PROVE  Lends(ps, d, n, k) => Lends(qs, d, n, k)
BY DEF Lends

\* The nodes and the memories of k passes are those of k others.
SameWay(ps, qs, k) ==
    \A i \in 1 .. k : qs[i].node = ps[i].node /\ qs[i].other = ps[i].other

LEMMA LendsSame ==
    ASSUME NEW ps, NEW qs, NEW k \in Nat, SameWay(ps, qs, k), NEW i \in 1 .. k + 1,
           NEW n, NEW b, Lends(ps, i, n, b)
    PROVE  Lends(qs, i, n, b)
<1>1. \A j \in 1 .. i - 1 : qs[j].node = ps[j].node
    BY DEF SameWay
<1>. QED
    BY <1>1 DEF Lends

\* A pass comes to a node and lends it its flag.
LEMMA LendTold ==
    ASSUME NEW A, NEW d, NEW e, NEW k \in Nat, NEW ps, NEW qs, ToldOf(A, d, ps, k),
           SameWay(ps, qs, k), \A i \in 1 .. k : qs[i].flag = ps[i].flag,
           NEW n \in A, qs[k + 1].node = n, qs[k + 1].other = d[n],
           \A a \in A : e[a] = IF a = n THEN k + 1 ELSE d[a]
    PROVE  ToldOf(A, e, qs, k + 1)
<1>1. ASSUME NEW a \in A PROVE Lends(qs, (k + 1) + 1, a, e[a])
  <2>1. CASE a = n
    <3>1. e[a] = k + 1
        BY <2>1
    <3>. QED
        BY <2>1, <3>1 DEF Lends
  <2>2. CASE a # n
    <3>1. PICK b : b = d[a] /\ b = e[a]
        BY <2>2
    <3>2. Lends(ps, k + 1, a, b)
        BY <3>1 DEF ToldOf
    <3>3. Lends(qs, k + 1, a, b)
        BY <3>2, LendsSame
    <3>4. Lends(qs, (k + 1) + 1, a, b)
        BY <2>2, <3>3 DEF Lends
    <3>. QED
        BY <3>1, <3>4
  <2>. QED
      BY <2>1, <2>2
<1>2. ASSUME NEW i \in 1 .. k + 1 PROVE Lends(qs, i, qs[i].node, qs[i].other)
  <2>1. CASE i = k + 1
    <3>1. Lends(ps, k + 1, n, d[n])
        BY DEF ToldOf
    <3>2. Lends(qs, k + 1, n, d[n])
        BY <3>1, LendsSame
    <3>. QED
        BY <2>1, <3>2
  <2>2. CASE i \in 1 .. k
    <3>1. Lends(ps, i, ps[i].node, ps[i].other)
        BY <2>2 DEF ToldOf
    <3>2. Lends(qs, i, ps[i].node, ps[i].other)
        BY <3>1, LendsSame
    <3>. QED
        BY <2>2, <3>2 DEF SameWay
  <2>. QED
      BY <2>1, <2>2
<1>3. ASSUME NEW i \in 1 .. k + 1
      PROVE  \/ qs[i].flag
             \/ \E j \in 1 .. k + 1 : qs[j].other = i
             \/ qs[i].node \in A /\ e[qs[i].node] = i
  <2>1. CASE i = k + 1
      BY <2>1
  <2>2. CASE i \in 1 .. k
    <3>1. \/ ps[i].flag
          \/ \E j \in 1 .. k : ps[j].other = i
          \/ ps[i].node \in A /\ d[ps[i].node] = i
        BY <2>2 DEF ToldOf
    <3>2. CASE ps[i].flag
        BY <2>2, <3>2
    <3>3. CASE \E j \in 1 .. k : ps[j].other = i
        BY <3>3 DEF SameWay
    <3>4. CASE ps[i].node \in A /\ d[ps[i].node] = i
      <4>1. qs[i].node = ps[i].node
          BY <2>2 DEF SameWay
      <4>2. CASE ps[i].node = n
          BY <3>4, <4>2
      <4>3. CASE ps[i].node # n
          BY <3>4, <4>1, <4>3
      <4>. QED
          BY <4>2, <4>3
    <3>. QED
        BY <3>1, <3>2, <3>3, <3>4
  <2>. QED
      BY <2>1, <2>2
<1>. QED
    BY <1>1, <1>2, <1>3 DEF ToldOf

\* When Reduce has returned, the flag of the innermost pass is taken back.
LEMMA BackTold ==
    ASSUME NEW A, NEW d, NEW e, NEW k \in Nat, NEW ps, NEW qs, ToldOf(A, d, ps, k + 1),
           SameWay(ps, qs, k), NEW b, b = ps[k + 1].other,
           \A i \in 1 .. k : qs[i].flag = IF i = b THEN ps[k + 1].flag ELSE ps[i].flag,
           \A a \in A : e[a] = IF a = ps[k + 1].node THEN b ELSE d[a]
    PROVE  ToldOf(A, e, qs, k)
<1>. DEFINE n == ps[k + 1].node
<1>0. Lends(ps, k + 1, n, b)
    BY DEF ToldOf
<1>1. ASSUME NEW a \in A PROVE Lends(qs, k + 1, a, e[a])
  <2>1. CASE a = n
    <3>1. Lends(qs, k + 1, n, b)
        BY <1>0, LendsSame
    <3>. QED
        BY <2>1, <3>1
  <2>2. CASE a # n
    <3>1. PICK c : c = d[a] /\ c = e[a]
        BY <2>2
    <3>2. Lends(ps, (k + 1) + 1, a, c)
        BY <3>1 DEF ToldOf
    <3>3. Lends(ps, k + 1, a, c)
        BY <2>2, <3>2 DEF Lends
    <3>4. Lends(qs, k + 1, a, c)
        BY <3>3, LendsSame
    <3>. QED
        BY <3>1, <3>4
  <2>. QED
      BY <2>1, <2>2
<1>2. ASSUME NEW i \in 1 .. k PROVE Lends(qs, i, qs[i].node, qs[i].other)
  <2>1. Lends(ps, i, ps[i].node, ps[i].other)
      BY DEF ToldOf
  <2>2. Lends(qs, i, ps[i].node, ps[i].other)
      BY <2>1, LendsSame
  <2>. QED
      BY <2>2 DEF SameWay
<1>3. ASSUME NEW i \in 1 .. k
      PROVE  \/ qs[i].flag
             \/ \E j \in 1 .. k : qs[j].other = i
             \/ qs[i].node \in A /\ e[qs[i].node] = i
  <2>0. qs[i].node = ps[i].node
      BY DEF SameWay
  <2>1. CASE i = b
    <3>1. i # Null
        BY DEF Null
    <3>2. ps[i].node = n
        BY <1>0, <2>1, <3>1 DEF Lends
    <3>3. CASE ps[k + 1].flag
        BY <2>1, <3>3
    <3>4. CASE ~ps[k + 1].flag
      <4>1. \/ \E j \in 1 .. k + 1 : ps[j].other = k + 1
            \/ n \in A /\ d[n] = k + 1
          BY <3>4 DEF ToldOf
      <4>2. ASSUME NEW j \in 1 .. k + 1, ps[j].other = k + 1 PROVE FALSE
        <5>1. Lends(ps, j, ps[j].node, k + 1)
            BY <4>2 DEF ToldOf
        <5>. QED
            BY <5>1 DEF Lends, Null
      <4>3. n \in A /\ e[n] = i
          BY <2>1, <4>1, <4>2
      <4>. QED
          BY <2>0, <3>2, <4>3
    <3>. QED
        BY <3>3, <3>4
  <2>2. CASE i # b
    <3>1. \/ ps[i].flag
          \/ \E j \in 1 .. k + 1 : ps[j].other = i
          \/ ps[i].node \in A /\ d[ps[i].node] = i
        BY DEF ToldOf
    <3>2. CASE ps[i].flag
        BY <2>2, <3>2
    <3>3. CASE \E j \in 1 .. k + 1 : ps[j].other = i
      <4>1. PICK j \in 1 .. k + 1 : ps[j].other = i
          BY <3>3
      <4>2. j \in 1 .. k
          BY <2>2, <4>1
      <4>. QED
          BY <4>1, <4>2 DEF SameWay
    <3>4. CASE ps[i].node \in A /\ d[ps[i].node] = i
      <4>1. ps[i].node # n
        <5>1. Lends(ps, (k + 1) + 1, ps[i].node, i)
            BY <3>4 DEF ToldOf
        <5>. QED
            BY <5>1 DEF Lends, Null
      <4>. QED
          BY <2>0, <3>4, <4>1
    <3>. QED
        BY <3>1, <3>2, <3>3, <3>4
  <2>. QED
      BY <2>1, <2>2
<1>. QED
    BY <1>1, <1>2, <1>3 DEF ToldOf

\* A node is deleted, and whose flag it points to is told.
LEMMA DeleteTold ==
    ASSUME NEW A, NEW d, NEW k \in Nat, NEW ps, NEW qs, ToldOf(A, d, ps, k),
           SameWay(ps, qs, k), NEW n \in A,
           \A i \in 1 .. k : qs[i].flag <=> ps[i].flag \/ d[n] = i
    PROVE  ToldOf(A \ {n}, d, qs, k)
<1>1. ASSUME NEW a \in A PROVE Lends(qs, k + 1, a, d[a])
  <2>1. Lends(ps, k + 1, a, d[a])
      BY DEF ToldOf
  <2>. QED
      BY <2>1, LendsSame
<1>2. ASSUME NEW i \in 1 .. k PROVE Lends(qs, i, qs[i].node, qs[i].other)
  <2>1. Lends(ps, i, ps[i].node, ps[i].other)
      BY DEF ToldOf
  <2>2. Lends(qs, i, ps[i].node, ps[i].other)
      BY <2>1, LendsSame
  <2>. QED
      BY <2>2 DEF SameWay
<1>3. ASSUME NEW i \in 1 .. k
      PROVE  \/ qs[i].flag
             \/ \E j \in 1 .. k : qs[j].other = i
             \/ qs[i].node \in A \ {n} /\ d[qs[i].node] = i
  <2>1. \/ ps[i].flag
        \/ \E j \in 1 .. k : ps[j].other = i
        \/ ps[i].node \in A /\ d[ps[i].node] = i
      BY DEF ToldOf
  <2>2. CASE ps[i].flag
      BY <2>2
  <2>3. CASE \E j \in 1 .. k : ps[j].other = i
      BY <2>3 DEF SameWay
  <2>4. CASE ps[i].node \in A /\ d[ps[i].node] = i
    <3>1. qs[i].node = ps[i].node
        BY DEF SameWay
    <3>2. CASE ps[i].node = n
        BY <2>4, <3>2
    <3>3. CASE ps[i].node # n
        BY <2>4, <3>1, <3>3
    <3>. QED
        BY <3>2, <3>3
  <2>. QED
      BY <2>1, <2>2, <2>3, <2>4
<1>. QED
    BY <1>1, <1>2, <1>3 DEF ToldOf

\* The k passes know what k others do.
LEMMA SameTold ==
    ASSUME NEW A, NEW d, NEW k \in Nat, NEW ps, NEW qs, ToldOf(A, d, ps, k),
           SameWay(ps, qs, k), \A i \in 1 .. k : qs[i].flag = ps[i].flag
    PROVE  ToldOf(A, d, qs, k)
<1>1. ASSUME NEW a \in A PROVE Lends(qs, k + 1, a, d[a])
  <2>1. Lends(ps, k + 1, a, d[a])
      BY DEF ToldOf
  <2>. QED
      BY <2>1, LendsSame
<1>2. ASSUME NEW i \in 1 .. k PROVE Lends(qs, i, qs[i].node, qs[i].other)
  <2>1. Lends(ps, i, ps[i].node, ps[i].other)
      BY DEF ToldOf
  <2>2. Lends(qs, i, ps[i].node, ps[i].other)
      BY <2>1, LendsSame
  <2>. QED
      BY <2>2 DEF SameWay
<1>3. ASSUME NEW i \in 1 .. k
      PROVE  \/ qs[i].flag
             \/ \E j \in 1 .. k : qs[j].other = i
             \/ qs[i].node \in A /\ d[qs[i].node] = i
  <2>1. \/ ps[i].flag
        \/ \E j \in 1 .. k : ps[j].other = i
        \/ ps[i].node \in A /\ d[ps[i].node] = i
      BY DEF ToldOf
  <2>2. qs[i].node = ps[i].node /\ qs[i].flag = ps[i].flag
      BY DEF SameWay
  <2>3. CASE \E j \in 1 .. k : ps[j].other = i
      BY <2>3 DEF SameWay
  <2>. QED
      BY <2>1, <2>2, <2>3
<1>. QED
    BY <1>1, <1>2, <1>3 DEF ToldOf

\* A new node points to no flag, whoever lived at its address.
LEMMA NewTold ==
    ASSUME NEW A, NEW d, NEW e, NEW k \in Nat, NEW ps, ToldOf(A, d, ps, k),
           NEW n, n \notin A, e[n] = Null, \A a \in A : e[a] = d[a]
    PROVE  ToldOf(A \union {n}, e, ps, k)
<1>1. ASSUME NEW a \in A \union {n} PROVE Lends(ps, k + 1, a, e[a])
  <2>1. CASE a = n
      BY <2>1 DEF Lends
  <2>2. CASE a \in A
    <3>1. Lends(ps, k + 1, a, d[a])
        BY <2>2 DEF ToldOf
    <3>. QED
        BY <2>2, <3>1
  <2>. QED
      BY <2>1, <2>2
<1>2. \A i \in 1 .. k : Lends(ps, i, ps[i].node, ps[i].other)
    BY DEF ToldOf
<1>3. ASSUME NEW i \in 1 .. k
      PROVE  \/ ps[i].flag
             \/ \E j \in 1 .. k : ps[j].other = i
             \/ ps[i].node \in A \union {n} /\ e[ps[i].node] = i
  <2>1. \/ ps[i].flag
        \/ \E j \in 1 .. k : ps[j].other = i
        \/ ps[i].node \in A /\ d[ps[i].node] = i
      BY DEF ToldOf
  <2>. QED
      BY <2>1
<1>. QED
    BY <1>1, <1>2, <1>3 DEF ToldOf

\* What is known of a list and the passes over it.
Fine(l, ps) == /\ l \in Lists /\ Linked(l) /\ ps \in Seq(Passes) /\ Told(l, ps)
               /\ Gone(l, ps)

LEMMA LendFlag ==
    ASSUME NEW l, NEW ps, Fine(l, ps), NEW n \in l.alive \union {Null}
    PROVE  Fine(Lent(l, n, Len(ps) + 1), ps \o At(l, n))
<1>0. l \in Lists /\ Linked(l) /\ ps \in Seq(Passes)
    BY DEF Fine
<1>1. PICK k \in Nat : k = Len(ps)
    BY <1>0, LenProperties
<1>2. CASE n = Null
  <2>1. Lent(l, n, Len(ps) + 1) = l
      BY <1>2 DEF Lent
  <2>2. ps \o At(l, n) = ps
      BY <1>0, <1>2, ConcatEmptySeq DEF At
  <2>. QED
      BY <2>1, <2>2
<1>3. CASE n # Null
  <2>1. n \in l.alive /\ n \in Addresses
      BY <1>0, <1>3 DEF Lists
  <2>2. PICK p \in Passes :
            /\ p = [node |-> n, other |-> l.deleteFlag[n], flag |-> FALSE,
                    gone |-> FALSE, reused |-> FALSE]
            /\ p.node = n /\ p.other = l.deleteFlag[n] /\ p.flag = FALSE /\ p.gone = FALSE
    <3>1. PICK o \in Nat : o = l.deleteFlag[n]
        BY <1>0, <2>1 DEF Lists
    <3>2. [node |-> n, other |-> o, flag |-> FALSE, gone |-> FALSE, reused |-> FALSE] \in Passes
        BY <2>1 DEF Passes
    <3>. QED
        BY <3>1, <3>2
  <2>3. PICK f \in [Addresses -> Nat] :
            /\ f = [l.deleteFlag EXCEPT ![n] = k + 1]
            /\ \A a \in Addresses : f[a] = IF a = n THEN k + 1 ELSE l.deleteFlag[a]
    <3>1. PICK g \in [Addresses -> Nat] : g = l.deleteFlag
        BY <1>0 DEF Lists
    <3>2. /\ [g EXCEPT ![n] = k + 1] \in [Addresses -> Nat]
          /\ \A a \in Addresses : [g EXCEPT ![n] = k + 1][a] = IF a = n THEN k + 1 ELSE g[a]
        BY <2>1
    <3>. QED
        BY <3>1, <3>2
  <2>4. PICK m : m = Lent(l, n, Len(ps) + 1) /\ m = [l EXCEPT !.deleteFlag = f]
      BY <1>1, <1>3, <2>3 DEF Lent
  <2>5. m \in Lists /\ Linked(m) /\ m.deleteFlag = f /\ m.alive = l.alive
      BY <1>0, <2>4, SameLinks
  <2>6. PICK qs \in Seq(Passes) : qs = Append(ps, p)
      BY <1>0, AppendProperties
  <2>7. qs = ps \o At(l, n)
    <3>1. At(l, n) = <<p>>
        BY <1>3, <2>2 DEF At
    <3>. QED
        BY <1>0, <2>6, <3>1, AppendIsConcat
  <2>8. Len(qs) = k + 1 /\ qs[k + 1] = p /\ \A i \in 1 .. k : qs[i] = ps[i]
      BY <1>0, <1>1, <2>6, AppendProperties
  <2>9. ToldOf(l.alive, f, qs, k + 1)
    <3>1. ToldOf(l.alive, l.deleteFlag, ps, k)
        BY <1>1 DEF Fine, Told
    <3>2. SameWay(ps, qs, k) /\ \A i \in 1 .. k : qs[i].flag = ps[i].flag
        BY <2>8 DEF SameWay
    <3>3. qs[k + 1].node = n /\ qs[k + 1].other = l.deleteFlag[n]
        BY <2>2, <2>8
    <3>4. \A a \in l.alive : f[a] = IF a = n THEN k + 1 ELSE l.deleteFlag[a]
        BY <1>0, <2>3 DEF Lists
    <3>. QED
        BY <2>1, <3>1, <3>2, <3>3, <3>4, LendTold
  <2>10. Told(m, qs)
      BY <2>5, <2>8, <2>9 DEF Told
  <2>11. Gone(m, qs)
    <3>1. GoneOf(l.alive, ps, k)
        BY <1>1 DEF Fine, Gone
    <3>2. ASSUME NEW i \in 1 .. k + 1 PROVE Knows(qs[i], l.alive)
      <4>1. CASE i = k + 1
          BY <2>1, <2>2, <2>8, <4>1 DEF Knows
      <4>2. CASE i \in 1 .. k
          BY <2>8, <3>1, <4>2 DEF GoneOf
      <4>. QED
          BY <4>1, <4>2
    <3>3. ASSUME NEW i \in 1 .. k + 1, NEW j \in 1 .. k + 1,
                 i < j, qs[j].node = qs[i].node, qs[j].gone
          PROVE  qs[i].gone
      <4>1. j # k + 1
          BY <2>2, <2>8, <3>3
      <4>2. i \in 1 .. k /\ j \in 1 .. k
          BY <3>3, <4>1
      <4>3. ps[i].gone
          BY <2>8, <3>1, <3>3, <4>2 DEF GoneOf
      <4>. QED
          BY <2>8, <4>2, <4>3
    <3>4. GoneOf(l.alive, qs, k + 1)
        BY <3>2, <3>3 DEF GoneOf
    <3>. QED
        BY <2>5, <2>8, <3>4 DEF Gone
  <2>. QED
      BY <2>4, <2>5, <2>7, <2>10, <2>11 DEF Fine
<1>. QED
    BY <1>2, <1>3

LEMMA TakeFlagBack ==
    ASSUME NEW l, NEW ps, Fine(l, ps), ps # <<>>, NEW pass, pass = Last(ps)
    PROVE  /\ Fine(GiveBack(l, pass), Restored(Front(ps), pass))
           /\ Len(Restored(Front(ps), pass)) = Len(ps) - 1
           /\ pass \in Passes
           /\ ~pass.flag => pass.node \in l.alive /\ l.deleteFlag[pass.node] = Len(ps)
           /\ pass.node \in l.alive => GiveBack(l, pass).deleteFlag[pass.node] = pass.other
           /\ GiveBack(l, pass).alive = l.alive
<1>0. l \in Lists /\ Linked(l) /\ ps \in Seq(Passes)
    BY DEF Fine
<1>1. PICK k \in Nat : k + 1 = Len(ps)
  <2>1. Len(ps) \in Nat /\ Len(ps) # 0
      BY <1>0, LenProperties, EmptySeq
  <2>2. Len(ps) - 1 \in Nat /\ (Len(ps) - 1) + 1 = Len(ps)
      BY <2>1
  <2>. QED
      BY <2>2
<1>2. pass = ps[k + 1] /\ pass \in Passes
  <2>1. pass = ps[k + 1]
      BY <1>1 DEF Last
  <2>2. k + 1 \in 1 .. Len(ps)
      BY <1>1
  <2>. QED
      BY <1>0, <2>1, <2>2, ElementOfSeq
<1>3. /\ pass.node \in Addresses /\ pass.other \in Nat /\ pass.flag \in BOOLEAN
    BY <1>2 DEF Passes
<1>4. ToldOf(l.alive, l.deleteFlag, ps, k + 1)
    BY <1>1 DEF Fine, Told
<1>5. ASSUME ~pass.flag PROVE pass.node \in l.alive /\ l.deleteFlag[pass.node] = k + 1
  <2>1. \/ \E j \in 1 .. k + 1 : ps[j].other = k + 1
        \/ pass.node \in l.alive /\ l.deleteFlag[pass.node] = k + 1
      BY <1>2, <1>4, <1>5 DEF ToldOf
  <2>2. ASSUME NEW j \in 1 .. k + 1, ps[j].other = k + 1 PROVE FALSE
    <3>1. Lends(ps, j, ps[j].node, k + 1)
        BY <1>4, <2>2 DEF ToldOf
    <3>. QED
        BY <3>1 DEF Lends, Null
  <2>. QED
      BY <2>1, <2>2
\* The list.
<1>6. PICK f \in [Addresses -> Nat] :
          /\ \A a \in l.alive : f[a] = IF a = pass.node THEN pass.other ELSE l.deleteFlag[a]
          /\ GiveBack(l, pass) = [l EXCEPT !.deleteFlag = f]
  <2>1. [l.deleteFlag EXCEPT ![pass.node] = pass.other] \in [Addresses -> Nat]
      BY <1>0, <1>3 DEF Lists
  <2>2. \A a \in l.alive : [l.deleteFlag EXCEPT ![pass.node] = pass.other][a]
                               = IF a = pass.node THEN pass.other ELSE l.deleteFlag[a]
      BY <1>0, <1>3 DEF Lists
  <2>3. GiveBack(l, pass)
            = [l EXCEPT !.deleteFlag = [l.deleteFlag EXCEPT ![pass.node] = pass.other]]
      BY DEF GiveBack
  <2>. QED
      BY <2>1, <2>2, <2>3
<1>7. PICK m : m = GiveBack(l, pass)
    OBVIOUS
<1>8. m \in Lists /\ Linked(m) /\ m.deleteFlag = f /\ m.alive = l.alive
    BY <1>0, <1>6, <1>7, SameLinks
\* The passes.
<1>9. PICK fr \in Seq(Passes) :
          fr = Front(ps) /\ Len(fr) = k /\ \A i \in 1 .. k : fr[i] = ps[i]
  <2>1. Front(ps) = SubSeq(ps, 1, k)
      BY <1>1 DEF Front
  <2>2. \A i \in 1 .. k : ps[i] \in Passes
      BY <1>0, <1>1, ElementOfSeq
  <2>3. /\ SubSeq(ps, 1, k) \in Seq(Passes) /\ Len(SubSeq(ps, 1, k)) = k
        /\ \A i \in 1 .. k : SubSeq(ps, 1, k)[i] = ps[i]
      BY <1>0, <1>1, <2>2, SubSeqProperties
  <2>. QED
      BY <2>1, <2>3
<1>10. \A i \in 1 .. k : fr[i] \in Passes
    BY <1>9, ElementOfSeq
<1>11. PICK qs \in Seq(Passes) :
          /\ qs = Restored(fr, pass) /\ Len(qs) = k
          /\ \A i \in 1 .. k :
                /\ qs[i].node = fr[i].node /\ qs[i].other = fr[i].other /\ qs[i].gone = fr[i].gone
                /\ qs[i].reused = fr[i].reused
                /\ qs[i].flag = IF i = pass.other THEN pass.flag ELSE fr[i].flag
  <2>1. CASE pass.other = Null
    <3>1. Restored(fr, pass) = fr
        BY <2>1 DEF Restored
    <3>2. \A i \in 1 .. k : i # pass.other
        BY <2>1 DEF Null
    <3>. QED
        BY <1>9, <3>1, <3>2
  <2>2. CASE pass.other # Null
    <3>1. PICK o \in 1 .. k : o = pass.other
      <4>1. Lends(ps, k + 1, pass.node, pass.other)
          BY <1>2, <1>4 DEF ToldOf
      <4>. QED
          BY <2>2, <4>1 DEF Lends
    <3>. DEFINE told == [fr[o] EXCEPT !.flag = pass.flag]
    <3>2. /\ told \in Passes /\ told.node = fr[o].node /\ told.other = fr[o].other
          /\ told.gone = fr[o].gone /\ told.reused = fr[o].reused /\ told.flag = pass.flag
      <4>1. PICK q \in Passes : q = fr[o]
          BY <1>10
      <4>. QED
          BY <1>3, <4>1 DEF Passes
    <3>3. Restored(fr, pass) = [fr EXCEPT ![o] = told]
        BY <2>2, <3>1 DEF Restored
    <3>. HIDE DEF told
    <3>4. /\ [fr EXCEPT ![o] = told] \in Seq(Passes) /\ Len([fr EXCEPT ![o] = told]) = k
          /\ \A i \in 1 .. k : [fr EXCEPT ![o] = told][i] = IF i = o THEN told ELSE fr[i]
      <4>1. DOMAIN fr = 1 .. k
          BY <1>9, LenProperties
      <4>2. [fr EXCEPT ![o] = told] \in Seq(Passes) /\ Len([fr EXCEPT ![o] = told]) = Len(fr)
          BY <1>9, <3>2, ExceptSeq
      <4>3. \A i \in 1 .. k : [fr EXCEPT ![o] = told][i] = IF i = o THEN told ELSE fr[i]
          BY <4>1
      <4>. QED
          BY <1>9, <4>2, <4>3
    <3>5. PICK w \in Seq(Passes) :
              /\ w = Restored(fr, pass) /\ Len(w) = k
              /\ \A i \in 1 .. k : w[i] = IF i = o THEN told ELSE fr[i]
        BY <3>3, <3>4
    <3>6. ASSUME NEW i \in 1 .. k
          PROVE  /\ w[i].node = fr[i].node /\ w[i].other = fr[i].other /\ w[i].gone = fr[i].gone
                 /\ w[i].reused = fr[i].reused
                 /\ w[i].flag = IF i = pass.other THEN pass.flag ELSE fr[i].flag
      <4>1. CASE i = o
          BY <3>1, <3>2, <3>5, <4>1
      <4>2. CASE i # o
          BY <3>1, <3>5, <4>2
      <4>. QED
          BY <4>1, <4>2
    <3>. QED
        BY <3>5, <3>6
  <2>. QED
      BY <2>1, <2>2
<1>12. ToldOf(l.alive, f, qs, k)
  <2>1. SameWay(ps, qs, k)
      BY <1>9, <1>11 DEF SameWay
  <2>2. \A i \in 1 .. k : qs[i].flag = IF i = pass.other THEN ps[k + 1].flag ELSE ps[i].flag
      BY <1>2, <1>9, <1>11
  <2>3. \A a \in l.alive : f[a] = IF a = ps[k + 1].node THEN pass.other ELSE l.deleteFlag[a]
      BY <1>2, <1>6
  <2>4. pass.other = ps[k + 1].other
      BY <1>2
  <2>. QED
      BY <1>4, <2>1, <2>2, <2>3, <2>4, BackTold
<1>13. Told(m, qs)
    BY <1>8, <1>11, <1>12 DEF Told
<1>14. Gone(m, qs)
  <2>1. GoneOf(l.alive, ps, k + 1)
      BY <1>1 DEF Fine, Gone
  <2>2. ASSUME NEW i \in 1 .. k PROVE Knows(qs[i], l.alive)
    <3>1. qs[i].node = ps[i].node /\ qs[i].gone = ps[i].gone /\ qs[i].reused = ps[i].reused
        BY <1>9, <1>11
    <3>2. Knows(ps[i], l.alive)
        BY <2>1 DEF GoneOf
    <3>3. qs[i].flag => qs[i].gone
      <4>1. CASE i = pass.other
        <5>1. Lends(ps, k + 1, pass.node, i)
            BY <1>2, <1>4, <4>1 DEF ToldOf
        <5>2. ps[i].node = ps[k + 1].node
            BY <1>2, <5>1 DEF Lends, Null
        <5>3. ps[k + 1].gone => ps[i].gone
            BY <2>1, <5>2 DEF GoneOf
        <5>4. ps[k + 1].flag => ps[k + 1].gone
            BY <2>1 DEF GoneOf, Knows
        <5>5. qs[i].flag = ps[k + 1].flag
            BY <1>2, <1>11, <4>1
        <5>. QED
            BY <3>1, <5>3, <5>4, <5>5
      <4>2. CASE i # pass.other
        <5>1. qs[i].flag = ps[i].flag
            BY <1>9, <1>11, <4>2
        <5>. QED
            BY <3>1, <3>2, <5>1 DEF Knows
      <4>. QED
          BY <4>1, <4>2
    <3>. QED
        BY <3>1, <3>2, <3>3 DEF Knows
  <2>3. ASSUME NEW i \in 1 .. k, NEW j \in 1 .. k,
               i < j, qs[j].node = qs[i].node, qs[j].gone
        PROVE  qs[i].gone
    <3>1. /\ qs[i].node = ps[i].node /\ qs[j].node = ps[j].node
          /\ qs[i].gone = ps[i].gone /\ qs[j].gone = ps[j].gone
        BY <1>9, <1>11
    <3>2. ps[i].gone
        BY <2>1, <2>3, <3>1 DEF GoneOf
    <3>. QED
        BY <3>1, <3>2
  <2>4. GoneOf(l.alive, qs, k)
      BY <2>2, <2>3 DEF GoneOf
  <2>. QED
      BY <1>8, <1>11, <2>4 DEF Gone
<1>15. Fine(m, qs)
    BY <1>8, <1>13, <1>14 DEF Fine
<1>16. Len(ps) - 1 = k
    BY <1>1
<1>. QED
    BY <1>2, <1>5, <1>6, <1>7, <1>8, <1>9, <1>11, <1>15, <1>16

\* A node is deleted, in a Reduce or after it.
LEMMA DeleteNode ==
    ASSUME NEW l, NEW ps, Fine(l, ps), NEW n \in l.alive
    PROVE  /\ Fine(Unlink(l, n), Flagged(ps, l, n))
           /\ Len(Flagged(ps, l, n)) = Len(ps)
           /\ l.next[n] \in Unlink(l, n).alive \union {Null}
<1>0. l \in Lists /\ Linked(l) /\ ps \in Seq(Passes)
    BY DEF Fine
<1>1. PICK k \in Nat : k = Len(ps) /\ DOMAIN ps = 1 .. k
    BY <1>0, LenProperties
<1>2. \A i \in 1 .. k : ps[i] \in Passes
    BY <1>0, <1>1, ElementOfSeq
<1>3. PICK m \in Lists :
          /\ m = Unlink(l, n) /\ Linked(m) /\ m.alive = l.alive \ {n}
          /\ m.deleteFlag = l.deleteFlag
    BY <1>0, Unlinked
<1>. DEFINE told(p, i) == [p EXCEPT !.flag = p.flag \/ l.deleteFlag[n] = i,
                                    !.gone = p.gone \/ p.node = n]
            qs == [i \in 1 .. k |-> told(ps[i], i)]
<1>4. qs = Flagged(ps, l, n)
    BY <1>1 DEF Flagged
<1>5. ASSUME NEW p \in Passes, NEW i
      PROVE  /\ told(p, i) \in Passes
             /\ told(p, i).node = p.node /\ told(p, i).other = p.other
             /\ told(p, i).reused = p.reused
             /\ told(p, i).flag <=> p.flag \/ l.deleteFlag[n] = i
             /\ told(p, i).gone <=> p.gone \/ p.node = n
    BY DEF Passes
<1>. HIDE DEF told
<1>6. qs \in [1 .. k -> Passes]
    BY <1>2, <1>5
<1>7. \A i \in 1 .. k : /\ qs[i].node = ps[i].node /\ qs[i].other = ps[i].other
                        /\ qs[i].reused = ps[i].reused
                        /\ qs[i].flag <=> ps[i].flag \/ l.deleteFlag[n] = i
                        /\ qs[i].gone <=> ps[i].gone \/ ps[i].node = n
    BY <1>2, <1>5
<1>. HIDE DEF qs
<1>8. qs \in Seq(Passes) /\ Len(qs) = k
    BY <1>6, SeqDef
<1>9. ToldOf(l.alive \ {n}, l.deleteFlag, qs, k)
  <2>1. ToldOf(l.alive, l.deleteFlag, ps, k)
      BY <1>1 DEF Fine, Told
  <2>2. SameWay(ps, qs, k)
      BY <1>7 DEF SameWay
  <2>3. \A i \in 1 .. k : qs[i].flag <=> ps[i].flag \/ l.deleteFlag[n] = i
      BY <1>7
  <2>. QED
      BY <2>1, <2>2, <2>3, DeleteTold
<1>10. Told(m, qs)
    BY <1>3, <1>8, <1>9 DEF Told
<1>11. Gone(m, qs)
  <2>1. GoneOf(l.alive, ps, k)
      BY <1>1 DEF Fine, Gone
  <2>2. ASSUME NEW i \in 1 .. k PROVE Knows(qs[i], l.alive \ {n})
    <3>1. Knows(ps[i], l.alive)
        BY <2>1 DEF GoneOf
    <3>2. ASSUME l.deleteFlag[n] = i PROVE ps[i].node = n
      <4>1. Lends(ps, k + 1, n, i)
          BY <1>1, <3>2 DEF Fine, Told, ToldOf
      <4>. QED
          BY <4>1 DEF Lends, Null
    <3>3. qs[i].flag => qs[i].gone
        BY <1>7, <3>1, <3>2 DEF Knows
    <3>4. qs[i].node \notin l.alive \ {n} => qs[i].gone
        BY <1>7, <3>1 DEF Knows
    <3>5. qs[i].gone => qs[i].reused \/ qs[i].node \notin l.alive \ {n}
        BY <1>7, <3>1 DEF Knows
    <3>. QED
        BY <3>3, <3>4, <3>5 DEF Knows
  <2>3. ASSUME NEW i \in 1 .. k, NEW j \in 1 .. k,
               i < j, qs[j].node = qs[i].node, qs[j].gone
        PROVE  qs[i].gone
    <3>1. ps[j].node = ps[i].node
        BY <1>7, <2>3
    <3>2. CASE ps[j].gone
        BY <1>7, <2>1, <2>3, <3>1, <3>2 DEF GoneOf
    <3>3. CASE ps[j].node = n
        BY <1>7, <3>1, <3>3
    <3>. QED
        BY <1>7, <2>3, <3>2, <3>3
  <2>4. GoneOf(l.alive \ {n}, qs, k)
      BY <2>2, <2>3 DEF GoneOf
  <2>. QED
      BY <1>3, <1>8, <2>4 DEF Gone
<1>12. Fine(m, qs)
    BY <1>3, <1>8, <1>10, <1>11 DEF Fine
<1>13. l.next[n] \in m.alive \union {Null}
    BY <1>0, <1>3, Neighbours
<1>. QED
    BY <1>1, <1>3, <1>4, <1>8, <1>12, <1>13

-----------------------------------------------------------------------------
(* Steps                                                                   *)

ListInv == Fine(list, passes)

LEMMA InitList ==
    ASSUME Init
    PROVE  ListInv
<1>1. list = Empty /\ passes = <<>>
    BY DEF Init
<1>2. Empty \in Lists
    BY NullIsNone DEF Empty, Lists, Refs
<1>3. Empty.count = 0 /\ Empty.alive = {} /\ Empty.head = Null /\ Empty.tail = Null
    BY DEF Empty
<1>. DEFINE s == [i \in 1 .. 0 |-> Null]
<1>4. s \in [1 .. 0 -> Addresses]
    OBVIOUS
<1>5. Ordered(Empty, s)
  <2>1. PICK e : e = Empty
      OBVIOUS
  <2>2. Place(s, 0, 1) = Null /\ Place(s, 0, 0) = Null
      BY DEF Place
  <2>3. e.count = 0 /\ e.alive = {} /\ e.head = Null /\ e.tail = Null
      BY <1>3, <2>1
  <2>4. \A i \in 1 .. e.count : FALSE
      BY <2>3
  <2>. HIDE DEF s
  <2>5. Ordered(e, s)
      BY <2>2, <2>3, <2>4 DEF Ordered
  <2>. QED
      BY <2>1, <2>5
<1>6. Linked(Empty)
  <2>1. PICK e : e = Empty
      OBVIOUS
  <2>2. e.count \in Nat /\ [1 .. e.count -> Addresses] = [1 .. 0 -> Addresses]
      BY <1>3, <2>1
  <2>. HIDE DEF s
  <2>3. s \in [1 .. e.count -> Addresses] /\ Ordered(e, s)
      BY <1>4, <1>5, <2>1, <2>2
  <2>4. Linked(e)
      BY <2>2, <2>3 DEF Linked
  <2>. QED
      BY <2>1, <2>4
<1>7. passes \in Seq(Passes) /\ Len(passes) = 0
    BY <1>1, EmptySeq
<1>8. Told(Empty, passes) /\ Gone(Empty, passes)
    BY <1>3, <1>7 DEF Told, ToldOf, Gone, GoneOf
<1>. QED
    BY <1>1, <1>2, <1>6, <1>7, <1>8 DEF ListInv, Fine

\* The passes ps, after a new node at the address n.
Remembered(ps, n) == [i \in DOMAIN ps |-> [ps[i] EXCEPT !.reused = @ \/ ps[i].node = n]]

\* A node is added, perhaps at the address of one that a pass came to.
LEMMA NewNode ==
    ASSUME NEW l, NEW ps, Fine(l, ps), NEW m \in Lists, Linked(m),
           NEW n, n \notin l.alive, m.alive = l.alive \union {n},
           m.deleteFlag[n] = Null, \A a \in l.alive : m.deleteFlag[a] = l.deleteFlag[a]
    PROVE  Fine(m, Remembered(ps, n))
<1>0. l \in Lists /\ ps \in Seq(Passes)
    BY DEF Fine
<1>1. PICK k \in Nat : k = Len(ps) /\ DOMAIN ps = 1 .. k
    BY <1>0, LenProperties
<1>2. \A i \in 1 .. k : ps[i] \in Passes
    BY <1>0, <1>1, ElementOfSeq
<1>. DEFINE used(p) == [p EXCEPT !.reused = p.reused \/ p.node = n]
            qs == [i \in 1 .. k |-> used(ps[i])]
<1>3. qs = Remembered(ps, n)
    BY <1>1 DEF Remembered
<1>4. ASSUME NEW p \in Passes
      PROVE  /\ used(p) \in Passes
             /\ used(p).node = p.node /\ used(p).other = p.other
             /\ used(p).flag = p.flag /\ used(p).gone = p.gone
             /\ used(p).reused <=> p.reused \/ p.node = n
    BY DEF Passes
<1>. HIDE DEF used
<1>5. qs \in [1 .. k -> Passes]
    BY <1>2, <1>4
<1>6. \A i \in 1 .. k : /\ qs[i].node = ps[i].node /\ qs[i].other = ps[i].other
                        /\ qs[i].flag = ps[i].flag /\ qs[i].gone = ps[i].gone
                        /\ qs[i].reused <=> ps[i].reused \/ ps[i].node = n
    BY <1>2, <1>4
<1>. HIDE DEF qs
<1>7. qs \in Seq(Passes) /\ Len(qs) = k
    BY <1>5, SeqDef
<1>8. Told(m, qs)
  <2>1. ToldOf(l.alive, l.deleteFlag, ps, k)
      BY <1>1 DEF Fine, Told
  <2>2. ToldOf(l.alive, l.deleteFlag, qs, k)
    <3>1. SameWay(ps, qs, k)
        BY <1>6 DEF SameWay
    <3>2. \A i \in 1 .. k : qs[i].flag = ps[i].flag
        BY <1>6
    <3>. QED
        BY <2>1, <3>1, <3>2, SameTold
  <2>3. ToldOf(m.alive, m.deleteFlag, qs, k)
      BY <2>2, NewTold
  <2>. QED
      BY <1>7, <2>3 DEF Told
<1>9. GoneOf(l.alive, ps, k)
    BY <1>1 DEF Fine, Gone
<1>10. ASSUME NEW i \in 1 .. k PROVE Knows(qs[i], m.alive)
  <2>1. Knows(ps[i], l.alive)
      BY <1>9 DEF GoneOf
  <2>. QED
      BY <1>6, <2>1 DEF Knows
<1>11. ASSUME NEW i \in 1 .. k, NEW j \in 1 .. k,
              i < j, qs[j].node = qs[i].node, qs[j].gone
       PROVE  qs[i].gone
  <2>1. ps[i].gone
      BY <1>6, <1>9, <1>11 DEF GoneOf
  <2>. QED
      BY <1>6, <2>1
<1>12. GoneOf(m.alive, qs, k)
    BY <1>10, <1>11 DEF GoneOf
<1>13. Gone(m, qs)
    BY <1>7, <1>12 DEF Gone
<1>14. Fine(m, qs)
    BY <1>7, <1>8, <1>13 DEF Fine
<1>. QED
    BY <1>3, <1>14

LEMMA AddStep ==
    ASSUME ListInv, NEW n \in Addresses, AddTail(n) \/ AddHead(n)
    PROVE  ListInv'
<1>1. PICK l \in Lists : l = list /\ Linked(l)
    BY DEF ListInv, Fine
<1>2. /\ n \notin l.alive /\ passes' = Reused(n)
      /\ list' = InsertAfter(l, l.tail, n) \/ list' = InsertBefore(l, l.head, n)
    BY <1>1 DEF AddTail, AddHead, Free
<1>3. PICK m : m = list'
    OBVIOUS
<1>4. m \in Lists /\ Linked(m) /\ m.alive = l.alive \union {n}
    BY <1>1, <1>2, <1>3, Inserted
<1>5. \A a \in Addresses : m.deleteFlag[a] = IF a = n THEN Null ELSE l.deleteFlag[a]
    BY <1>1, <1>2, <1>3, Inserted
<1>6. m.deleteFlag[n] = Null /\ \A a \in l.alive : m.deleteFlag[a] = l.deleteFlag[a]
    BY <1>2, <1>5 DEF Lists
<1>7. passes' = Remembered(passes, n)
    BY <1>2 DEF Reused, Remembered
<1>8. Fine(l, passes)
    BY <1>1 DEF ListInv
<1>9. Fine(m, Remembered(passes, n))
    BY <1>2, <1>4, <1>6, <1>8, NewNode
<1>. QED
    BY <1>3, <1>7, <1>9 DEF ListInv

LEMMA RemoveAllStep ==
    ASSUME ListInv, RemoveAll
    PROVE  ListInv'
<1>1. passes = <<>> /\ passes' = <<>> /\ list' = RemoveHeads(list)
    BY DEF RemoveAll
<1>2. list' \in Lists /\ Linked(list') /\ list'.alive = {}
    BY <1>1, AllRemoved DEF ListInv, Fine
<1>3. passes' \in Seq(Passes) /\ Len(passes') = 0
    BY <1>1, EmptySeq
<1>4. Told(list', passes') /\ Gone(list', passes')
    BY <1>2, <1>3 DEF Told, ToldOf, Gone, GoneOf
<1>. QED
    BY <1>2, <1>3, <1>4 DEF ListInv, Fine

LEMMA ReduceStep ==
    ASSUME ListInv, ReduceList
    PROVE  ListInv'
<1>1. /\ list' = Lent(list, list.head, Len(passes) + 1)
      /\ passes' = passes \o At(list, list.head)
    BY DEF ReduceList
<1>2. list.head \in list.alive \union {Null}
    BY Neighbours DEF ListInv, Fine
<1>3. Fine(list', passes')
    BY <1>1, <1>2, LendFlag DEF ListInv
<1>. QED
    BY <1>3 DEF ListInv

LEMMA ReturnStep ==
    ASSUME ListInv, NEW result, ReduceReturns(result)
    PROVE  ListInv'
<1>1. PICK pass : pass = Last(passes)
    OBVIOUS
<1>2. PICK l, outer : l = GiveBack(list, pass) /\ outer = Restored(Front(passes), pass)
    OBVIOUS
<1>3. passes # <<>>
    BY DEF ReduceReturns
<1>4. /\ Fine(l, outer) /\ Len(outer) = Len(passes) - 1 /\ l.alive = list.alive
      /\ ~pass.flag => pass.node \in list.alive
    BY <1>1, <1>2, <1>3, TakeFlagBack DEF ListInv
<1>5. Len(outer) + 1 = Len(passes)
  <2>1. Len(passes) \in Nat
      BY LenProperties DEF ListInv, Fine
  <2>. QED
      BY <1>4, <2>1
<1>6. CASE result = "bail" \/ pass.flag
    BY <1>1, <1>2, <1>4, <1>6 DEF ReduceReturns, ListInv
<1>7. CASE ~(result = "bail" \/ pass.flag) /\ result = "delete"
  <2>1. pass.node \in l.alive
      BY <1>4, <1>7
  <2>2. PICK gone, ps : gone = Unlink(l, pass.node) /\ ps = Flagged(outer, l, pass.node)
      OBVIOUS
  <2>3. Fine(gone, ps) /\ Len(ps) = Len(outer) /\ l.next[pass.node] \in gone.alive \union {Null}
      BY <1>4, <2>1, <2>2, DeleteNode
  <2>4. Fine(Lent(gone, l.next[pass.node], Len(ps) + 1), ps \o At(gone, l.next[pass.node]))
      BY <2>3, LendFlag
  <2>5. /\ list' = Lent(gone, l.next[pass.node], Len(passes))
        /\ passes' = ps \o At(gone, l.next[pass.node])
      BY <1>1, <1>2, <1>7, <2>2 DEF ReduceReturns
  <2>. QED
      BY <1>5, <2>3, <2>4, <2>5 DEF ListInv
<1>8. CASE ~(result = "bail" \/ pass.flag) /\ result # "delete"
  <2>1. pass.node \in l.alive
      BY <1>4, <1>8
  <2>2. l.next[pass.node] \in l.alive \union {Null}
      BY <1>4, <2>1, Neighbours DEF Fine
  <2>3. Fine(Lent(l, l.next[pass.node], Len(outer) + 1), outer \o At(l, l.next[pass.node]))
      BY <1>4, <2>2, LendFlag
  <2>4. /\ list' = Lent(l, l.next[pass.node], Len(passes))
        /\ passes' = outer \o At(l, l.next[pass.node])
      BY <1>1, <1>2, <1>8 DEF ReduceReturns
  <2>. QED
      BY <1>5, <2>3, <2>4 DEF ListInv
<1>. QED
    BY <1>6, <1>7, <1>8

LEMMA NextList ==
    ASSUME ListInv, [Next]_vars
    PROVE  ListInv'
<1>1. ASSUME NEW n \in Addresses, AddTail(n) \/ AddHead(n) PROVE ListInv'
    BY <1>1, AddStep
<1>2. ASSUME NEW n \in Addresses, RemoveNode(n) PROVE ListInv'
  <2>1. n \in list.alive /\ list' = Unlink(list, n) /\ passes' = Flagged(passes, list, n)
      BY <1>2 DEF RemoveNode
  <2>2. Fine(list', passes')
      BY <2>1, DeleteNode DEF ListInv
  <2>. QED
      BY <2>2 DEF ListInv
<1>3. CASE RemoveAll
    BY <1>3, RemoveAllStep
<1>4. CASE ReduceList
    BY <1>4, ReduceStep
<1>5. ASSUME NEW result \in {"none", "delete", "bail"}, ReduceReturns(result) PROVE ListInv'
    BY <1>5, ReturnStep
<1>6. CASE UNCHANGED vars
    BY <1>6 DEF vars, ListInv
<1>. QED
    BY <1>1, <1>2, <1>3, <1>4, <1>5, <1>6 DEF Next

LEMMA ListInvariant == Spec => []ListInv
<1>1. Init => ListInv
    BY InitList
<1>2. ListInv /\ [Next]_vars => ListInv'
    BY NextList
<1>. QED
    BY <1>1, <1>2, PTL DEF Spec

-----------------------------------------------------------------------------
(* Theorems                                                                *)

\* Whatever is inserted and removed, by Reduce callbacks in nested passes or between
\* them, and whichever addresses the allocator hands out again: the forward and the
\* backward links, the ends and the count describe one order of the nodes that live.
\* (LinkedList: AddTail, AddHead, Remove, RemoveAll.)
THEOREM LinksCorrect == Spec => []LinksAgree
<1>1. ListInv => LinksAgree
    BY LinkedAgrees DEF ListInv, Fine
<1>. QED
    BY <1>1, ListInvariant, PTL

\* Whatever addresses the allocator hands out again: a pass that looks at its deleteFlag
\* is not told of a deletion that was not, and goes on only with a node that is alive and
\* has its flag; if there was no other node at the address since, it learns whether its
\* node was deleted, in however many passes inside it; and no node points to the flag of
\* a pass that is over.  (ReductionObject::ReduceList.)
THEOREM PassCorrect == Spec => []PassKnowsItsNode
<1>1. ASSUME ListInv PROVE PassKnowsItsNode
  <2>1. PICK k \in Nat : k = Len(passes)
      BY <1>1, LenProperties DEF ListInv, Fine
  <2>2. ASSUME NEW n \in list.alive PROVE list.deleteFlag[n] <= k
    <3>1. Lends(passes, k + 1, n, list.deleteFlag[n])
        BY <1>1, <2>1 DEF ListInv, Fine, Told, ToldOf
    <3>. QED
        BY <3>1 DEF Lends, Null
  <2>3. ASSUME passes # <<>>, NEW pass, pass = Last(passes)
        PROVE  /\ pass.flag => pass.gone
               /\ ~pass.flag => /\ pass.node \in list.alive
                               /\ list.deleteFlag[pass.node] = Len(passes)
               /\ ~pass.reused => (pass.flag = pass.gone)
    <3>1. pass \in Passes /\ pass = passes[k]
      <4>1. k \in 1 .. Len(passes)
          BY <1>1, <2>1, <2>3, EmptySeq DEF ListInv, Fine
      <4>. QED
          BY <1>1, <2>1, <2>3, <4>1, ElementOfSeq DEF ListInv, Fine, Last
    <3>2. k \in 1 .. k
        BY <1>1, <2>1, <2>3, EmptySeq DEF ListInv, Fine
    <3>3. Knows(pass, list.alive)
        BY <1>1, <2>1, <3>1, <3>2 DEF ListInv, Fine, Gone, GoneOf
    <3>4. ~pass.flag => pass.node \in list.alive /\ list.deleteFlag[pass.node] = Len(passes)
        BY <1>1, <2>3, TakeFlagBack DEF ListInv
    <3>5. pass.flag \in BOOLEAN /\ pass.gone \in BOOLEAN
        BY <3>1 DEF Passes
    <3>6. ~pass.reused => (pass.flag = pass.gone)
        BY <3>3, <3>4, <3>5 DEF Knows
    <3>. QED
        BY <3>3, <3>4, <3>6 DEF Knows
  <2>4. PICK pass : pass = Last(passes)
      OBVIOUS
  <2>. QED
      BY <2>1, <2>2, <2>3, <2>4 DEF PassKnowsItsNode
<1>2. ListInv => PassKnowsItsNode
    BY <1>1
<1>. QED
    BY <1>2, ListInvariant, PTL
=============================================================================
