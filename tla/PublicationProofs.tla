-------------------------- MODULE PublicationProofs --------------------------
(***************************************************************************)
(* Proofs about Publication, for any folders, operations, labels,          *)
(* contracts and numbers of edits.                                         *)
(***************************************************************************)
EXTENDS Publication, FiniteSetTheorems, FunctionTheorems, SequenceTheorems, TLAPS

-----------------------------------------------------------------------------
(* Requests and collections.                                                 *)

\* A function on 1..n is a sequence.
LEMMA SeqOf ==
  ASSUME NEW S, NEW n \in Nat, NEW s \in [1..n -> S]
  PROVE  s \in Seq(S) /\ DOMAIN s = 1..n /\ Len(s) = n
OBVIOUS

LEMMA ItemsType ==
  ASSUME NEW c \in Collection, NEW f \in Folders
  PROVE  /\ c.items[f] \in Seq(Request)
         /\ Len(c.items[f]) \in Nat /\ DOMAIN c.items[f] = 1..Len(c.items[f])
         /\ \A i \in DOMAIN c.items[f] : c.items[f][i] \in Request
BY DEF Collection

LEMMA WithItems ==
  ASSUME NEW c \in Collection, NEW S
  PROVE  [c EXCEPT !.items = S] = [items |-> S, generated |-> c.generated, guard |-> c.guard,
                                   marker |-> c.marker]
BY DEF Collection

LEMMA WithMarker ==
  ASSUME NEW c \in Collection, NEW m
  PROVE  [c EXCEPT !.marker = m] = [items |-> c.items, generated |-> c.generated,
                                    guard |-> c.guard, marker |-> m]
BY DEF Collection

LEMMA CleanFields ==
  ASSUME NEW r \in Request
  PROVE  Clean(r) = [op |-> r.op, name |-> r.name, prefixed |-> r.prefixed, text |-> r.text,
                     disabled |-> IF r.disabled = "true" THEN "true" ELSE "absent",
                     response |-> "absent", script |-> r.script, scenario |-> r.scenario,
                     id |-> None]
<1> DEFINE k == Clean(r)
<1>1. /\ k \in Request
      /\ k.op = r.op /\ k.name = r.name /\ k.prefixed = r.prefixed /\ k.text = r.text
      /\ k.script = r.script /\ k.scenario = r.scenario /\ k.id = None
  BY DEF Clean, Request
<1>2. /\ k.disabled = (IF r.disabled = "false" THEN "absent" ELSE r.disabled)
      /\ k.response = (IF r.response = "empty" THEN "absent" ELSE r.response)
  BY DEF Clean, Request
<1>3. r.disabled \in {"absent", "false", "true"} /\ r.response \in {"absent", "empty"}
  BY DEF Request
<1>4. /\ k.disabled = (IF r.disabled = "true" THEN "true" ELSE "absent")
      /\ k.response = "absent"
  BY <1>2, <1>3
<1> HIDE DEF k
<1>5. k = [op |-> r.op, name |-> r.name, prefixed |-> r.prefixed, text |-> r.text,
                     disabled |-> IF r.disabled = "true" THEN "true" ELSE "absent",
                     response |-> "absent", script |-> r.script, scenario |-> r.scenario,
                     id |-> None]
  BY <1>1, <1>4 DEF Request
<1> QED BY <1>5 DEF k

LEMMA InRequests ==
  ASSUME NEW c, NEW r
  PROVE  r \in Requests(c) <=> \E f \in Folders : \E i \in DOMAIN c.items[f] : r = c.items[f][i]
BY DEF Requests, Range

\* The same requests as far as a check can tell, whatever their ids.
Alike(c, d) ==
  \A f \in Folders :
    /\ DOMAIN d.items[f] = DOMAIN c.items[f]
    /\ \A i \in DOMAIN c.items[f] :
         LET r == c.items[f][i]
             s == d.items[f][i]
         IN  /\ s.op = r.op /\ s.text = r.text /\ s.script = r.script
             /\ s.scenario \in {"none", r.scenario}

LEMMA ValidAlike ==
  ASSUME NEW c, NEW d, Alike(c, d), ValidCollection(c),
         d.guard = c.guard, Generated(d) <=> Generated(c)
  PROVE  ValidCollection(d)
<1>1. \A s \in Requests(d) : \E r \in Requests(c) :
        s.op = r.op /\ s.text = r.text /\ s.script = r.script /\ s.scenario \in {"none", r.scenario}
  BY InRequests DEF Alike
<1>2. Requests(c) # {} => Requests(d) # {}
  <2>1. ASSUME NEW f \in Folders, NEW i \in DOMAIN c.items[f] PROVE Requests(d) # {}
    BY <2>1, InRequests DEF Alike
  <2> QED BY <2>1, InRequests
<1>3. Distinct(c) => Distinct(d)
  BY <1>2 DEF Distinct, Alike
<1> QED BY <1>1, <1>2, <1>3 DEF ValidCollection

LEMMA CleanMeans ==
  ASSUME NEW r \in Request, NEW s \in Request
  PROVE  Clean(r) = Clean(s) <=>
           /\ r.op = s.op /\ r.name = s.name /\ r.prefixed = s.prefixed /\ r.text = s.text
           /\ r.script = s.script /\ r.scenario = s.scenario
           /\ r.disabled = "true" <=> s.disabled = "true"
<1> DEFINE C(q) == [op |-> q.op, name |-> q.name, prefixed |-> q.prefixed, text |-> q.text,
                    disabled |-> IF q.disabled = "true" THEN "true" ELSE "absent",
                    response |-> "absent", script |-> q.script, scenario |-> q.scenario,
                    id |-> None]
<1>1. ASSUME NEW q \in Request PROVE Clean(q) = C(q)
  BY <1>1, CleanFields
<1>2. Clean(r) = C(r) /\ Clean(s) = C(s)
  BY <1>1
<1> HIDE DEF C
<1>3. C(r) = C(s) <=>
           /\ r.op = s.op /\ r.name = s.name /\ r.prefixed = s.prefixed /\ r.text = s.text
           /\ r.script = s.script /\ r.scenario = s.scenario
           /\ r.disabled = "true" <=> s.disabled = "true"
  BY DEF C
<1> QED BY <1>2, <1>3

\* _same_public_payload, item by item.
LEMMA SameMeans ==
  ASSUME NEW c \in Collection, NEW d \in Collection
  PROVE  Same(c, d) <=>
           /\ c.generated = d.generated /\ c.guard = d.guard /\ c.marker = d.marker
           /\ \A f \in Folders :
                /\ DOMAIN c.items[f] = DOMAIN d.items[f]
                /\ \A i \in DOMAIN c.items[f] : Clean(c.items[f][i]) = Clean(d.items[f][i])
<1> DEFINE I(b) == [f \in Folders |-> [i \in DOMAIN b.items[f] |-> Clean(b.items[f][i])]]
           M(b) == [items |-> I(b), generated |-> b.generated, guard |-> b.guard,
                    marker |-> b.marker]
<1>1. ASSUME NEW b \in Collection PROVE Map(b, Clean) = M(b)
  <2>1. Map(b, Clean) = [b EXCEPT !.items = I(b)]
    BY DEF Map
  <2> HIDE DEF I
  <2> QED BY <1>1, <2>1, WithItems
<1>2. Same(c, d) <=> M(c) = M(d)
  BY <1>1 DEF Same
<1>3. I(c) = I(d) <=> \A f \in Folders :
                /\ DOMAIN c.items[f] = DOMAIN d.items[f]
                /\ \A i \in DOMAIN c.items[f] : Clean(c.items[f][i]) = Clean(d.items[f][i])
  <2> DEFINE J(b, f) == [i \in DOMAIN b.items[f] |-> Clean(b.items[f][i])]
  <2>1. I(c) = I(d) <=> \A f \in Folders : J(c, f) = J(d, f)
    OBVIOUS
  <2>2. ASSUME NEW f \in Folders
        PROVE  J(c, f) = J(d, f) <=>
                /\ DOMAIN c.items[f] = DOMAIN d.items[f]
                /\ \A i \in DOMAIN c.items[f] : Clean(c.items[f][i]) = Clean(d.items[f][i])
    OBVIOUS
  <2> QED BY <2>1, <2>2
<1> HIDE DEF I
<1> QED BY <1>2, <1>3

-----------------------------------------------------------------------------
(* What is published.                                                        *)

Says(c, k) == [contract |-> k, digest |-> c]

\* A canonical collection: nothing in it comes from Postman.
Raw(c) ==
  /\ c \in Collection /\ c.marker = None
  /\ \A f \in Folders : \A i \in DOMAIN c.items[f] : c.items[f][i].id = None

LEMMA PublishedFields ==
  ASSUME NEW c \in Collection, NEW k \in Contracts, c.marker = None
  PROVE  /\ Published(c, k) \in Collection
         /\ Published(c, k).generated = FALSE
         /\ Published(c, k).guard = c.guard
         /\ Published(c, k).marker = Says(c, k) /\ Says(c, k) \in Marker
         /\ \A f \in Folders :
              /\ DOMAIN Published(c, k).items[f] = DOMAIN c.items[f]
              /\ \A i \in DOMAIN c.items[f] :
                   Published(c, k).items[f][i] = [c.items[f][i] EXCEPT !.scenario = "none"]
<1> DEFINE S == [f \in Folders |-> [i \in DOMAIN c.items[f] |->
                    [c.items[f][i] EXCEPT !.scenario = "none"]]]
<1>1. Says(c, k) \in Marker
  BY DEF Says, Marker, Collection
<1>2. S \in [Folders -> Seq(Request)]
  <2>1. ASSUME NEW f \in Folders PROVE S[f] \in Seq(Request)
    <3>1. ASSUME NEW r \in Request PROVE [r EXCEPT !.scenario = "none"] \in Request
      BY <3>1 DEF Request
    <3>2. S[f] \in [1..Len(c.items[f]) -> Request] /\ Len(c.items[f]) \in Nat
      BY <3>1, ItemsType
    <3> QED BY <3>2, SeqOf
  <2> QED BY <2>1
<1>3. Published(c, k) = [items |-> S, generated |-> FALSE, guard |-> c.guard,
                         marker |-> Says(c, k)]
  <2> HIDE DEF S
  <2>1. Publishable(c) = [[c EXCEPT !.items = S] EXCEPT !.generated = FALSE]
    BY DEF Publishable, Map, S
  <2>2. Publishable(c) = [items |-> S, generated |-> FALSE, guard |-> c.guard,
                          marker |-> c.marker]
    BY <2>1, WithItems
  <2>3. Publishable(c) \in Collection
    BY <1>2, <2>2 DEF Collection
  <2>4. Published(c, k) = [Publishable(c) EXCEPT !.marker = Says(c, k)]
    BY DEF Published, Digest, Says
  <2>5. Published(c, k) = [items |-> Publishable(c).items, generated |-> Publishable(c).generated,
                           guard |-> Publishable(c).guard, marker |-> Says(c, k)]
    BY <2>3, <2>4, WithMarker
  <2> QED BY <2>2, <2>5
<1>4. c.guard \in Scripts
  BY DEF Collection
<1>5. Published(c, k) \in Collection
  BY <1>1, <1>2, <1>3, <1>4 DEF Collection
<1>6. \A f \in Folders :
        /\ DOMAIN S[f] = DOMAIN c.items[f]
        /\ \A i \in DOMAIN c.items[f] : S[f][i] = [c.items[f][i] EXCEPT !.scenario = "none"]
  OBVIOUS
<1> HIDE DEF S
<1> QED BY <1>1, <1>3, <1>5, <1>6

\* What passed the check goes out and passes it again.
LEMMA PublishedValid ==
  ASSUME NEW c \in Collection, NEW k \in Contracts, c.marker = None, ValidCollection(c)
  PROVE  ValidCollection(Published(c, k))
<1> DEFINE p == Published(c, k)
<1>0. /\ p.generated = FALSE /\ p.guard = c.guard
      /\ p.marker = Says(c, k) /\ Says(c, k) \in Marker
  BY PublishedFields, Zenon
<1>1. p.generated = FALSE /\ p.guard = c.guard /\ p.marker # None
  BY <1>0, NoneAssumption
<1>2. Alike(c, p)
  <2> SUFFICES ASSUME NEW f \in Folders
               PROVE  /\ DOMAIN p.items[f] = DOMAIN c.items[f]
                      /\ \A i \in DOMAIN c.items[f] :
                           LET r == c.items[f][i]
                               s == p.items[f][i]
                           IN  /\ s.op = r.op /\ s.text = r.text /\ s.script = r.script
                               /\ s.scenario \in {"none", r.scenario}
    BY Zenon DEF Alike
  <2>1. /\ DOMAIN p.items[f] = DOMAIN c.items[f]
        /\ \A i \in DOMAIN c.items[f] : p.items[f][i] = [c.items[f][i] EXCEPT !.scenario = "none"]
    BY PublishedFields, Zenon
  <2>2. ASSUME NEW r \in Request
        PROVE  LET s == [r EXCEPT !.scenario = "none"]
               IN  s.op = r.op /\ s.text = r.text /\ s.script = r.script /\ s.scenario = "none"
    BY <2>2 DEF Request
  <2>3. \A i \in DOMAIN c.items[f] : c.items[f][i] \in Request
    BY ItemsType
  <2> HIDE DEF p
  <2>4. ASSUME NEW i \in DOMAIN c.items[f]
        PROVE  LET r == c.items[f][i]
                   s == p.items[f][i]
               IN  /\ s.op = r.op /\ s.text = r.text /\ s.script = r.script
                   /\ s.scenario \in {"none", r.scenario}
    <3>1. p.items[f][i] = [c.items[f][i] EXCEPT !.scenario = "none"] /\ c.items[f][i] \in Request
      BY <2>1, <2>3
    <3> QED BY <2>2, <3>1
  <2> QED BY <2>1, <2>4
<1> HIDE DEF p
<1>3. Generated(p) <=> Generated(c)
  <2>1. c.guard \in Scripts
    BY DEF Collection
  <2>2. c.generated <=> c.guard # "none"
    BY DEF ValidCollection, Generated, Scripts
  <2> QED BY <1>1, <2>2 DEF Generated
<1>4. ValidCollection(p)
  BY <1>1, <1>2, <1>3, ValidAlike
<1> QED BY <1>4 DEF p

-----------------------------------------------------------------------------
(* Ids.                                                                      *)

\* Every request has an id Postman gave out, and no two the same.
Numbered(c, top) ==
  /\ \A f \in Folders : \A i \in DOMAIN c.items[f] :
       c.items[f][i].id \in 1..top /\ c.items[f][i].scenario = "none"
  /\ \A f, g \in Folders : \A i \in DOMAIN c.items[f], j \in DOMAIN c.items[g] :
       c.items[f][i].id = c.items[g][j].id => f = g /\ i = j

\* What is sent to Postman: the same, but for new requests.
HalfNumbered(c, top) ==
  /\ \A f \in Folders : \A i \in DOMAIN c.items[f] :
       c.items[f][i].id \in {None} \union 1..top /\ c.items[f][i].scenario = "none"
  /\ \A f, g \in Folders : \A i \in DOMAIN c.items[f], j \in DOMAIN c.items[g] :
       c.items[f][i].id = c.items[g][j].id /\ c.items[f][i].id # None => f = g /\ i = j

LEMMA ImageFinite ==
  ASSUME NEW S, IsFiniteSet(S), NEW g
  PROVE  IsFiniteSet({g[x] : x \in S})
<1> DEFINE T == {g[x] : x \in S}
           h == [x \in S |-> g[x]]
<1>1. h \in Surjection(S, T)
  <2>1. h \in [S -> T]
    OBVIOUS
  <2>2. \A t \in T : \E x \in S : h[x] = t
    OBVIOUS
  <2> QED BY <2>1, <2>2 DEF Surjection
<1> QED BY <1>1, FS_Surjection

LEMMA NewFinite ==
  ASSUME NEW c \in Collection
  PROVE  IsFiniteSet(New(c)) /\ Cardinality(New(c)) \in Nat
<1> DEFINE In(f) == {<<f, i>> : i \in {j \in DOMAIN c.items[f] : c.items[f][j].id = None}}
<1>1. ASSUME NEW f \in Folders PROVE IsFiniteSet(In(f))
  <2>1. IsFiniteSet(1..Len(c.items[f]))
    BY ItemsType, FS_Interval
  <2>2. IsFiniteSet({j \in DOMAIN c.items[f] : c.items[f][j].id = None})
    BY <2>1, ItemsType, FS_Subset
  <2> DEFINE g == [i \in {j \in DOMAIN c.items[f] : c.items[f][j].id = None} |-> <<f, i>>]
  <2>3. In(f) = {g[i] : i \in {j \in DOMAIN c.items[f] : c.items[f][j].id = None}}
    OBVIOUS
  <2> HIDE DEF In, g
  <2> QED BY <2>2, <2>3, ImageFinite
<1>2. IsFiniteSet({In(f) : f \in Folders})
  <2> DEFINE g == [f \in Folders |-> In(f)]
  <2> HIDE DEF In
  <2>1. {In(f) : f \in Folders} = {g[f] : f \in Folders}
    OBVIOUS
  <2> HIDE DEF g
  <2> QED BY <2>1, FoldersAssumption, ImageFinite
<1>3. IsFiniteSet(UNION {In(f) : f \in Folders})
  BY <1>1, <1>2, FS_UNION
<1> QED BY <1>3, FS_CardinalityType DEF New

LEMMA NumberingExists ==
  ASSUME NEW c \in Collection, lastId \in Nat
  PROVE  /\ (CHOOSE n \in Numberings(c) : TRUE) \in Numberings(c)
         /\ Cardinality(New(c)) \in Nat
<1>1. IsFiniteSet(New(c)) /\ Cardinality(New(c)) \in Nat
  BY NewFinite
<1> DEFINE N == Cardinality(New(c))
<1>2. PICK b : b \in Bijection(New(c), 1..N)
  BY <1>1, FS_CardinalityType, Fun_ExistsBijSymmetric DEF ExistsBijection
<1>3. /\ b \in [New(c) -> 1..N]
      /\ \A x, y \in New(c) : b[x] = b[y] => x = y
  BY <1>2 DEF Bijection, Injection, IsInjective
<1> DEFINE n == [x \in New(c) |-> lastId + b[x]]
<1> HIDE DEF N
<1>4. n \in [New(c) -> lastId + 1 .. lastId + N]
  BY <1>1, <1>3 DEF N
<1>5. \A x, y \in New(c) : n[x] = n[y] => x = y
  BY <1>3
<1>6. n \in Numberings(c)
  BY <1>4, <1>5 DEF Numberings, IsInjective, N
<1> QED BY <1>1, <1>6

\* What Postman makes of a collection it takes in.
Taken(r, id) == [r EXCEPT !.id = IF @ = None THEN id ELSE @,
                          !.disabled = IF @ = "false" THEN "absent" ELSE @,
                          !.response = "empty"]

LEMMA TakenFields ==
  ASSUME NEW r \in Request, NEW id \in Nat
  PROVE  LET s == Taken(r, id)
         IN  /\ s \in Request
             /\ s.op = r.op /\ s.name = r.name /\ s.prefixed = r.prefixed /\ s.text = r.text
             /\ s.script = r.script /\ s.scenario = r.scenario
             /\ s.disabled = "true" <=> r.disabled = "true"
             /\ s.id = IF r.id = None THEN id ELSE r.id
<1>1. Taken(r, id) \in Request
  BY DEF Taken, Request
<1>2. Taken(r, id).disabled = IF r.disabled = "false" THEN "absent" ELSE r.disabled
  BY DEF Taken, Request
<1> QED BY <1>1, <1>2 DEF Taken, Request

LEMMA StoredFields ==
  ASSUME NEW c \in Collection, lastId \in Nat, NEW n \in Numberings(c)
  PROVE  LET s == Stored(c, n)
         IN  /\ s \in Collection
             /\ s.generated = c.generated /\ s.guard = c.guard /\ s.marker = c.marker
             /\ \A f \in Folders :
                  /\ DOMAIN s.items[f] = DOMAIN c.items[f]
                  /\ \A i \in DOMAIN c.items[f] :
                       \E id \in Nat :
                         /\ c.items[f][i].id = None =>
                              /\ <<f, i>> \in New(c) /\ id = n[<<f, i>>]
                              /\ id \in lastId + 1 .. lastId + Cardinality(New(c))
                         /\ s.items[f][i] = Taken(c.items[f][i], id)
<1> DEFINE s == Stored(c, n)
           S == [f \in Folders |-> [i \in DOMAIN c.items[f] |-> Taken(c.items[f][i], n[<<f, i>>])]]
<1>1. s = [items |-> S, generated |-> c.generated, guard |-> c.guard, marker |-> c.marker]
  <2>1. s = [c EXCEPT !.items = S]
    BY DEF Stored, Taken
  <2> HIDE DEF S
  <2> QED BY <2>1, WithItems
<1>2. ASSUME NEW f \in Folders, NEW i \in DOMAIN c.items[f]
      PROVE  \E id \in Nat :
               /\ c.items[f][i].id = None =>
                    /\ <<f, i>> \in New(c) /\ id = n[<<f, i>>]
                    /\ id \in lastId + 1 .. lastId + Cardinality(New(c))
               /\ S[f][i] = Taken(c.items[f][i], id)
  <2>1. CASE c.items[f][i].id = None
    <3>1. <<f, i>> \in New(c)
      BY <2>1 DEF New
    <3>2. n[<<f, i>>] \in lastId + 1 .. lastId + Cardinality(New(c))
      BY <3>1 DEF Numberings
    <3>3. n[<<f, i>>] \in Nat
      BY <3>2, NewFinite
    <3> QED BY <3>1, <3>2, <3>3
  <2>2. CASE c.items[f][i].id # None
    <3>1. \A id : Taken(c.items[f][i], id) = Taken(c.items[f][i], 0)
      BY <2>2, ItemsType DEF Taken, Request
    <3>2. S[f][i] = Taken(c.items[f][i], n[<<f, i>>])
      OBVIOUS
    <3> HIDE DEF S
    <3> QED BY <2>2, <3>1, <3>2
  <2> QED BY <2>1, <2>2
<1>3. S \in [Folders -> Seq(Request)]
  <2>1. ASSUME NEW f \in Folders PROVE S[f] \in Seq(Request)
    <3>1. \A i \in DOMAIN c.items[f] : S[f][i] \in Request
      <4> SUFFICES ASSUME NEW i \in DOMAIN c.items[f] PROVE S[f][i] \in Request
        OBVIOUS
      <4>1. PICK id \in Nat : S[f][i] = Taken(c.items[f][i], id)
        BY <1>2
      <4>2. c.items[f][i] \in Request
        BY ItemsType
      <4> HIDE DEF S
      <4> QED BY <4>1, <4>2, TakenFields
    <3>2. S[f] = [i \in DOMAIN c.items[f] |-> S[f][i]]
      OBVIOUS
    <3>3. Len(c.items[f]) \in Nat /\ DOMAIN c.items[f] = 1..Len(c.items[f])
      BY ItemsType
    <3> HIDE DEF S
    <3>4. S[f] \in [1..Len(c.items[f]) -> Request]
      BY <3>1, <3>2, <3>3
    <3> QED BY <3>3, <3>4, SeqOf
  <2> QED BY <2>1
<1>4. \A f \in Folders : DOMAIN S[f] = DOMAIN c.items[f]
  OBVIOUS
<1> HIDE DEF S
<1>5. s \in Collection
  BY <1>1, <1>3 DEF Collection
<1>6. s.items = S /\ s.generated = c.generated /\ s.guard = c.guard /\ s.marker = c.marker
  BY <1>1
<1> HIDE DEF s
<1>7. \A f \in Folders :
        /\ DOMAIN s.items[f] = DOMAIN c.items[f]
        /\ \A i \in DOMAIN c.items[f] :
             \E id \in Nat :
               /\ c.items[f][i].id = None =>
                    /\ <<f, i>> \in New(c) /\ id = n[<<f, i>>]
                    /\ id \in lastId + 1 .. lastId + Cardinality(New(c))
               /\ s.items[f][i] = Taken(c.items[f][i], id)
  BY <1>2, <1>4, <1>6
<1> QED BY <1>5, <1>6, <1>7 DEF s

\* The same requests in the same places, but for their ids and for what Postman
\* adds to or takes from every request.
Twin(r, s) ==
  /\ s.op = r.op /\ s.name = r.name /\ s.prefixed = r.prefixed /\ s.text = r.text
  /\ s.script = r.script /\ s.scenario = r.scenario
  /\ s.disabled = "true" <=> r.disabled = "true"
Twins(c, d) ==
  /\ d.generated = c.generated /\ d.guard = c.guard /\ d.marker = c.marker
  /\ \A f \in Folders :
       /\ DOMAIN d.items[f] = DOMAIN c.items[f]
       /\ \A i \in DOMAIN c.items[f] : Twin(c.items[f][i], d.items[f][i])

LEMMA TwinsValid ==
  ASSUME NEW c, NEW d, Twins(c, d), ValidCollection(c)
  PROVE  ValidCollection(d)
<1>1. Alike(c, d)
  BY DEF Twins, Twin, Alike
<1>2. Generated(d) <=> Generated(c)
  BY DEF Twins, Generated
<1> QED BY <1>1, <1>2, ValidAlike DEF Twins

LEMMA StoreKeeps ==
  ASSUME NEW c \in Collection, lastId \in Nat, HalfNumbered(c, lastId), Store(c)
  PROVE  /\ remote' \in Collection /\ lastId' \in Nat
         /\ Twins(c, remote') /\ Numbered(remote', lastId')
         /\ \A f \in Folders : \A i \in DOMAIN c.items[f] :
              IF c.items[f][i].id = None THEN remote'.items[f][i].id > lastId
              ELSE remote'.items[f][i].id = c.items[f][i].id
<1> DEFINE n == CHOOSE m \in Numberings(c) : TRUE
           N == Cardinality(New(c))
<1>1. n \in Numberings(c) /\ N \in Nat
  BY NumberingExists
<1>2. remote' = Stored(c, n) /\ lastId' = lastId + N
  BY DEF Store
<1> HIDE DEF n, N
<1>3. lastId' \in Nat
  BY <1>1, <1>2
<1>4. /\ remote' \in Collection
      /\ remote'.generated = c.generated /\ remote'.guard = c.guard /\ remote'.marker = c.marker
      /\ \A f \in Folders : DOMAIN remote'.items[f] = DOMAIN c.items[f]
  BY <1>1, <1>2, StoredFields
<1>5. ASSUME NEW f \in Folders, NEW i \in DOMAIN c.items[f]
      PROVE  LET r == c.items[f][i]
                 s == remote'.items[f][i]
             IN  /\ Twin(r, s)
                 /\ r.id = None => /\ <<f, i>> \in New(c) /\ s.id = n[<<f, i>>]
                                   /\ s.id \in lastId + 1 .. lastId + N
                 /\ r.id # None => s.id = r.id
  <2>1. PICK id \in Nat :
          /\ c.items[f][i].id = None =>
               /\ <<f, i>> \in New(c) /\ id = n[<<f, i>>]
               /\ id \in lastId + 1 .. lastId + N
          /\ remote'.items[f][i] = Taken(c.items[f][i], id)
    BY <1>1, <1>2, StoredFields DEF N
  <2>2. c.items[f][i] \in Request
    BY ItemsType
  <2>3. /\ Twin(c.items[f][i], Taken(c.items[f][i], id))
        /\ Taken(c.items[f][i], id).id = IF c.items[f][i].id = None THEN id ELSE c.items[f][i].id
    BY <2>2, TakenFields DEF Twin
  <2> QED BY <2>1, <2>3
<1>6. Twins(c, remote')
  BY <1>4, <1>5 DEF Twins
<1>7. ASSUME NEW f \in Folders, NEW i \in DOMAIN remote'.items[f]
      PROVE  remote'.items[f][i].id \in 1..lastId' /\ remote'.items[f][i].scenario = "none"
  <2>1. i \in DOMAIN c.items[f]
    BY <1>4
  <2>2. c.items[f][i].id \in {None} \union 1..lastId /\ c.items[f][i].scenario = "none"
    BY <2>1 DEF HalfNumbered
  <2>3. remote'.items[f][i].scenario = "none"
    BY <1>5, <2>1, <2>2 DEF Twin
  <2>4. remote'.items[f][i].id \in (lastId + 1 .. lastId + N) \union 1..lastId
    BY <1>5, <2>1, <2>2
  <2> QED BY <1>1, <1>2, <2>3, <2>4
<1>8. ASSUME NEW f \in Folders, NEW g \in Folders,
             NEW i \in DOMAIN remote'.items[f], NEW j \in DOMAIN remote'.items[g],
             remote'.items[f][i].id = remote'.items[g][j].id
      PROVE  f = g /\ i = j
  <2>1. i \in DOMAIN c.items[f] /\ j \in DOMAIN c.items[g]
    BY <1>4
  <2> DEFINE r == c.items[f][i]
             q == c.items[g][j]
  <2>2. /\ r.id = None => /\ <<f, i>> \in New(c) /\ remote'.items[f][i].id = n[<<f, i>>]
                          /\ remote'.items[f][i].id > lastId
        /\ r.id # None => remote'.items[f][i].id = r.id /\ remote'.items[f][i].id \in 1..lastId
    BY <1>5, <2>1 DEF HalfNumbered
  <2>3. /\ q.id = None => /\ <<g, j>> \in New(c) /\ remote'.items[g][j].id = n[<<g, j>>]
                          /\ remote'.items[g][j].id > lastId
        /\ q.id # None => remote'.items[g][j].id = q.id /\ remote'.items[g][j].id \in 1..lastId
    BY <1>5, <2>1 DEF HalfNumbered
  <2>4. CASE r.id = None /\ q.id = None
    <3>1. <<f, i>> \in New(c) /\ <<g, j>> \in New(c) /\ n[<<f, i>>] = n[<<g, j>>]
      BY <1>8, <2>2, <2>3, <2>4
    <3>2. <<f, i>> = <<g, j>>
      BY <1>1, <3>1 DEF Numberings, IsInjective
    <3> QED BY <3>2
  <2>5. CASE r.id # None /\ q.id # None
    BY <1>8, <2>1, <2>2, <2>3, <2>5 DEF HalfNumbered
  <2>6. ~(r.id = None /\ q.id # None) /\ ~(r.id # None /\ q.id = None)
    BY <1>8, <2>2, <2>3
  <2> QED BY <2>4, <2>5, <2>6
<1>9. Numbered(remote', lastId')
  BY <1>7, <1>8 DEF Numbered
<1>10. ASSUME NEW f \in Folders, NEW i \in DOMAIN c.items[f]
       PROVE  IF c.items[f][i].id = None THEN remote'.items[f][i].id > lastId
              ELSE remote'.items[f][i].id = c.items[f][i].id
  <2>1. /\ c.items[f][i].id = None => remote'.items[f][i].id \in lastId + 1 .. lastId + N
        /\ c.items[f][i].id # None => remote'.items[f][i].id = c.items[f][i].id
    BY <1>5
  <2> QED BY <1>1, <2>1
<1> QED BY <1>3, <1>4, <1>6, <1>9, <1>10

\* A set of cardinality one has one member.
LEMMA OnlyMember ==
  ASSUME NEW S, IsFiniteSet(S), Cardinality(S) = 1, NEW x \in S, NEW y \in S
  PROVE  x = y
<1> SUFFICES ASSUME x # y PROVE FALSE
  OBVIOUS
<1>1. IsFiniteSet({x}) /\ Cardinality({x}) = 1
  BY FS_Singleton
<1>2. IsFiniteSet({x, y}) /\ Cardinality({x, y}) = 2
  <2>1. Cardinality({x} \cup {y}) = 2 /\ IsFiniteSet({x} \cup {y})
    BY <1>1, FS_AddElement
  <2>2. {x, y} = {x} \cup {y}
    OBVIOUS
  <2> QED BY <2>1, <2>2
<1>3. Cardinality({x, y}) <= Cardinality(S)
  BY FS_Subset
<1> QED BY <1>2, <1>3

LEMMA PlacesFinite ==
  ASSUME NEW c \in Collection, NEW f \in Folders, NEW r
  PROVE  IsFiniteSet(Places(c.items[f], r))
<1>1. IsFiniteSet(1..Len(c.items[f])) /\ DOMAIN c.items[f] = 1..Len(c.items[f])
  BY ItemsType, FS_Interval
<1>2. Places(c.items[f], r) \subseteq DOMAIN c.items[f]
  BY DEF Places
<1> QED BY <1>1, <1>2, FS_Subset

\* Nothing in it has an id or harness metadata: what is published.
Blank(c) ==
  \A f \in Folders : \A i \in DOMAIN c.items[f] :
    c.items[f][i].id = None /\ c.items[f][i].scenario = "none"

\* _preserve_collection_ids.
LEMMA WithIdsFields ==
  ASSUME NEW d \in Collection, NEW c \in Collection, NEW top \in Nat,
         Blank(d), Numbered(c, top)
  PROVE  LET w == WithIds(d, c)
         IN  /\ w \in Collection /\ Twins(d, w) /\ HalfNumbered(w, top)
             /\ \A f \in Folders : \A i \in DOMAIN d.items[f] :
                  IF Matching(d.items[f], c.items[f], d.items[f][i])
                  THEN \E j \in Places(c.items[f], d.items[f][i]) :
                         w.items[f][i].id = c.items[f][j].id
                  ELSE w.items[f][i].id = None
<1> DEFINE w == WithIds(d, c)
           Old(f, i) == CHOOSE j \in Places(c.items[f], d.items[f][i]) : TRUE
           S == [f \in Folders |-> [i \in DOMAIN d.items[f] |->
                  IF Matching(d.items[f], c.items[f], d.items[f][i])
                  THEN [d.items[f][i] EXCEPT !.id = c.items[f][Old(f, i)].id]
                  ELSE d.items[f][i]]]
<1>1. w = [items |-> S, generated |-> d.generated, guard |-> d.guard, marker |-> d.marker]
  <2>1. w = [d EXCEPT !.items = S]
    BY DEF WithIds
  <2> HIDE DEF S
  <2> QED BY <2>1, WithItems
<1>2. ASSUME NEW f \in Folders, NEW i \in DOMAIN d.items[f]
      PROVE  /\ S[f][i] \in Request /\ Twin(d.items[f][i], S[f][i])
             /\ IF Matching(d.items[f], c.items[f], d.items[f][i])
                THEN \E j \in Places(c.items[f], d.items[f][i]) : S[f][i].id = c.items[f][j].id
                ELSE S[f][i].id = None
  <2> DEFINE r == d.items[f][i]
             M == Matching(d.items[f], c.items[f], r)
  <2>1. r \in Request /\ r.id = None
    BY ItemsType DEF Blank
  <2>2. S[f][i] = IF M THEN [r EXCEPT !.id = c.items[f][Old(f, i)].id] ELSE r
    OBVIOUS
  <2>3. CASE M
    <3>1. Places(c.items[f], r) # {}
      BY <2>3, FS_EmptySet DEF Matching
    <3>2. Old(f, i) \in Places(c.items[f], r)
      BY <3>1
    <3>3. Old(f, i) \in DOMAIN c.items[f]
      BY <3>2 DEF Places
    <3>4. c.items[f][Old(f, i)].id \in Nat
      <4>1. c.items[f][Old(f, i)].id \in 1..top
        BY <3>3, Zenon DEF Numbered
      <4> HIDE DEF Old
      <4> QED BY <4>1
    <3> HIDE DEF Old
    <3> DEFINE id == c.items[f][Old(f, i)].id
               s == [r EXCEPT !.id = id]
    <3>5. s \in Request /\ Twin(r, s) /\ s.id = id
      <4>1. id \in Nat
        BY <3>4
      <4> HIDE DEF id, r
      <4> QED BY <2>1, <4>1 DEF Request, Twin
    <3>6. S[f][i] = s
      BY <2>2, <2>3
    <3> HIDE DEF S, s
    <3> QED BY <2>3, <3>2, <3>5, <3>6
  <2>4. CASE ~M
    <3>1. S[f][i] = r
      BY <2>2, <2>4
    <3> HIDE DEF S
    <3> QED BY <2>1, <2>4, <3>1 DEF Twin
  <2> QED BY <2>3, <2>4
<1>3. S \in [Folders -> Seq(Request)]
  <2>1. ASSUME NEW f \in Folders PROVE S[f] \in Seq(Request)
    <3>1. \A i \in DOMAIN d.items[f] : S[f][i] \in Request
      BY <1>2
    <3>2. S[f] = [i \in DOMAIN d.items[f] |-> S[f][i]]
      OBVIOUS
    <3>3. Len(d.items[f]) \in Nat /\ DOMAIN d.items[f] = 1..Len(d.items[f])
      BY ItemsType
    <3> HIDE DEF S
    <3>4. S[f] \in [1..Len(d.items[f]) -> Request]
      BY <3>1, <3>2, <3>3
    <3> QED BY <3>3, <3>4, SeqOf
  <2> QED BY <2>1
<1>4. \A f \in Folders : DOMAIN S[f] = DOMAIN d.items[f]
  OBVIOUS
<1> HIDE DEF S
<1>5. w \in Collection /\ w.items = S
  BY <1>1, <1>3 DEF Collection
<1>6. Twins(d, w)
  BY <1>1, <1>2, <1>4 DEF Twins
<1> HIDE DEF w
<1>7. ASSUME NEW f \in Folders, NEW i \in DOMAIN w.items[f]
      PROVE  w.items[f][i].id \in {None} \union 1..top /\ w.items[f][i].scenario = "none"
  <2>1. i \in DOMAIN d.items[f]
    BY <1>4, <1>5
  <2>2. w.items[f][i].scenario = "none"
    BY <1>2, <1>5, <2>1 DEF Twin, Blank
  <2>3. CASE Matching(d.items[f], c.items[f], d.items[f][i])
    <3>1. PICK j \in Places(c.items[f], d.items[f][i]) : S[f][i].id = c.items[f][j].id
      BY <1>2, <2>1, <2>3
    <3>2. c.items[f][j].id \in 1..top
      BY DEF Places, Numbered
    <3> QED BY <1>5, <2>2, <3>1, <3>2
  <2>4. CASE ~Matching(d.items[f], c.items[f], d.items[f][i])
    BY <1>2, <1>5, <2>1, <2>2, <2>4
  <2> QED BY <2>3, <2>4
<1>8. ASSUME NEW f \in Folders, NEW g \in Folders,
             NEW i \in DOMAIN w.items[f], NEW k \in DOMAIN w.items[g],
             w.items[f][i].id = w.items[g][k].id, w.items[f][i].id # None
      PROVE  f = g /\ i = k
  <2> DEFINE r == d.items[f][i]
             q == d.items[g][k]
  <2>1. i \in DOMAIN d.items[f] /\ k \in DOMAIN d.items[g]
    BY <1>4, <1>5
  <2>2. Matching(d.items[f], c.items[f], r) /\ Matching(d.items[g], c.items[g], q)
    BY <1>2, <1>5, <1>8, <2>1
  <2>3. PICK j \in Places(c.items[f], r) : S[f][i].id = c.items[f][j].id
    BY <1>2, <2>1, <2>2
  <2>4. PICK m \in Places(c.items[g], q) : S[g][k].id = c.items[g][m].id
    BY <1>2, <2>1, <2>2
  <2>5. /\ j \in DOMAIN c.items[f] /\ Identity(c.items[f][j]) = Identity(r)
        /\ m \in DOMAIN c.items[g] /\ Identity(c.items[g][m]) = Identity(q)
    BY <2>3, <2>4 DEF Places
  <2>6. f = g /\ j = m
    BY <1>5, <1>8, <2>3, <2>4, <2>5 DEF Numbered
  <2>7. i \in Places(d.items[f], r) /\ k \in Places(d.items[f], r)
    BY <2>1, <2>5, <2>6 DEF Places
  <2>8. Cardinality(Places(d.items[f], r)) = 1 /\ IsFiniteSet(Places(d.items[f], r))
    BY <2>2, PlacesFinite DEF Matching
  <2>9. i = k
    BY <2>7, <2>8, OnlyMember
  <2> QED BY <2>6, <2>9
<1>9. HalfNumbered(w, top)
  BY <1>7, <1>8 DEF HalfNumbered
<1>10. \A f \in Folders : \A i \in DOMAIN d.items[f] :
         IF Matching(d.items[f], c.items[f], d.items[f][i])
         THEN \E j \in Places(c.items[f], d.items[f][i]) : w.items[f][i].id = c.items[f][j].id
         ELSE w.items[f][i].id = None
  BY <1>2, <1>5
<1> QED BY <1>5, <1>6, <1>9, <1>10 DEF w

-----------------------------------------------------------------------------
(* Edits.                                                                    *)

\* A collection with one folder replaced.
Put(c, f, s) == [c EXCEPT !.items[f] = s]

LEMMA PutFields ==
  ASSUME NEW c \in Collection, NEW f \in Folders, NEW s \in Seq(Request)
  PROVE  LET d == Put(c, f, s)
         IN  /\ d \in Collection
             /\ d.generated = c.generated /\ d.guard = c.guard /\ d.marker = c.marker
             /\ d.items[f] = s
             /\ \A g \in Folders \ {f} : d.items[g] = c.items[g]
<1>1. Put(c, f, s) = [c EXCEPT !.items = [c.items EXCEPT ![f] = s]]
  BY DEF Put
<1>2. c.items \in [Folders -> Seq(Request)]
  BY DEF Collection
<1> DEFINE S == [c.items EXCEPT ![f] = s]
<1>3. S \in [Folders -> Seq(Request)] /\ S[f] = s /\ \A g \in Folders \ {f} : S[g] = c.items[g]
  BY <1>2
<1> HIDE DEF S
<1>4. Put(c, f, s) = [items |-> S, generated |-> c.generated, guard |-> c.guard,
                      marker |-> c.marker]
  BY <1>1, WithItems DEF S
<1>5. Put(c, f, s) \in Collection
  BY <1>3, <1>4 DEF Collection
<1> QED BY <1>3, <1>4, <1>5

LEMMA WithoutIs ==
  ASSUME NEW S, NEW s \in Seq(S), NEW i \in DOMAIN s
  PROVE  /\ Without(s, i) \in Seq(S)
         /\ DOMAIN Without(s, i) = 1..Len(s) - 1
         /\ \A k \in 1..Len(s) - 1 : Without(s, i)[k] = IF k < i THEN s[k] ELSE s[k + 1]
<1> DEFINE a == SubSeq(s, 1, i - 1)
           b == SubSeq(s, i + 1, Len(s))
<1>1. Len(s) \in Nat /\ i \in 1..Len(s) /\ \A k \in 1..Len(s) : s[k] \in S
  OBVIOUS
<1>2. a \in Seq(S) /\ Len(a) = i - 1 /\ \A k \in 1..i - 1 : a[k] = s[k]
  BY <1>1
<1>3. b \in Seq(S) /\ Len(b) = Len(s) - i /\ \A k \in 1..Len(s) - i : b[k] = s[i + k]
  BY <1>1
<1> HIDE DEF a, b
<1>4. /\ a \o b \in Seq(S) /\ Len(a \o b) = Len(s) - 1
      /\ \A k \in 1..Len(s) - 1 : (a \o b)[k] = IF k <= i - 1 THEN a[k] ELSE b[k - (i - 1)]
  <2>1. a \in Seq(S) /\ b \in Seq(S) /\ Len(a) = i - 1 /\ Len(b) = Len(s) - i
    BY <1>2, <1>3
  <2>2. Len(a) + Len(b) = Len(s) - 1
    BY <1>1, <2>1
  <2>3. /\ a \o b \in Seq(S) /\ Len(a \o b) = Len(a) + Len(b)
        /\ \A k \in 1..Len(a) + Len(b) :
             (a \o b)[k] = IF k <= Len(a) THEN a[k] ELSE b[k - Len(a)]
    BY <2>1, ConcatProperties
  <2> QED BY <2>1, <2>2, <2>3
<1>5. DOMAIN (a \o b) = 1..Len(s) - 1
  BY <1>1, <1>4
<1>6. ASSUME NEW k \in 1..Len(s) - 1
      PROVE  (a \o b)[k] = IF k < i THEN s[k] ELSE s[k + 1]
  <2>1. CASE k < i
    BY <1>1, <1>2, <1>4, <2>1
  <2>2. CASE ~(k < i)
    <3>1. k - (i - 1) \in 1..Len(s) - i /\ i + (k - (i - 1)) = k + 1
      BY <1>1, <2>2
    <3>2. (a \o b)[k] = b[k - (i - 1)]
      BY <1>1, <1>4, <2>2
    <3>3. b[k - (i - 1)] = s[i + (k - (i - 1))]
      BY <1>3, <3>1
    <3> QED BY <2>2, <3>1, <3>2, <3>3
  <2> QED BY <2>1, <2>2
<1> QED BY <1>4, <1>5, <1>6 DEF Without, a, b

\* A folder after an edit that brings nothing new: where each of its requests was before.
Kept(s, old) ==
  \E o \in [DOMAIN s -> DOMAIN old] :
    /\ \A k \in DOMAIN s : s[k].id = old[o[k]].id /\ s[k].scenario = old[o[k]].scenario
    /\ \A k, l \in DOMAIN s : o[k] = o[l] => k = l

LEMMA KeptIn ==
  ASSUME NEW c \in Collection, NEW f \in Folders, NEW s \in Seq(Request), Kept(s, c.items[f])
  PROVE  /\ Raw(c) => Raw(Put(c, f, s))
         /\ \A top \in Nat : Numbered(c, top) => Numbered(Put(c, f, s), top)
<1> DEFINE d == Put(c, f, s)
<1>1. /\ d \in Collection /\ d.marker = c.marker /\ d.items[f] = s
      /\ \A g \in Folders \ {f} : d.items[g] = c.items[g]
  BY PutFields
<1>2. PICK o \in [DOMAIN s -> DOMAIN c.items[f]] :
        /\ \A k \in DOMAIN s : /\ s[k].id = c.items[f][o[k]].id
                               /\ s[k].scenario = c.items[f][o[k]].scenario
        /\ \A k, l \in DOMAIN s : o[k] = o[l] => k = l
  BY DEF Kept
<1> HIDE DEF d
<1>3. ASSUME Raw(c) PROVE Raw(d)
  BY <1>1, <1>2, <1>3 DEF Raw
<1>4. ASSUME NEW top \in Nat, Numbered(c, top) PROVE Numbered(d, top)
  <2>1. ASSUME NEW g \in Folders, NEW i \in DOMAIN d.items[g]
        PROVE  d.items[g][i].id \in 1..top /\ d.items[g][i].scenario = "none"
    <3>1. CASE g = f
      BY <1>1, <1>2, <1>4, <2>1, <3>1 DEF Numbered
    <3>2. CASE g # f
      BY <1>1, <1>4, <2>1, <3>2 DEF Numbered
    <3> QED BY <3>1, <3>2
  <2>2. ASSUME NEW g \in Folders, NEW h \in Folders,
               NEW i \in DOMAIN d.items[g], NEW j \in DOMAIN d.items[h],
               d.items[g][i].id = d.items[h][j].id
        PROVE  g = h /\ i = j
    <3>1. CASE g = f /\ h = f
      BY <1>1, <1>2, <1>4, <2>2, <3>1 DEF Numbered
    <3>2. CASE g = f /\ h # f
      BY <1>1, <1>2, <1>4, <2>2, <3>2 DEF Numbered
    <3>3. CASE g # f /\ h = f
      BY <1>1, <1>2, <1>4, <2>2, <3>3 DEF Numbered
    <3>4. CASE g # f /\ h # f
      BY <1>1, <1>4, <2>2, <3>4 DEF Numbered
    <3> QED BY <3>1, <3>2, <3>3, <3>4
  <2> QED BY <2>1, <2>2 DEF Numbered
<1> QED BY <1>3, <1>4 DEF d

LEMMA ChangeKeeps ==
  ASSUME NEW c \in Collection, NEW f \in Folders, NEW i \in DOMAIN c.items[f], NEW r \in Request,
         r.id = c.items[f][i].id, r.scenario = c.items[f][i].scenario
  PROVE  LET s == [c.items[f] EXCEPT ![i] = r]
         IN  s \in Seq(Request) /\ Kept(s, c.items[f])
<1> DEFINE t == c.items[f]
           s == [t EXCEPT ![i] = r]
           o == [k \in DOMAIN t |-> k]
<1>1. t \in Seq(Request) /\ i \in DOMAIN t
  BY ItemsType
<1>2. r.id = t[i].id /\ r.scenario = t[i].scenario
  OBVIOUS
<1> HIDE DEF t
<1>3. s \in Seq(Request) /\ DOMAIN s = DOMAIN t
  BY <1>1
<1>4. /\ o \in [DOMAIN s -> DOMAIN t]
      /\ \A k \in DOMAIN s : s[k].id = t[o[k]].id /\ s[k].scenario = t[o[k]].scenario
      /\ \A k, l \in DOMAIN s : o[k] = o[l] => k = l
  BY <1>1, <1>2, <1>3
<1> HIDE DEF o, s
<1>5. Kept(s, t)
  BY <1>4 DEF Kept
<1> QED BY <1>3, <1>5 DEF s, t

LEMMA RemovalKeeps ==
  ASSUME NEW c \in Collection, NEW f \in Folders, NEW i \in DOMAIN c.items[f]
  PROVE  LET s == Without(c.items[f], i)
         IN  s \in Seq(Request) /\ Kept(s, c.items[f])
<1> DEFINE t == c.items[f]
           s == Without(t, i)
           o == [k \in 1..Len(t) - 1 |-> IF k < i THEN k ELSE k + 1]
<1>1. t \in Seq(Request) /\ i \in DOMAIN t /\ DOMAIN t = 1..Len(t) /\ Len(t) \in Nat
  BY ItemsType
<1> HIDE DEF t
<1>2. /\ s \in Seq(Request) /\ DOMAIN s = 1..Len(t) - 1
      /\ \A k \in 1..Len(t) - 1 : s[k] = IF k < i THEN t[k] ELSE t[k + 1]
  BY <1>1, WithoutIs
<1> HIDE DEF s
<1>3. o \in [DOMAIN s -> DOMAIN t]
  BY <1>1, <1>2
<1>4. \A k \in DOMAIN s : s[k] = t[o[k]]
  BY <1>1, <1>2
<1>5. \A k, l \in DOMAIN s : o[k] = o[l] => k = l
  BY <1>1, <1>2
<1> HIDE DEF o
<1>6. Kept(s, t)
  BY <1>3, <1>4, <1>5 DEF Kept
<1> QED BY <1>2, <1>6 DEF s, t

LEMMA AppendIs ==
  ASSUME NEW S, NEW s \in Seq(S), NEW r \in S
  PROVE  /\ Append(s, r) \in Seq(S)
         /\ DOMAIN Append(s, r) = 1..Len(s) + 1
         /\ Append(s, r)[Len(s) + 1] = r
         /\ \A k \in 1..Len(s) : Append(s, r)[k] = s[k]
OBVIOUS

\* No request has this id.
Unused(c, id) == \A f \in Folders : \A i \in DOMAIN c.items[f] : c.items[f][i].id # id

LEMMA AppendKeeps ==
  ASSUME NEW c \in Collection, NEW f \in Folders, NEW r \in Request
  PROVE  LET d == Put(c, f, Append(c.items[f], r))
         IN  /\ d \in Collection
             /\ d.generated = c.generated /\ d.guard = c.guard /\ d.marker = c.marker
             /\ Raw(c) /\ r.id = None => Raw(d)
             /\ \A top, up \in Nat :
                  /\ Numbered(c, top) /\ top <= up
                  /\ r.id \in 1..up /\ r.scenario = "none" /\ Unused(c, r.id)
                  => Numbered(d, up)
<1> DEFINE t == c.items[f]
           s == Append(t, r)
           d == Put(c, f, s)
           n == Len(t) + 1
<1>1. t \in Seq(Request) /\ DOMAIN t = 1..Len(t) /\ Len(t) \in Nat
  BY ItemsType
<1> HIDE DEF t
<1>2. /\ s \in Seq(Request) /\ DOMAIN s = 1..n /\ s[n] = r
      /\ \A k \in 1..Len(t) : s[k] = t[k]
  BY <1>1, AppendIs
<1>3. \A k \in DOMAIN s \ {n} : k \in DOMAIN t /\ s[k] = t[k]
  BY <1>1, <1>2
<1> HIDE DEF s
<1>4. /\ d \in Collection /\ d.items[f] = s
      /\ d.generated = c.generated /\ d.guard = c.guard /\ d.marker = c.marker
      /\ \A g \in Folders \ {f} : d.items[g] = c.items[g]
  BY <1>2, PutFields
<1> HIDE DEF d, n
<1>5. \A g \in Folders : \A i \in DOMAIN d.items[g] :
        \/ g = f /\ i = n /\ d.items[g][i] = r
        \/ i \in DOMAIN c.items[g] /\ d.items[g][i] = c.items[g][i]
  BY <1>2, <1>3, <1>4 DEF t
<1>6. ASSUME Raw(c), r.id = None PROVE Raw(d)
  BY <1>4, <1>5, <1>6 DEF Raw
<1>7. ASSUME NEW top \in Nat, NEW up \in Nat, Numbered(c, top), top <= up,
             r.id \in 1..up, r.scenario = "none", Unused(c, r.id)
      PROVE  Numbered(d, up)
  <2>1. ASSUME NEW g \in Folders, NEW i \in DOMAIN d.items[g]
        PROVE  d.items[g][i].id \in 1..up /\ d.items[g][i].scenario = "none"
    <3>1. CASE d.items[g][i] = r
      BY <1>7, <3>1
    <3>2. CASE i \in DOMAIN c.items[g] /\ d.items[g][i] = c.items[g][i]
      <4>1. c.items[g][i].id \in 1..top /\ c.items[g][i].scenario = "none"
        BY <1>7, <3>2 DEF Numbered
      <4> QED BY <1>7, <3>2, <4>1
    <3> QED BY <1>5, <3>1, <3>2
  <2>2. ASSUME NEW g \in Folders, NEW h \in Folders,
               NEW i \in DOMAIN d.items[g], NEW j \in DOMAIN d.items[h],
               d.items[g][i].id = d.items[h][j].id
        PROVE  g = h /\ i = j
    <3>1. \A p \in Folders : \A q \in DOMAIN c.items[p] : c.items[p][q].id # r.id
      BY <1>7 DEF Unused
    <3>2. CASE i \in DOMAIN c.items[g] /\ d.items[g][i] = c.items[g][i]
               /\ j \in DOMAIN c.items[h] /\ d.items[h][j] = c.items[h][j]
      BY <1>7, <2>2, <3>2 DEF Numbered
    <3> QED BY <1>5, <2>2, <3>1, <3>2
  <2> QED BY <2>1, <2>2 DEF Numbered
<1> QED BY <1>4, <1>6, <1>7 DEF d, s, t

\* A request moved to another folder.
LEMMA MoveKeeps ==
  ASSUME NEW c \in Collection, NEW f \in Folders, NEW g \in Folders \ {f},
         NEW i \in DOMAIN c.items[f]
  PROVE  LET d == Put(Put(c, f, Without(c.items[f], i)), g, Append(c.items[g], c.items[f][i]))
         IN  /\ d \in Collection
             /\ d.generated = c.generated /\ d.guard = c.guard /\ d.marker = c.marker
             /\ Raw(c) => Raw(d)
             /\ \A top \in Nat : Numbered(c, top) => Numbered(d, top)
<1> DEFINE t == c.items[f]
           r == t[i]
           s == Without(t, i)
           b == Put(c, f, s)
           d == Put(b, g, Append(b.items[g], r))
<1>1. /\ r \in Request /\ t \in Seq(Request) /\ i \in DOMAIN t
      /\ DOMAIN t = 1..Len(t) /\ Len(t) \in Nat
  BY ItemsType
<1>2. s \in Seq(Request) /\ Kept(s, t)
  BY RemovalKeeps
<1>3. /\ b \in Collection /\ b.items[f] = s
      /\ b.generated = c.generated /\ b.guard = c.guard /\ b.marker = c.marker
      /\ \A h \in Folders \ {f} : b.items[h] = c.items[h]
  BY <1>2, PutFields
<1>4. /\ Raw(c) => Raw(b)
      /\ \A top \in Nat : Numbered(c, top) => Numbered(b, top)
  BY <1>2, KeptIn
<1>5. ASSUME NEW top \in Nat, Numbered(c, top) PROVE Unused(b, r.id)
  <2> SUFFICES ASSUME NEW h \in Folders, NEW k \in DOMAIN b.items[h]
               PROVE  b.items[h][k].id # r.id
    BY DEF Unused
  <2>1. CASE h # f
    BY <1>3, <1>5, <2>1 DEF Numbered
  <2>2. CASE h = f
    <3>1. DOMAIN s = 1..Len(t) - 1 /\ s[k] = IF k < i THEN t[k] ELSE t[k + 1]
      BY <1>1, <1>3, <2>2, WithoutIs
    <3>2. \E m \in DOMAIN t : m # i /\ s[k] = t[m]
      <4>1. k \in 1..Len(t) - 1 /\ i \in 1..Len(t)
        BY <1>1, <1>3, <2>2, <3>1
      <4> HIDE DEF s, t, r, b
      <4> QED BY <1>1, <3>1, <4>1
    <3> QED BY <1>3, <1>5, <2>2, <3>2 DEF Numbered
  <2> QED BY <2>1, <2>2
<1> HIDE DEF b
<1>6. /\ d \in Collection
      /\ d.generated = b.generated /\ d.guard = b.guard /\ d.marker = b.marker
      /\ Raw(b) /\ r.id = None => Raw(d)
      /\ \A top, up \in Nat :
           /\ Numbered(b, top) /\ top <= up
           /\ r.id \in 1..up /\ r.scenario = "none" /\ Unused(b, r.id)
           => Numbered(d, up)
  BY <1>1, <1>3, AppendKeeps
<1>7. Raw(c) => r.id = None
  BY DEF Raw
<1>8. \A top \in Nat : Numbered(c, top) => r.id \in 1..top /\ r.scenario = "none"
  BY DEF Numbered
<1> HIDE DEF d, r, s, t
<1>9. \A top \in Nat : Numbered(c, top) => Numbered(d, top)
  BY <1>4, <1>5, <1>6, <1>8
<1>10. b.items[g] = c.items[g]
  BY <1>3
<1> QED BY <1>3, <1>4, <1>6, <1>7, <1>9, <1>10 DEF d, b, s, t, r

\* What one edit does, whoever makes it: it changes or removes a request, moves one to
\* another folder, adds one with the given id, or changes the guard.
LEMMA EditedCases ==
  ASSUME NEW c \in Collection, NEW id \in Nat \union {None}, NEW d \in Edited(c, id)
  PROVE  \/ \E f \in Folders : \E s \in Seq(Request) : Kept(s, c.items[f]) /\ d = Put(c, f, s)
         \/ \E f \in Folders : \E g \in Folders \ {f} : \E i \in DOMAIN c.items[f] :
              d = Put(Put(c, f, Without(c.items[f], i)), g, Append(c.items[g], c.items[f][i]))
         \/ \E f \in Folders : \E r \in Request :
              /\ r.id = id /\ r.scenario = "none"
              /\ d = Put(c, f, Append(c.items[f], r))
         \/ \E x \in Scripts : d = [c EXCEPT !.guard = x]
<1> DEFINE Guard == {[c EXCEPT !.guard = x] : x \in {"none", "bad"}}
<1>1. \/ \E f \in Folders : \E i \in DOMAIN c.items[f] : d \in Changed(c, f, i)
      \/ \E f \in Folders : d \in Extended(c, f, id)
      \/ d \in Guard
  BY DEF Edited
<1>2. ASSUME NEW f \in Folders, NEW i \in DOMAIN c.items[f], NEW r \in Request,
             r.id = c.items[f][i].id, r.scenario = c.items[f][i].scenario,
             d = [c EXCEPT !.items[f][i] = r]
      PROVE  \E s \in Seq(Request) : Kept(s, c.items[f]) /\ d = Put(c, f, s)
  <2>1. d = Put(c, f, [c.items[f] EXCEPT ![i] = r])
    BY <1>2 DEF Put
  <2> QED BY <1>2, <2>1, ChangeKeeps
<1>3. ASSUME NEW f \in Folders, NEW i \in DOMAIN c.items[f], d \in Changed(c, f, i)
      PROVE  \/ \E s \in Seq(Request) : Kept(s, c.items[f]) /\ d = Put(c, f, s)
             \/ \E g \in Folders \ {f} :
                  d = Put(Put(c, f, Without(c.items[f], i)), g, Append(c.items[g], c.items[f][i]))
  <2> DEFINE q == c.items[f][i]
  <2>1. q \in Request
    BY ItemsType
  <2>2. \/ \E x \in {"other", "unsafe"} : d = [c EXCEPT !.items[f][i].text = x]
        \/ \E x \in {"false", "true"} : d = [c EXCEPT !.items[f][i].disabled = x]
        \/ d = [c EXCEPT !.items[f][i].prefixed = TRUE]
        \/ \E x \in Names : d = [c EXCEPT !.items[f][i].name = x]
        \/ \E x \in {"good", "bad"} : d = [c EXCEPT !.items[f][i].script = x]
        \/ d = [c EXCEPT !.items[f] = Without(@, i)]
        \/ \E g \in Folders \ {f} :
             d = [c EXCEPT !.items[f] = Without(@, i), !.items[g] = Append(@, c.items[f][i])]
    BY <1>3 DEF Changed
  <2>3. ASSUME NEW x \in {"other", "unsafe"}, d = [c EXCEPT !.items[f][i].text = x]
        PROVE  \E s \in Seq(Request) : Kept(s, c.items[f]) /\ d = Put(c, f, s)
    <3>1. [q EXCEPT !.text = x] \in Request
          /\ [q EXCEPT !.text = x].id = q.id /\ [q EXCEPT !.text = x].scenario = q.scenario
      BY <2>1 DEF Request
    <3>2. d = [c EXCEPT !.items[f][i] = [q EXCEPT !.text = x]]
      BY <2>3
    <3> QED BY <1>2, <3>1, <3>2
  <2>4. ASSUME NEW x \in {"false", "true"}, d = [c EXCEPT !.items[f][i].disabled = x]
        PROVE  \E s \in Seq(Request) : Kept(s, c.items[f]) /\ d = Put(c, f, s)
    <3>1. [q EXCEPT !.disabled = x] \in Request
          /\ [q EXCEPT !.disabled = x].id = q.id /\ [q EXCEPT !.disabled = x].scenario = q.scenario
      BY <2>1 DEF Request
    <3>2. d = [c EXCEPT !.items[f][i] = [q EXCEPT !.disabled = x]]
      BY <2>4
    <3> QED BY <1>2, <3>1, <3>2
  <2>5. ASSUME d = [c EXCEPT !.items[f][i].prefixed = TRUE]
        PROVE  \E s \in Seq(Request) : Kept(s, c.items[f]) /\ d = Put(c, f, s)
    <3>1. [q EXCEPT !.prefixed = TRUE] \in Request
          /\ [q EXCEPT !.prefixed = TRUE].id = q.id
          /\ [q EXCEPT !.prefixed = TRUE].scenario = q.scenario
      BY <2>1 DEF Request
    <3>2. d = [c EXCEPT !.items[f][i] = [q EXCEPT !.prefixed = TRUE]]
      BY <2>5
    <3> QED BY <1>2, <3>1, <3>2
  <2>6. ASSUME NEW x \in Names, d = [c EXCEPT !.items[f][i].name = x]
        PROVE  \E s \in Seq(Request) : Kept(s, c.items[f]) /\ d = Put(c, f, s)
    <3>1. [q EXCEPT !.name = x] \in Request
          /\ [q EXCEPT !.name = x].id = q.id /\ [q EXCEPT !.name = x].scenario = q.scenario
      BY <2>1 DEF Request
    <3>2. d = [c EXCEPT !.items[f][i] = [q EXCEPT !.name = x]]
      BY <2>6
    <3> QED BY <1>2, <3>1, <3>2
  <2>7. ASSUME NEW x \in {"good", "bad"}, d = [c EXCEPT !.items[f][i].script = x]
        PROVE  \E s \in Seq(Request) : Kept(s, c.items[f]) /\ d = Put(c, f, s)
    <3>1. [q EXCEPT !.script = x] \in Request
          /\ [q EXCEPT !.script = x].id = q.id /\ [q EXCEPT !.script = x].scenario = q.scenario
      BY <2>1 DEF Request, Scripts
    <3>2. d = [c EXCEPT !.items[f][i] = [q EXCEPT !.script = x]]
      BY <2>7
    <3> QED BY <1>2, <3>1, <3>2
  <2>8. ASSUME d = [c EXCEPT !.items[f] = Without(@, i)]
        PROVE  \E s \in Seq(Request) : Kept(s, c.items[f]) /\ d = Put(c, f, s)
    <3>1. d = Put(c, f, Without(c.items[f], i))
      BY <2>8 DEF Put
    <3> QED BY <3>1, RemovalKeeps
  <2>9. ASSUME NEW g \in Folders \ {f},
               d = [c EXCEPT !.items[f] = Without(@, i), !.items[g] = Append(@, c.items[f][i])]
        PROVE  d = Put(Put(c, f, Without(c.items[f], i)), g, Append(c.items[g], c.items[f][i]))
    <3> DEFINE b == Put(c, f, Without(c.items[f], i))
    <3>1. d = [b EXCEPT !.items[g] = Append(@, c.items[f][i])]
      BY <2>9 DEF Put
    <3>2. b.items[g] = c.items[g]
      BY PutFields, RemovalKeeps
    <3> HIDE DEF b
    <3>3. d = Put(b, g, Append(c.items[g], c.items[f][i]))
      BY <3>1, <3>2 DEF Put
    <3> QED BY <3>3 DEF b
  <2> QED BY <2>2, <2>3, <2>4, <2>5, <2>6, <2>7, <2>8, <2>9
<1>4. ASSUME NEW f \in Folders, d \in Extended(c, f, id)
      PROVE  \E r \in Request :
               /\ r.id = id /\ r.scenario = "none"
               /\ d = Put(c, f, Append(c.items[f], r))
  <2>1. PICK op \in Ops, name \in Names :
          d = [c EXCEPT !.items[f] = Append(@, [Plain(op, name) EXCEPT !.id = id])]
    BY <1>4 DEF Extended
  <2> DEFINE r == [Plain(op, name) EXCEPT !.id = id]
  <2>2. r \in Request /\ r.id = id /\ r.scenario = "none"
    BY DEF Plain, Request, Scripts
  <2>3. d = Put(c, f, Append(c.items[f], r))
    BY <2>1 DEF Put
  <2> QED BY <2>2, <2>3
<1>5. ASSUME d \in Guard PROVE \E x \in Scripts : d = [c EXCEPT !.guard = x]
  BY <1>5 DEF Scripts
<1> HIDE DEF Guard
<1> QED BY <1>1, <1>3, <1>4, <1>5

LEMMA NumberedMore ==
  ASSUME NEW c, NEW top \in Nat, Numbered(c, top)
  PROVE  Numbered(c, top + 1) /\ Unused(c, top + 1)
BY DEF Numbered, Unused

LEMMA GuardSet ==
  ASSUME NEW c \in Collection, NEW x \in Scripts
  PROVE  LET d == [c EXCEPT !.guard = x]
         IN  d \in Collection /\ d.generated = c.generated /\ d.marker = c.marker /\ d.items = c.items
BY DEF Collection

\* Whatever is edited, requests keep the ids they have, and a new one brings its own.
LEMMA EditedKeeps ==
  ASSUME NEW c \in Collection, NEW id \in Nat \union {None}, NEW d \in Edited(c, id)
  PROVE  /\ d \in Collection /\ d.generated = c.generated /\ d.marker = c.marker
         /\ Raw(c) /\ id = None => Raw(d)
         /\ \A top \in Nat : Numbered(c, top) /\ id = top + 1 => Numbered(d, top + 1)
<1>1. CASE \E f \in Folders : \E s \in Seq(Request) : Kept(s, c.items[f]) /\ d = Put(c, f, s)
  <2>1. PICK f \in Folders, s \in Seq(Request) : Kept(s, c.items[f]) /\ d = Put(c, f, s)
    BY <1>1
  <2>2. d \in Collection /\ d.generated = c.generated /\ d.marker = c.marker
    BY <2>1, PutFields
  <2>3. Raw(c) => Raw(d)
    BY <2>1, KeptIn
  <2>4. \A top \in Nat : Numbered(c, top) => Numbered(d, top + 1)
    BY <2>1, KeptIn, NumberedMore
  <2> QED BY <2>2, <2>3, <2>4
<1>2. CASE \E f \in Folders : \E g \in Folders \ {f} : \E i \in DOMAIN c.items[f] :
              d = Put(Put(c, f, Without(c.items[f], i)), g, Append(c.items[g], c.items[f][i]))
  <2>1. /\ d \in Collection /\ d.generated = c.generated /\ d.marker = c.marker
        /\ Raw(c) => Raw(d)
        /\ \A top \in Nat : Numbered(c, top) => Numbered(d, top)
    BY <1>2, MoveKeeps
  <2>2. \A top \in Nat : Numbered(c, top) => Numbered(d, top + 1)
    BY <2>1, NumberedMore
  <2> QED BY <2>1, <2>2
<1>3. CASE \E f \in Folders : \E r \in Request :
              /\ r.id = id /\ r.scenario = "none"
              /\ d = Put(c, f, Append(c.items[f], r))
  <2>1. PICK f \in Folders, r \in Request :
              /\ r.id = id /\ r.scenario = "none"
              /\ d = Put(c, f, Append(c.items[f], r))
    BY <1>3
  <2>2. /\ d \in Collection /\ d.generated = c.generated /\ d.marker = c.marker
        /\ Raw(c) /\ r.id = None => Raw(d)
        /\ \A top, up \in Nat :
             /\ Numbered(c, top) /\ top <= up
             /\ r.id \in 1..up /\ r.scenario = "none" /\ Unused(c, r.id)
             => Numbered(d, up)
    BY <2>1, AppendKeeps
  <2>3. ASSUME NEW top \in Nat, Numbered(c, top), id = top + 1 PROVE Numbered(d, top + 1)
    <3>1. top + 1 \in Nat /\ top <= top + 1 /\ top + 1 \in 1..top + 1
      OBVIOUS
    <3>2. Unused(c, r.id) /\ r.id \in 1..top + 1 /\ r.scenario = "none"
      BY <2>1, <2>3, <3>1, NumberedMore
    <3> QED BY <2>2, <2>3, <3>1, <3>2
  <2> QED BY <2>1, <2>2, <2>3
<1>4. CASE \E x \in Scripts : d = [c EXCEPT !.guard = x]
  <2>1. /\ d \in Collection /\ d.generated = c.generated /\ d.marker = c.marker
        /\ d.items = c.items
    BY <1>4, GuardSet
  <2>2. Raw(c) => Raw(d)
    BY <2>1 DEF Raw
  <2>3. \A top \in Nat : Numbered(c, top) => Numbered(d, top)
    BY <2>1 DEF Numbered
  <2> QED BY <2>1, <2>2, <2>3, NumberedMore
<1> QED BY <1>1, <1>2, <1>3, <1>4, EditedCases

\* The author marks a request as a scenario.
LEMMA ScenarioKeeps ==
  ASSUME NEW c, Raw(c), NEW f \in Folders, NEW i \in DOMAIN c.items[f],
         NEW x \in {"one", "another", "astray"}
  PROVE  Raw([c EXCEPT !.items[f][i].scenario = x])
<1> DEFINE q == c.items[f][i]
           r == [q EXCEPT !.scenario = x]
           s == [c.items[f] EXCEPT ![i] = r]
           d == Put(c, f, s)
<1>1. c \in Collection /\ q \in Request /\ q.id = None /\ c.items[f] \in Seq(Request)
  BY ItemsType DEF Raw
<1>2. r \in Request /\ r.id = None
  BY <1>1 DEF Request
<1>3. [c EXCEPT !.items[f][i].scenario = x] = d
  BY DEF Put
<1> HIDE DEF r
<1>4. s \in Seq(Request) /\ DOMAIN s = DOMAIN c.items[f] /\ s[i] = r
      /\ \A k \in DOMAIN s \ {i} : s[k] = c.items[f][k]
  BY <1>1, <1>2
<1> HIDE DEF s
<1>5. /\ d \in Collection /\ d.marker = c.marker /\ d.items[f] = s
      /\ \A g \in Folders \ {f} : d.items[g] = c.items[g]
  BY <1>1, <1>4, PutFields
<1> HIDE DEF d
<1>6. Raw(d)
  BY <1>2, <1>4, <1>5 DEF Raw
<1> QED BY <1>3, <1>6

-----------------------------------------------------------------------------
(* What readers see.                                                         *)

LEMMA ShownMeans ==
  ASSUME NEW c, NEW d
  PROVE  Shown(c) = Shown(d) <=>
           \A f \in Folders :
             /\ DOMAIN c.items[f] = DOMAIN d.items[f]
             /\ \A i \in DOMAIN c.items[f] :
                  LET r == c.items[f][i]
                      s == d.items[f][i]
                  IN  /\ r.op = s.op /\ r.name = s.name /\ r.prefixed = s.prefixed
                      /\ r.text = s.text /\ r.script = s.script
                      /\ r.disabled = "true" <=> s.disabled = "true"
<1> DEFINE Row(r) == <<r.op, r.name, r.prefixed, r.text, r.disabled = "true", r.script>>
           Rows(b, f) == [i \in DOMAIN b.items[f] |-> Row(b.items[f][i])]
<1>1. Shown(c) = [f \in Folders |-> Rows(c, f)] /\ Shown(d) = [f \in Folders |-> Rows(d, f)]
  BY DEF Shown
<1>2. ASSUME NEW r, NEW s
      PROVE  Row(r) = Row(s) <=> /\ r.op = s.op /\ r.name = s.name /\ r.prefixed = s.prefixed
                                 /\ r.text = s.text /\ r.script = s.script
                                 /\ r.disabled = "true" <=> s.disabled = "true"
  OBVIOUS
<1> HIDE DEF Row
<1>3. ASSUME NEW f \in Folders
      PROVE  Rows(c, f) = Rows(d, f) <=>
               /\ DOMAIN c.items[f] = DOMAIN d.items[f]
               /\ \A i \in DOMAIN c.items[f] : Row(c.items[f][i]) = Row(d.items[f][i])
  OBVIOUS
<1> HIDE DEF Rows
<1>4. Shown(c) = Shown(d) <=> \A f \in Folders : Rows(c, f) = Rows(d, f)
  BY <1>1
<1> QED BY <1>2, <1>3, <1>4

\* What Postman stores shows what it was sent.
LEMMA TwinsShow ==
  ASSUME NEW c, NEW d, Twins(c, d)
  PROVE  Shown(d) = Shown(c)
<1>1. ASSUME NEW f \in Folders
      PROVE  /\ DOMAIN d.items[f] = DOMAIN c.items[f]
             /\ \A i \in DOMAIN d.items[f] : Twin(c.items[f][i], d.items[f][i])
  BY DEF Twins
<1> QED BY <1>1, ShownMeans DEF Twin

\* A publication shows what the canonical collection says.
LEMMA PublishedShows ==
  ASSUME NEW c \in Collection, NEW k \in Contracts, c.marker = None
  PROVE  Shown(Published(c, k)) = Shown(c)
<1> DEFINE p == Published(c, k)
<1>1. \A f \in Folders :
        /\ DOMAIN p.items[f] = DOMAIN c.items[f]
        /\ \A i \in DOMAIN c.items[f] : p.items[f][i] = [c.items[f][i] EXCEPT !.scenario = "none"]
  BY PublishedFields, Zenon
<1> HIDE DEF p
<1>2. ASSUME NEW f \in Folders, NEW i \in DOMAIN c.items[f]
      PROVE  LET r == p.items[f][i]
                 s == c.items[f][i]
             IN  /\ r.op = s.op /\ r.name = s.name /\ r.prefixed = s.prefixed
                 /\ r.text = s.text /\ r.script = s.script /\ r.disabled = s.disabled
  <2>1. c.items[f][i] \in Request
    BY ItemsType
  <2>2. ASSUME NEW s \in Request
        PROVE  LET r == [s EXCEPT !.scenario = "none"]
               IN  /\ r.op = s.op /\ r.name = s.name /\ r.prefixed = s.prefixed
                   /\ r.text = s.text /\ r.script = s.script /\ r.disabled = s.disabled
    BY <2>2 DEF Request
  <2>3. p.items[f][i] = [c.items[f][i] EXCEPT !.scenario = "none"]
    BY <1>1
  <2> QED BY <2>1, <2>2, <2>3
<1> QED BY <1>1, <1>2, ShownMeans DEF p

-----------------------------------------------------------------------------
(* The inductive invariant.                                                  *)

\* What is in Postman was published, and what nobody edited there is as it was.
PostmanInv ==
  /\ remote = None <=> put = None
  /\ remote = None <=> environment = None
  /\ remote # None =>
       /\ remote.generated = FALSE /\ Numbered(remote, lastId)
       /\ remote.marker \in {None, Says(put.canonical, put.contract)}
       /\ "collection" \notin meddled =>
            /\ remote.marker # None /\ ValidCollection(remote)
            /\ Shown(remote) = Shown(put.canonical) /\ remote.guard = put.canonical.guard
       /\ "environment" \notin meddled => SameEnvironment(Approved(put.contract), environment)

\* What a plan says of what it saw, and what of that still holds.
PlanInv ==
  pc = "planned" =>
    /\ Raw(plan.of[1]) /\ plan.of[2] \in Contracts
    /\ plan.publication = Published(plan.of[1], plan.of[2]) /\ ValidCollection(plan.publication)
    /\ plan.remote = None <=> remote = None
    /\ plan.remote # None =>
         /\ plan.remote.generated = FALSE /\ Numbered(plan.remote, lastId)
         /\ plan.remote.marker = Says(put.canonical, put.contract)
    /\ plan.action = Action(plan.remote # None, Same(plan.publication, plan.remote))
    /\ plan.environment \in Environment \union {None}
    /\ plan.environment # None => plan.remote # None /\ SafeEnvironment(plan.environment)
    /\ plan.environmentAction =
         Action(plan.environment # None, SameEnvironment(Approved(plan.of[2]), plan.environment))
    /\ "environment" \notin meddled => plan.environment = environment

IInv ==
  /\ TypeOK
  /\ Raw(canonical)
  /\ PostmanInv
  /\ PlanInv
  /\ pc = "refused" => meddled # {}

-----------------------------------------------------------------------------
(* Environments.                                                             *)

LEMMA SameEnvironmentMeans ==
  ASSUME NEW k \in Contracts, NEW e \in Environment
  PROVE  SameEnvironment(Approved(k), e) <=>
           /\ e.named = TRUE /\ e.url = k /\ e.gate = "false" /\ e.extra = FALSE
           /\ e.secret = FALSE /\ e.noted # "text"
<1> DEFINE n == IF e.noted = "empty" THEN "absent" ELSE e.noted
           a == [e EXCEPT !.noted = n]
<1>1. SameEnvironment(Approved(k), e) <=> Approved(k) = a
  BY DEF SameEnvironment
<1>2. a = [named |-> e.named, url |-> e.url, gate |-> e.gate, extra |-> e.extra,
           secret |-> e.secret, noted |-> n]
  <2> HIDE DEF n
  <2> QED BY DEF Environment
<1>3. e.noted \in {"absent", "empty", "text"}
  BY DEF Environment
<1>4. n = "absent" <=> e.noted # "text"
  BY <1>3
<1> HIDE DEF a, n
<1> QED BY <1>1, <1>2, <1>4 DEF Approved

LEMMA ApprovedSafe ==
  ASSUME NEW k \in Contracts, NEW e \in Environment, SameEnvironment(Approved(k), e)
  PROVE  SafeEnvironment(e)
<1>1. e.named = TRUE /\ e.url = k /\ e.gate = "false" /\ e.extra = FALSE /\ e.secret = FALSE
  BY SameEnvironmentMeans
<1>2. [e EXCEPT !.gate = IF @ = "absent" THEN "false" ELSE @] = e
  BY <1>1 DEF Environment
<1> QED BY <1>1, <1>2, ContractsAssumption DEF SafeEnvironment, ValidEnvironment

LEMMA ApprovedType ==
  ASSUME NEW k \in Contracts
  PROVE  /\ Approved(k) \in Environment /\ Approved(k) # None
         /\ SameEnvironment(Approved(k), Approved(k))
<1>1. Approved(k) \in Environment
  BY DEF Approved, Environment
<1>2. SameEnvironment(Approved(k), Approved(k))
  BY <1>1, SameEnvironmentMeans DEF Approved
<1> QED BY <1>1, <1>2, NoneAssumption

-----------------------------------------------------------------------------
(* The actions.                                                              *)

LEMMA InitIInv == Init => IInv
<1> SUFFICES ASSUME Init PROVE IInv
  OBVIOUS
<1>1. PICK generated \in BOOLEAN, f \in Folders, op \in Ops, name \in Names :
        canonical = [items |-> [g \in Folders |-> IF g = f THEN <<Plain(op, name)>> ELSE <<>>],
                     generated |-> generated,
                     guard |-> IF generated THEN "good" ELSE "none", marker |-> None]
  BY DEF Init
<1>2. Plain(op, name) \in Request /\ Plain(op, name).id = None
  BY DEF Plain, Request, Scripts
<1> DEFINE S == [g \in Folders |-> IF g = f THEN <<Plain(op, name)>> ELSE <<>>]
<1>3. S \in [Folders -> Seq(Request)]
  BY <1>2
<1>4. \A g \in Folders : \A i \in DOMAIN S[g] : S[g][i].id = None
  <2> SUFFICES ASSUME NEW g \in Folders, NEW i \in DOMAIN S[g] PROVE S[g][i].id = None
    OBVIOUS
  <2>1. CASE g = f
    <3>1. S[g] = <<Plain(op, name)>>
      BY <2>1
    <3>2. i = 1 /\ S[g][i] = Plain(op, name)
      BY <1>2, <3>1
    <3> QED BY <1>2, <3>2
  <2>2. CASE g # f
    <3>1. S[g] = <<>>
      BY <2>2
    <3> QED BY <3>1
  <2> QED BY <2>1, <2>2
<1> HIDE DEF S
<1>5. canonical = [items |-> S, generated |-> generated,
                   guard |-> IF generated THEN "good" ELSE "none", marker |-> None]
  BY <1>1 DEF S
<1>6. canonical \in Collection
  BY <1>3, <1>5 DEF Collection, Scripts
<1>7. Raw(canonical)
  BY <1>4, <1>5, <1>6 DEF Raw
<1>8. /\ contract \in Contracts /\ remote = None /\ lastId = 0 /\ environment = None
      /\ pc = "idle" /\ put = None /\ meddled = {} /\ edits = 0 /\ meddling = 0
  BY DEF Init
<1> QED BY <1>6, <1>7, <1>8 DEF IInv, TypeOK, PostmanInv, PlanInv

\* A refused plan: the canonical files, or somebody was there.
LEMMA NoPlanKeeps ==
  ASSUME IInv, Invalid \/ Refused
  PROVE  IInv'
<1>1. /\ UNCHANGED <<canonical, contract, remote, lastId, environment, put, meddled, edits, meddling>>
      /\ pc' \in {"invalid", "refused"}
  BY DEF Invalid, Refused, files, postman, history, counts
<1>2. TypeOK' /\ Raw(canonical)' /\ PostmanInv' /\ PlanInv'
  BY <1>1 DEF IInv, TypeOK, PostmanInv, PlanInv
<1>3. pc' = "refused" => meddled' # {}
  <2> SUFFICES ASSUME Refused, meddled = {} PROVE FALSE
    BY <1>1 DEF Invalid
  <2>1. remote # None => remote.marker # None /\ ValidCollection(remote)
    BY DEF IInv, PostmanInv
  <2>2. environment # None => remote # None /\ SafeEnvironment(environment)
    <3> SUFFICES ASSUME environment # None PROVE remote # None /\ SafeEnvironment(environment)
      OBVIOUS
    <3>1. remote # None /\ put # None /\ SameEnvironment(Approved(put.contract), environment)
      BY DEF IInv, PostmanInv
    <3>2. environment \in Environment /\ put.contract \in Contracts
      BY <3>1 DEF IInv, TypeOK, Files
    <3> QED BY <3>1, <3>2, ApprovedSafe
  <2> QED BY <2>1, <2>2 DEF Refused, Inspected
<1> QED BY <1>2, <1>3 DEF IInv

LEMMA PlanKeeps ==
  ASSUME IInv, Plan
  PROVE  IInv'
<1> DEFINE publication == Published(canonical, contract)
<1>1. /\ UNCHANGED <<canonical, contract, remote, lastId, environment, put, meddled, edits, meddling>>
      /\ pc' = "planned" /\ ValidCollection(canonical)
      /\ remote # None => remote.marker # None /\ ValidCollection(remote)
      /\ environment # None => remote # None /\ SafeEnvironment(environment)
  BY DEF Plan, Inspected, files, postman, history, counts
<1>2. plan' = [publication |-> publication, remote |-> remote, of |-> files,
                    environment |-> environment,
                    action |-> Action(remote # None, Same(publication, remote)),
                    environmentAction |-> Action(environment # None,
                        SameEnvironment(Approved(contract), environment))]
  BY DEF Plan
<1>3. canonical \in Collection /\ canonical.marker = None /\ contract \in Contracts
  BY DEF IInv, Raw, TypeOK
<1>4. publication \in Collection /\ ValidCollection(publication)
  BY <1>1, <1>3, PublishedFields, PublishedValid
<1> HIDE DEF publication
<1>5. /\ plan'.publication = publication /\ plan'.remote = remote
      /\ plan'.of[1] = canonical /\ plan'.of[2] = contract
      /\ plan'.environment = environment
      /\ plan'.action = Action(remote # None, Same(publication, remote))
      /\ plan'.environmentAction = Action(environment # None,
                                     SameEnvironment(Approved(contract), environment))
  BY <1>2 DEF files
<1>6. \A there, same : Action(there, same) \in {"create", "update", "unchanged"}
  BY DEF Action
<1>7. TypeOK'
  BY <1>1, <1>4, <1>5, <1>6 DEF IInv, TypeOK
<1>8. PostmanInv' /\ Raw(canonical)'
  BY <1>1 DEF IInv, PostmanInv
<1>9. remote # None => /\ remote.generated = FALSE /\ Numbered(remote, lastId)
                       /\ remote.marker = Says(put.canonical, put.contract)
  BY <1>1 DEF IInv, PostmanInv
<1>10. PlanInv'
  BY <1>1, <1>3, <1>4, <1>5, <1>9 DEF IInv, TypeOK, PlanInv, publication
<1> QED BY <1>1, <1>7, <1>8, <1>10 DEF IInv

\* What a plan would publish.
LEMMA PlanFields ==
  ASSUME IInv, pc = "planned"
  PROVE  LET p == plan.publication
         IN  /\ p \in Collection /\ ValidCollection(p) /\ Blank(p)
             /\ p.generated = FALSE /\ p.marker = Says(plan.of[1], plan.of[2])
             /\ Says(plan.of[1], plan.of[2]) \in Marker
             /\ Shown(p) = Shown(plan.of[1]) /\ p.guard = plan.of[1].guard
<1> DEFINE c == plan.of[1]
           k == plan.of[2]
           p == plan.publication
<1>1. Raw(c) /\ k \in Contracts /\ p = Published(c, k) /\ ValidCollection(p)
  BY DEF IInv, PlanInv
<1>2. c \in Collection /\ c.marker = None
  BY <1>1 DEF Raw
<1> HIDE DEF c, k, p
<1>3. /\ p \in Collection /\ p.generated = FALSE /\ p.marker = Says(c, k) /\ Says(c, k) \in Marker
      /\ \A f \in Folders :
           /\ DOMAIN p.items[f] = DOMAIN c.items[f]
           /\ \A i \in DOMAIN c.items[f] : p.items[f][i] = [c.items[f][i] EXCEPT !.scenario = "none"]
  <2> DEFINE q == Published(c, k)
  <2>1. /\ q \in Collection /\ q.generated = FALSE /\ q.marker = Says(c, k) /\ Says(c, k) \in Marker
        /\ \A f \in Folders :
             /\ DOMAIN q.items[f] = DOMAIN c.items[f]
             /\ \A i \in DOMAIN c.items[f] :
                  q.items[f][i] = [c.items[f][i] EXCEPT !.scenario = "none"]
    BY <1>1, <1>2, PublishedFields, Zenon
  <2>2. p = q
    BY <1>1
  <2> HIDE DEF q
  <2> QED BY <2>1, <2>2, Zenon
<1>4. Blank(p)
  <2>1. ASSUME NEW f \in Folders, NEW i \in DOMAIN c.items[f]
        PROVE  p.items[f][i].id = None /\ p.items[f][i].scenario = "none"
    <3>1. c.items[f][i] \in Request /\ c.items[f][i].id = None
      BY <1>1, <1>2, ItemsType DEF Raw
    <3>2. p.items[f][i] = [c.items[f][i] EXCEPT !.scenario = "none"]
      BY <1>3
    <3> QED BY <3>1, <3>2 DEF Request
  <2> QED BY <1>3, <2>1 DEF Blank
<1>5. Shown(p) = Shown(c) /\ p.guard = c.guard
  BY <1>1, <1>2, PublishedShows, PublishedFields
<1> QED BY <1>1, <1>3, <1>4, <1>5 DEF c, k, p

\* What is there after the collection was created or replaced.
LEMMA ApplyStores ==
  ASSUME IInv, Apply, plan.action # "unchanged"
  PROVE  /\ remote' \in Collection /\ lastId' \in Nat /\ remote' # None
         /\ remote'.generated = FALSE /\ Numbered(remote', lastId')
         /\ remote'.marker = Says(plan.of[1], plan.of[2]) /\ remote'.marker # None
         /\ ValidCollection(remote')
         /\ Shown(remote') = Shown(plan.of[1]) /\ remote'.guard = plan.of[1].guard
<1> DEFINE p == plan.publication
<1>1. /\ pc = "planned" /\ plan.action \in {"create", "update", "unchanged"} /\ lastId \in Nat
      /\ plan.remote \in Collection \union {None}
  BY DEF IInv, TypeOK, Apply
<1>2. /\ p \in Collection /\ ValidCollection(p) /\ Blank(p)
      /\ p.generated = FALSE /\ p.marker = Says(plan.of[1], plan.of[2])
      /\ Says(plan.of[1], plan.of[2]) \in Marker
      /\ Shown(p) = Shown(plan.of[1]) /\ p.guard = plan.of[1].guard
  BY <1>1, PlanFields
<1> HIDE DEF p
<1>3. \E c \in Collection : Twins(p, c) /\ HalfNumbered(c, lastId) /\ Store(c)
  <2>1. CASE plan.action = "create"
    <3>1. Store(p)
      BY <2>1 DEF Apply, p
    <3>2. HalfNumbered(p, lastId)
      BY <1>2 DEF Blank, HalfNumbered
    <3>3. Twins(p, p)
      BY DEF Twins, Twin
    <3> QED BY <1>2, <3>1, <3>2, <3>3
  <2>2. CASE plan.action = "update"
    <3>1. Store(WithIds(p, plan.remote))
      BY <2>2 DEF Apply, p
    <3>2. plan.remote # None
      BY <1>1, <2>2 DEF IInv, PlanInv, Action
    <3>3. plan.remote \in Collection /\ Numbered(plan.remote, lastId)
      BY <1>1, <3>2 DEF IInv, PlanInv
    <3>4. LET w == WithIds(p, plan.remote)
          IN  w \in Collection /\ Twins(p, w) /\ HalfNumbered(w, lastId)
      BY <1>1, <1>2, <3>3, WithIdsFields
    <3> QED BY <3>1, <3>4
  <2> QED BY <1>1, <2>1, <2>2
<1>4. PICK c \in Collection : Twins(p, c) /\ HalfNumbered(c, lastId) /\ Store(c)
  BY <1>3
<1>5. /\ remote' \in Collection /\ lastId' \in Nat
      /\ Twins(c, remote') /\ Numbered(remote', lastId')
  BY <1>1, <1>4, StoreKeeps
<1>6. ValidCollection(remote')
  BY <1>2, <1>4, <1>5, TwinsValid
<1>7. /\ remote'.generated = FALSE /\ remote'.marker = Says(plan.of[1], plan.of[2])
      /\ remote'.guard = plan.of[1].guard
  BY <1>2, <1>4, <1>5 DEF Twins
<1>8. Shown(remote') = Shown(plan.of[1])
  BY <1>2, <1>4, <1>5, TwinsShow
<1> QED BY <1>2, <1>5, <1>6, <1>7, <1>8, NoneAssumption

LEMMA ApplyKeeps ==
  ASSUME IInv, Apply
  PROVE  IInv'
<1>1. /\ UNCHANGED <<canonical, contract, edits, meddling>> /\ pc = "planned" /\ pc' = "idle"
      /\ plan.action \in {"create", "update", "unchanged"} /\ lastId \in Nat
  BY DEF IInv, TypeOK, Apply, files, counts
<1>2. /\ Raw(plan.of[1]) /\ plan.of[1] \in Collection /\ plan.of[2] \in Contracts
      /\ plan.publication \in Collection
      /\ plan.publication.marker = Says(plan.of[1], plan.of[2])
  BY <1>1, PlanFields DEF IInv, PlanInv, Raw
<1>3. put' = IF plan.action = "unchanged" THEN put
             ELSE [canonical |-> plan.of[1], contract |-> plan.of[2]]
  BY DEF Apply
<1>4. meddled' = {part \in meddled :
                     "unchanged" = IF part = "collection" THEN plan.action
                                   ELSE plan.environmentAction}
  BY DEF Apply
<1>5. meddled' \subseteq meddled
  BY <1>4
<1>6. plan.action = "unchanged" =>
        /\ remote # None /\ plan.remote # None /\ put # None
        /\ put.contract = plan.of[2]
  <2> SUFFICES ASSUME plan.action = "unchanged"
               PROVE  /\ remote # None /\ plan.remote # None /\ put # None
                      /\ put.contract = plan.of[2]
    OBVIOUS
  <2>1. plan.remote # None /\ Same(plan.publication, plan.remote)
    BY <1>1 DEF IInv, PlanInv, Action
  <2>2. remote # None /\ put # None /\ plan.remote \in Collection
    BY <1>1, <2>1 DEF IInv, PlanInv, PostmanInv, TypeOK
  <2>3. plan.publication.marker = plan.remote.marker
    BY <1>2, <2>1, <2>2, SameMeans
  <2>4. plan.remote.marker = Says(put.canonical, put.contract)
    BY <1>1, <2>1 DEF IInv, PlanInv
  <2>5. put.contract = plan.of[2]
    BY <1>2, <2>3, <2>4 DEF Says
  <2> QED BY <2>1, <2>2, <2>5
<1>7. put' \in Files /\ put' # None /\ put'.contract = plan.of[2]
  <2>1. CASE plan.action = "unchanged"
    BY <1>3, <1>6, <2>1 DEF IInv, TypeOK
  <2>2. CASE plan.action # "unchanged"
    <3>1. put' = [canonical |-> plan.of[1], contract |-> plan.of[2]]
      BY <1>3, <2>2
    <3>2. put' \in Files
      BY <1>2, <3>1 DEF Files
    <3> QED BY <3>1, <3>2, NoneAssumption
  <2> QED BY <2>1, <2>2
<1>8. /\ remote' \in Collection /\ remote' # None /\ lastId' \in Nat
      /\ remote'.generated = FALSE /\ Numbered(remote', lastId')
      /\ remote'.marker \in {None, Says(put'.canonical, put'.contract)}
      /\ "collection" \notin meddled' =>
           /\ remote'.marker # None /\ ValidCollection(remote')
           /\ Shown(remote') = Shown(put'.canonical) /\ remote'.guard = put'.canonical.guard
  <2>1. CASE plan.action = "unchanged"
    <3>1. UNCHANGED <<remote, lastId, put>> /\ remote # None
      BY <1>3, <1>6, <2>1 DEF Apply
    <3>2. "collection" \notin meddled' => "collection" \notin meddled
      BY <1>4, <2>1
    <3>3. /\ remote \in Collection /\ lastId \in Nat
          /\ remote.generated = FALSE /\ Numbered(remote, lastId)
          /\ remote.marker \in {None, Says(put.canonical, put.contract)}
          /\ "collection" \notin meddled =>
               /\ remote.marker # None /\ ValidCollection(remote)
               /\ Shown(remote) = Shown(put.canonical) /\ remote.guard = put.canonical.guard
      BY <3>1 DEF IInv, TypeOK, PostmanInv
    <3> QED BY <3>1, <3>2, <3>3
  <2>2. CASE plan.action # "unchanged"
    <3>1. put'.canonical = plan.of[1] /\ put'.contract = plan.of[2]
      BY <1>3, <2>2
    <3> QED BY <2>2, <3>1, ApplyStores
  <2> QED BY <2>1, <2>2
<1>9. /\ environment' \in Environment /\ environment' # None
      /\ "environment" \notin meddled' => SameEnvironment(Approved(put'.contract), environment')
  <2>1. CASE plan.environmentAction = "unchanged"
    <3>1. environment' = environment
      BY <2>1 DEF Apply
    <3>2. plan.environment # None /\ SameEnvironment(Approved(plan.of[2]), plan.environment)
      BY <1>1, <2>1 DEF IInv, PlanInv, Action
    <3>3. remote # None
      BY <1>1, <3>2 DEF IInv, PlanInv
    <3>4. environment \in Environment /\ environment # None
      BY <3>3 DEF IInv, PostmanInv, TypeOK
    <3>5. "environment" \notin meddled' => "environment" \notin meddled
      BY <1>4, <2>1
    <3>6. "environment" \notin meddled => plan.environment = environment
      BY <1>1 DEF IInv, PlanInv
    <3> QED BY <1>7, <3>1, <3>2, <3>4, <3>5, <3>6
  <2>2. CASE plan.environmentAction # "unchanged"
    <3>1. environment' = Approved(plan.of[2])
      BY <2>2 DEF Apply
    <3> QED BY <1>2, <1>7, <3>1, ApprovedType
  <2> QED BY <2>1, <2>2
<1>10. TypeOK'
  BY <1>1, <1>5, <1>7, <1>8, <1>9 DEF IInv, TypeOK
<1>11. PostmanInv'
  BY <1>7, <1>8, <1>9 DEF PostmanInv
<1>12. PlanInv' /\ Raw(canonical)'
  BY <1>1 DEF IInv, PlanInv
<1> QED BY <1>1, <1>10, <1>11, <1>12 DEF IInv

LEMMA AuthorKeeps ==
  ASSUME IInv, Author
  PROVE  IInv'
<1>1. /\ UNCHANGED <<remote, lastId, environment, pc, plan, put, meddled, meddling>>
      /\ edits' = edits + 1
  BY DEF Author, postman, history
<1>2. Raw(canonical) /\ canonical \in Collection /\ contract \in Contracts
  BY DEF IInv, TypeOK
<1>3. Raw(canonical)' /\ contract' \in Contracts
  <2>1. CASE canonical' \in Edited(canonical, None) /\ UNCHANGED contract
    BY <1>2, <2>1, EditedKeeps
  <2>2. ASSUME NEW f \in Folders, NEW i \in DOMAIN canonical.items[f],
               NEW x \in {"one", "another", "astray"},
               canonical' = [canonical EXCEPT !.items[f][i].scenario = x], UNCHANGED contract
        PROVE  Raw(canonical)' /\ contract' \in Contracts
    BY <1>2, <2>2, ScenarioKeeps
  <2>3. CASE contract' \in Contracts /\ UNCHANGED canonical
    BY <1>2, <2>3 DEF Raw
  <2> QED BY <2>1, <2>2, <2>3 DEF Author
<1>4. TypeOK'
  BY <1>1, <1>3 DEF IInv, TypeOK, Raw
<1>5. PostmanInv' /\ PlanInv'
  BY <1>1 DEF IInv, PostmanInv, PlanInv
<1> QED BY <1>1, <1>3, <1>4, <1>5 DEF IInv

LEMMA MeddleKeeps ==
  ASSUME IInv, Meddle
  PROVE  IInv'
<1>1. /\ UNCHANGED <<canonical, contract, pc, plan, put, edits>> /\ meddling' = meddling + 1
      /\ remote # None
  BY DEF Meddle, files
<1>2. /\ put # None /\ environment # None /\ environment \in Environment
      /\ remote \in Collection /\ lastId \in Nat
      /\ remote.generated = FALSE /\ Numbered(remote, lastId)
      /\ remote.marker \in {None, Says(put.canonical, put.contract)}
      /\ put.contract \in Contracts
  BY <1>1 DEF IInv, TypeOK, PostmanInv, Files
<1>3. CASE /\ remote' \in Edited(remote, lastId + 1) \union {[remote EXCEPT !.marker = None]}
           /\ lastId' = lastId + 1
           /\ meddled' = meddled \union {"collection"}
           /\ UNCHANGED environment
  <2>1. /\ remote' \in Collection /\ remote'.generated = FALSE
        /\ remote'.marker \in {None, remote.marker} /\ Numbered(remote', lastId + 1)
    <3>1. CASE remote' \in Edited(remote, lastId + 1)
      BY <1>2, <3>1, EditedKeeps
    <3>2. CASE remote' = [remote EXCEPT !.marker = None]
      <4>1. remote' = [items |-> remote.items, generated |-> remote.generated,
                       guard |-> remote.guard, marker |-> None]
        BY <1>2, <3>2, WithMarker
      <4>2. remote' \in Collection
        BY <1>2, <4>1 DEF Collection
      <4>3. Numbered(remote', lastId)
        BY <1>2, <4>1 DEF Numbered
      <4> QED BY <1>2, <4>1, <4>2, <4>3, NumberedMore
    <3> QED BY <1>3, <3>1, <3>2
  <2>2. lastId' \in Nat /\ remote' # None
    BY <1>2, <1>3, <2>1, NoneAssumption
  <2>3. TypeOK'
    BY <1>1, <1>3, <2>1, <2>2 DEF IInv, TypeOK
  <2>4. PostmanInv'
    BY <1>1, <1>2, <1>3, <2>1, <2>2 DEF IInv, PostmanInv
  <2>5. PlanInv'
    <3>1. plan.remote # None /\ Numbered(plan.remote, lastId) /\ pc = "planned"
            => Numbered(plan.remote, lastId')
      BY <1>2, <1>3, NumberedMore
    <3> QED BY <1>1, <1>3, <2>2, <3>1 DEF IInv, PlanInv
  <2> QED BY <1>1, <1>3, <2>3, <2>4, <2>5 DEF IInv
<1>4. CASE /\ environment' \in {[environment EXCEPT !.named = FALSE],
                               [environment EXCEPT !.extra = TRUE],
                               [environment EXCEPT !.secret = TRUE]}
                \union {[environment EXCEPT !.url = u] : u \in Contracts \union {"unfit"}}
                \union {[environment EXCEPT !.gate = x] : x \in {"absent", "true"}}
                \union {[environment EXCEPT !.noted = x] : x \in {"empty", "text"}}
           /\ meddled' = meddled \union {"environment"}
           /\ UNCHANGED <<remote, lastId>>
  <2>1. environment' \in Environment
    <3> DEFINE e == environment
    <3>1. e \in Environment
      BY <1>2
    <3> HIDE DEF e
    <3>2. /\ [e EXCEPT !.named = FALSE] \in Environment
          /\ [e EXCEPT !.extra = TRUE] \in Environment
          /\ [e EXCEPT !.secret = TRUE] \in Environment
          /\ \A u \in Contracts \union {"unfit"} : [e EXCEPT !.url = u] \in Environment
          /\ \A x \in {"absent", "true"} : [e EXCEPT !.gate = x] \in Environment
          /\ \A x \in {"empty", "text"} : [e EXCEPT !.noted = x] \in Environment
      BY <3>1 DEF Environment
    <3>3. \/ environment' = [e EXCEPT !.named = FALSE]
          \/ environment' = [e EXCEPT !.extra = TRUE]
          \/ environment' = [e EXCEPT !.secret = TRUE]
          \/ \E u \in Contracts \union {"unfit"} : environment' = [e EXCEPT !.url = u]
          \/ \E x \in {"absent", "true"} : environment' = [e EXCEPT !.gate = x]
          \/ \E x \in {"empty", "text"} : environment' = [e EXCEPT !.noted = x]
      BY <1>4 DEF e
    <3> QED BY <3>2, <3>3
  <2>2. environment' # None
    BY <2>1, NoneAssumption
  <2>3. TypeOK'
    BY <1>1, <1>4, <2>1 DEF IInv, TypeOK
  <2>4. PostmanInv'
    BY <1>1, <1>2, <1>4, <2>2 DEF IInv, PostmanInv
  <2>5. PlanInv'
    BY <1>1, <1>4 DEF IInv, PlanInv
  <2> QED BY <1>1, <1>4, <2>3, <2>4, <2>5 DEF IInv
<1> QED BY <1>3, <1>4 DEF Meddle

LEMMA InductiveStep == IInv /\ [Next]_vars => IInv'
<1> SUFFICES ASSUME IInv, [Next]_vars PROVE IInv'
  OBVIOUS
<1>1. CASE UNCHANGED vars
  BY <1>1 DEF vars, files, postman, history, counts, IInv, TypeOK, PostmanInv, PlanInv
<1> QED BY <1>1, NoPlanKeeps, PlanKeeps, ApplyKeeps, AuthorKeeps, MeddleKeeps DEF Next

THEOREM Invariance == Spec => []IInv
BY InitIInv, InductiveStep, PTL DEF Spec

-----------------------------------------------------------------------------
(* The properties.                                                           *)

\* _same_public_payload is exact: a publication and what Postman has are the same if and
\* only if Postman shows what the canonical collection says and was given these very
\* files, whatever Postman added to the payload or dropped from it.
THEOREM SamePublished ==
  ASSUME NEW c \in Collection, c.marker = None, NEW k \in Contracts,
         NEW d \in Collection, d.generated = FALSE, NEW top, Numbered(d, top)
  PROVE  Same(Published(c, k), d) <=>
           d.marker = Says(c, k) /\ d.guard = c.guard /\ Shown(d) = Shown(c)
<1> DEFINE p == Published(c, k)
<1>1. /\ p \in Collection /\ p.generated = FALSE /\ p.guard = c.guard /\ p.marker = Says(c, k)
      /\ \A f \in Folders :
           /\ DOMAIN p.items[f] = DOMAIN c.items[f]
           /\ \A i \in DOMAIN c.items[f] :
                p.items[f][i] = [c.items[f][i] EXCEPT !.scenario = "none"]
  BY PublishedFields, Zenon
<1> HIDE DEF p
<1>2. ASSUME NEW f \in Folders, DOMAIN c.items[f] = DOMAIN d.items[f], NEW i \in DOMAIN c.items[f]
      PROVE  Clean(p.items[f][i]) = Clean(d.items[f][i]) <=>
               LET r == d.items[f][i]
                   s == c.items[f][i]
               IN  /\ r.op = s.op /\ r.name = s.name /\ r.prefixed = s.prefixed
                   /\ r.text = s.text /\ r.script = s.script
                   /\ r.disabled = "true" <=> s.disabled = "true"
  <2> DEFINE r == d.items[f][i]
             s == c.items[f][i]
             q == p.items[f][i]
  <2>1. r \in Request /\ s \in Request /\ q \in Request /\ r.scenario = "none"
    BY <1>1, <1>2, ItemsType DEF Numbered
  <2>2. q = [s EXCEPT !.scenario = "none"]
    BY <1>1
  <2> HIDE DEF r, s, q
  <2>3. /\ q.op = s.op /\ q.name = s.name /\ q.prefixed = s.prefixed /\ q.text = s.text
        /\ q.script = s.script /\ q.disabled = s.disabled /\ q.scenario = "none"
    BY <2>1, <2>2 DEF Request
  <2>4. Clean(q) = Clean(r) <=>
           /\ q.op = r.op /\ q.name = r.name /\ q.prefixed = r.prefixed /\ q.text = r.text
           /\ q.script = r.script /\ q.scenario = r.scenario
           /\ q.disabled = "true" <=> r.disabled = "true"
    BY <2>1, CleanMeans
  <2>5. Clean(q) = Clean(r) <=>
           /\ r.op = s.op /\ r.name = s.name /\ r.prefixed = s.prefixed
           /\ r.text = s.text /\ r.script = s.script
           /\ r.disabled = "true" <=> s.disabled = "true"
    BY <2>1, <2>3, <2>4
  <2> QED BY <2>5 DEF r, s, q
<1>3. Same(p, d) <=>
           /\ p.generated = d.generated /\ p.guard = d.guard /\ p.marker = d.marker
           /\ \A f \in Folders :
                /\ DOMAIN p.items[f] = DOMAIN d.items[f]
                /\ \A i \in DOMAIN p.items[f] : Clean(p.items[f][i]) = Clean(d.items[f][i])
  BY <1>1, SameMeans
<1>4. Shown(d) = Shown(c) <=>
        \A f \in Folders :
          /\ DOMAIN p.items[f] = DOMAIN d.items[f]
          /\ \A i \in DOMAIN p.items[f] : Clean(p.items[f][i]) = Clean(d.items[f][i])
  <2>1. ASSUME NEW f \in Folders
        PROVE  (/\ DOMAIN p.items[f] = DOMAIN d.items[f]
                /\ \A i \in DOMAIN p.items[f] : Clean(p.items[f][i]) = Clean(d.items[f][i]))
               <=> (/\ DOMAIN d.items[f] = DOMAIN c.items[f]
                    /\ \A i \in DOMAIN d.items[f] :
                         LET r == d.items[f][i]
                             s == c.items[f][i]
                         IN  /\ r.op = s.op /\ r.name = s.name /\ r.prefixed = s.prefixed
                             /\ r.text = s.text /\ r.script = s.script
                             /\ r.disabled = "true" <=> s.disabled = "true")
    <3>1. DOMAIN p.items[f] = DOMAIN c.items[f]
      BY <1>1
    <3> QED BY <1>2, <3>1
  <2> QED BY <2>1, ShownMeans
<1>5. Same(p, d) <=> d.marker = Says(c, k) /\ d.guard = c.guard /\ Shown(d) = Shown(c)
  BY <1>1, <1>3, <1>4
<1> QED BY <1>5 DEF p

\* TypeOK: what goes to Postman and comes back is a collection with its marker or
\* without, an environment, a plan with one of the three actions for each.
THEOREM PublicationTypeSafe == Spec => []TypeOK
BY Invariance, PTL DEF IInv

\* PlanTellsTheTruth: a plan says "unchanged" exactly when Postman shows the canonical
\* files and was given these very files, is refused only after somebody edited Postman,
\* and never replaces an environment in which it saw somebody's variables or credentials.
THEOREM PlansTellTheTruth == Spec => []PlanTellsTheTruth
<1>1. ASSUME IInv, pc = "planned", plan.of = files, plan.remote = remote
      PROVE  plan.action = "unchanged" <=>
                  /\ put = [canonical |-> canonical, contract |-> contract]
                  /\ Shown(remote) = Shown(canonical)
                  /\ remote.guard = canonical.guard
  <2>1. /\ canonical \in Collection /\ canonical.marker = None /\ contract \in Contracts
        /\ remote \in Collection \union {None}
    BY <1>1 DEF IInv, Raw, TypeOK
  <2>2. plan.of[1] = canonical /\ plan.of[2] = contract
    BY <1>1 DEF files
  <2>3. plan.action = "unchanged" <=> remote # None /\ Same(Published(canonical, contract), remote)
    BY <1>1, <2>2 DEF IInv, PlanInv, Action
  <2>4. remote # None =>
          /\ remote \in Collection /\ remote.generated = FALSE /\ Numbered(remote, lastId)
          /\ remote.marker = Says(put.canonical, put.contract)
          /\ put \in Files
    BY <1>1, <2>1 DEF IInv, TypeOK, PlanInv, PostmanInv
  <2>5. remote # None =>
          (plan.action = "unchanged" <=>
             /\ Says(put.canonical, put.contract) = Says(canonical, contract)
             /\ remote.guard = canonical.guard /\ Shown(remote) = Shown(canonical))
    BY <2>1, <2>3, <2>4, SamePublished
  <2>6. remote # None =>
          (Says(put.canonical, put.contract) = Says(canonical, contract)
             <=> put = [canonical |-> canonical, contract |-> contract])
    BY <2>4 DEF Says, Files
  <2>7. remote = None =>
          plan.action # "unchanged" /\ put # [canonical |-> canonical, contract |-> contract]
    <3>1. [canonical |-> canonical, contract |-> contract] # None
      BY <2>1, NoneAssumption DEF Files
    <3> QED BY <1>1, <2>3, <3>1 DEF IInv, PostmanInv
  <2> QED BY <2>5, <2>6, <2>7
<1>2. ASSUME IInv, pc = "planned", plan.of = files,
             plan.environment = environment, plan.environmentAction = "unchanged"
      PROVE  environment.url = contract /\ environment.gate = "false"
  <2>1. plan.of[2] = contract /\ contract \in Contracts
    BY <1>2 DEF IInv, TypeOK, files
  <2>2. /\ environment \in Environment /\ SameEnvironment(Approved(contract), environment)
    BY <1>2, <2>1 DEF IInv, TypeOK, PlanInv, Action
  <2> QED BY <2>1, <2>2, SameEnvironmentMeans
<1>3. ASSUME IInv, pc = "planned", plan.of = files,
             meddled = {}, put # None, put.contract = contract
      PROVE  plan.environmentAction = "unchanged"
  <2>1. environment # None /\ SameEnvironment(Approved(contract), environment)
    BY <1>3 DEF IInv, PostmanInv
  <2>2. plan.of[2] = contract /\ plan.environment = environment
    BY <1>3 DEF IInv, PlanInv, files
  <2> QED BY <1>3, <2>1, <2>2 DEF IInv, PlanInv, Action
<1>4. ASSUME IInv, pc = "planned"
      PROVE  /\ ValidCollection(plan.publication)
             /\ plan.environment # None => ~plan.environment.secret /\ ~plan.environment.extra
  <2>1. ValidCollection(plan.publication)
    BY <1>4, PlanFields
  <2>2. ASSUME plan.environment # None PROVE ~plan.environment.secret /\ ~plan.environment.extra
    <3> DEFINE e == plan.environment
    <3>1. e \in Environment /\ SafeEnvironment(e)
      BY <1>4, <2>2 DEF IInv, PlanInv
    <3> HIDE DEF e
    <3>2. ~e.secret /\ ~[e EXCEPT !.gate = IF @ = "absent" THEN "false" ELSE @].extra
      BY <3>1 DEF SafeEnvironment, ValidEnvironment
    <3>3. [e EXCEPT !.gate = IF @ = "absent" THEN "false" ELSE @].extra = e.extra
      BY <3>1 DEF Environment
    <3> QED BY <3>2, <3>3 DEF e
  <2> QED BY <2>1, <2>2
<1>5. ASSUME IInv, pc = "planned", plan.of = files, plan.remote = remote,
             "collection" \notin meddled,
             put = [canonical |-> canonical, contract |-> contract]
      PROVE  plan.action = "unchanged"
  <2>1. put # None /\ put.canonical = canonical
    <3>1. canonical \in Collection /\ contract \in Contracts
      BY <1>5 DEF IInv, TypeOK
    <3>2. [canonical |-> canonical, contract |-> contract] \in Files
      BY <3>1 DEF Files
    <3> QED BY <1>5, <3>2, NoneAssumption
  <2>2. Shown(remote) = Shown(canonical) /\ remote.guard = canonical.guard
    BY <1>5, <2>1 DEF IInv, PostmanInv
  <2> QED BY <1>1, <1>5, <2>2
<1>6. IInv => PlanTellsTheTruth
  BY <1>1, <1>2, <1>3, <1>4, <1>5 DEF PlanTellsTheTruth, IInv
<1> QED BY <1>6, Invariance, PTL

\* Postman has the publication, each request with the id of the one request that had
\* its label, or with an id nobody had.
LEMMA UpdateIds ==
  ASSUME IInv, Apply, plan.action = "update"
  PROVE  LET p == plan.publication
             c == plan.remote
         IN  /\ c \in Collection /\ Numbered(c, lastId) /\ lastId \in Nat
             /\ p \in Collection /\ remote' \in Collection /\ Numbered(remote', lastId')
             /\ \A f \in Folders :
                  /\ DOMAIN remote'.items[f] = DOMAIN p.items[f]
                  /\ \A i \in DOMAIN p.items[f] :
                       /\ remote'.items[f][i].name = p.items[f][i].name
                       /\ IF Matching(p.items[f], c.items[f], p.items[f][i])
                          THEN \E j \in Places(c.items[f], p.items[f][i]) :
                                 remote'.items[f][i].id = c.items[f][j].id
                          ELSE remote'.items[f][i].id > lastId
<1> DEFINE p == plan.publication
           c == plan.remote
           w == WithIds(p, c)
<1>1. pc = "planned" /\ lastId \in Nat /\ plan.remote \in Collection \union {None}
  BY DEF IInv, TypeOK, Apply
<1>2. p \in Collection /\ Blank(p)
  BY <1>1, PlanFields
<1>3. plan.remote # None
  BY <1>1 DEF IInv, PlanInv, Action
<1>4. c \in Collection /\ Numbered(c, lastId)
  BY <1>1, <1>3 DEF IInv, PlanInv
<1>5. Store(w)
  BY DEF Apply
<1> HIDE DEF p, c
<1>6. /\ w \in Collection /\ Twins(p, w) /\ HalfNumbered(w, lastId)
      /\ \A f \in Folders : \A i \in DOMAIN p.items[f] :
           IF Matching(p.items[f], c.items[f], p.items[f][i])
           THEN \E j \in Places(c.items[f], p.items[f][i]) : w.items[f][i].id = c.items[f][j].id
           ELSE w.items[f][i].id = None
  BY <1>1, <1>2, <1>4, WithIdsFields
<1> HIDE DEF w
<1>7. /\ remote' \in Collection /\ Twins(w, remote') /\ Numbered(remote', lastId')
      /\ \A f \in Folders : \A i \in DOMAIN w.items[f] :
           IF w.items[f][i].id = None THEN remote'.items[f][i].id > lastId
           ELSE remote'.items[f][i].id = w.items[f][i].id
  BY <1>1, <1>5, <1>6, StoreKeeps
<1>8. ASSUME NEW f \in Folders
      PROVE  DOMAIN remote'.items[f] = DOMAIN p.items[f] /\ DOMAIN w.items[f] = DOMAIN p.items[f]
  BY <1>6, <1>7 DEF Twins
<1>9. ASSUME NEW f \in Folders, NEW i \in DOMAIN p.items[f]
      PROVE  /\ remote'.items[f][i].name = p.items[f][i].name
             /\ IF Matching(p.items[f], c.items[f], p.items[f][i])
                THEN \E j \in Places(c.items[f], p.items[f][i]) :
                       remote'.items[f][i].id = c.items[f][j].id
                ELSE remote'.items[f][i].id > lastId
  <2>1. remote'.items[f][i].name = p.items[f][i].name
    BY <1>6, <1>7, <1>8 DEF Twins, Twin
  <2>2. IF w.items[f][i].id = None THEN remote'.items[f][i].id > lastId
        ELSE remote'.items[f][i].id = w.items[f][i].id
    BY <1>7, <1>8
  <2>3. CASE Matching(p.items[f], c.items[f], p.items[f][i])
    <3>1. PICK j \in Places(c.items[f], p.items[f][i]) : w.items[f][i].id = c.items[f][j].id
      BY <1>6, <2>3
    <3>2. c.items[f][j].id \in 1..lastId
      BY <1>4 DEF Places, Numbered
    <3>3. c.items[f][j].id # None
      BY <1>1, <3>2, NoneAssumption
    <3> QED BY <2>1, <2>2, <2>3, <3>1, <3>3
  <2>4. CASE ~Matching(p.items[f], c.items[f], p.items[f][i])
    BY <1>6, <2>1, <2>2, <2>4
  <2> QED BY <2>3, <2>4
<1> QED BY <1>1, <1>2, <1>4, <1>7, <1>8, <1>9 DEF p, c

\* IdsStable: replacing the collection gives a request whose label is still there, and
\* not ambiguous, the id it had; no id passes to another label, and none is there twice.
THEOREM IdsStableSafe == Spec => IdsStable
<1>1. ASSUME IInv, Apply, plan.action = "update" PROVE KeptIds
  <2> DEFINE p == plan.publication
             c == plan.remote
  <2>1. /\ c \in Collection /\ Numbered(c, lastId) /\ lastId \in Nat
        /\ p \in Collection /\ remote' \in Collection /\ Numbered(remote', lastId')
        /\ \A f \in Folders :
             /\ DOMAIN remote'.items[f] = DOMAIN p.items[f]
             /\ \A i \in DOMAIN p.items[f] :
                  /\ remote'.items[f][i].name = p.items[f][i].name
                  /\ IF Matching(p.items[f], c.items[f], p.items[f][i])
                     THEN \E j \in Places(c.items[f], p.items[f][i]) :
                            remote'.items[f][i].id = c.items[f][j].id
                     ELSE remote'.items[f][i].id > lastId
    BY <1>1, UpdateIds, Zenon
  <2>2. \A f, g \in Folders :
          \A i \in DOMAIN remote'.items[f], j \in DOMAIN remote'.items[g] :
             remote'.items[f][i].id = remote'.items[g][j].id => f = g /\ i = j
    BY <2>1 DEF Numbered
  <2>3. ASSUME NEW f \in Folders, NEW i \in DOMAIN remote'.items[f], NEW j \in DOMAIN c.items[f],
               remote'.items[f][i].id = c.items[f][j].id
        PROVE  remote'.items[f][i].name = c.items[f][j].name
    <3> HIDE DEF p, c
    <3>1. c.items[f][j].id \in 1..lastId
      BY <2>1 DEF Numbered
    <3>2. ~(remote'.items[f][i].id > lastId)
      BY <2>1, <2>3, <3>1
    <3>3. PICK k \in Places(c.items[f], p.items[f][i]) : remote'.items[f][i].id = c.items[f][k].id
      BY <2>1, <3>2
    <3>4. k \in DOMAIN c.items[f] /\ c.items[f][k].name = p.items[f][i].name
      BY DEF Places, Identity
    <3>5. k = j
      <4>1. \A x, y \in DOMAIN c.items[f] : c.items[f][x].id = c.items[f][y].id => x = y
        BY <2>1 DEF Numbered
      <4>2. c.items[f][k].id = c.items[f][j].id
        BY <2>3, <3>3
      <4> QED BY <2>3, <3>4, <4>1, <4>2
    <3> QED BY <2>1, <3>4, <3>5
  <2>4. ASSUME NEW f \in Folders, NEW i \in DOMAIN remote'.items[f], NEW j \in DOMAIN c.items[f],
               remote'.items[f][i].name = c.items[f][j].name,
               \A k \in DOMAIN remote'.items[f] \ {i} :
                  remote'.items[f][k].name # remote'.items[f][i].name,
               \A k \in DOMAIN c.items[f] \ {j} : c.items[f][k].name # c.items[f][j].name
        PROVE  remote'.items[f][i].id = c.items[f][j].id
    <3> HIDE DEF p, c
    <3> DEFINE r == p.items[f][i]
    <3>1. /\ i \in DOMAIN p.items[f] /\ r.name = remote'.items[f][i].name
          /\ \A k \in DOMAIN p.items[f] : p.items[f][k].name = remote'.items[f][k].name
      BY <2>1
    <3>2. Places(p.items[f], r) = {i}
      BY <2>1, <2>4, <3>1 DEF Places, Identity
    <3>3. Places(c.items[f], r) = {j}
      BY <2>4, <3>1 DEF Places, Identity
    <3>4. Matching(p.items[f], c.items[f], r)
      BY <3>2, <3>3, FS_Singleton DEF Matching
    <3>5. \E k \in Places(c.items[f], r) : remote'.items[f][i].id = c.items[f][k].id
      BY <2>1, <3>1, <3>4
    <3> QED BY <3>3, <3>5
  <2> QED BY <2>2, <2>3, <2>4 DEF KeptIds
<1>2. IInv /\ [Next]_vars => [Apply /\ plan.action = "update" => KeptIds]_vars
  BY <1>1
<1> QED BY <1>2, Invariance, PTL DEF Spec, IdsStable

-----------------------------------------------------------------------------
(* The three contents of PublicSync.                                         *)

Content(c) ==
  IF ~ValidCollection(c) THEN "refused"
  ELSE IF Same(Published(canonical, contract), c) THEN "wanted" ELSE "drifted"

EnvironmentContent(e) ==
  IF ~SafeEnvironment(e) THEN "refused"
  ELSE IF SameEnvironment(Approved(contract), e) THEN "wanted" ELSE "drifted"

\* A plan looks at the contents only, and what it writes is the wanted content.
ContentSteps ==
  /\ Plan =>
       /\ remote # None => remote.marker # None /\ Content(remote) # "refused"
       /\ plan'.action = IF remote = None THEN "create"
                         ELSE IF Content(remote) = "wanted" THEN "unchanged" ELSE "update"
       /\ environment # None => EnvironmentContent(environment) # "refused"
       /\ plan'.environmentAction =
            IF environment = None THEN "create"
            ELSE IF EnvironmentContent(environment) = "wanted" THEN "unchanged" ELSE "update"
  /\ Refused =>
       remote # None /\ (\/ remote.marker = None \/ Content(remote) = "refused"
                         \/ EnvironmentContent(environment) = "refused")
  /\ Apply /\ plan.of = files =>
       /\ (plan.action = "unchanged" => plan.remote = remote) =>
            remote'.marker # None /\ Content(remote)' = "wanted"
       /\ (plan.environmentAction = "unchanged" => plan.environment = environment) =>
            EnvironmentContent(environment)' = "wanted"

\* What equals a valid collection is valid.
LEMMA SameValid ==
  ASSUME NEW c \in Collection, NEW d \in Collection, Same(c, d), ValidCollection(c)
  PROVE  ValidCollection(d)
<1>1. /\ c.generated = d.generated /\ c.guard = d.guard /\ c.marker = d.marker
      /\ \A f \in Folders :
           /\ DOMAIN c.items[f] = DOMAIN d.items[f]
           /\ \A i \in DOMAIN c.items[f] : Clean(c.items[f][i]) = Clean(d.items[f][i])
  BY SameMeans
<1>2. ASSUME NEW f \in Folders, NEW i \in DOMAIN c.items[f]
      PROVE  LET r == c.items[f][i]
                 s == d.items[f][i]
             IN  /\ s.op = r.op /\ s.text = r.text /\ s.script = r.script
                 /\ s.scenario = r.scenario
  <2>1. c.items[f][i] \in Request /\ d.items[f][i] \in Request
    BY <1>1, ItemsType
  <2> QED BY <1>1, <2>1, CleanMeans
<1>3. Alike(c, d)
  BY <1>1, <1>2 DEF Alike
<1>4. Generated(d) <=> Generated(c)
  BY <1>1 DEF Generated
<1> QED BY <1>1, <1>3, <1>4, ValidAlike

\* A plan of these files writes what is wanted, or has found it.
LEMMA ApplyWrites ==
  ASSUME IInv, Apply, plan.of = files, plan.action = "unchanged" => plan.remote = remote
  PROVE  /\ remote'.marker # None /\ ValidCollection(remote')
         /\ Same(Published(canonical, contract), remote')
<1>1. /\ pc = "planned" /\ plan.of[1] = canonical /\ plan.of[2] = contract
      /\ canonical \in Collection /\ canonical.marker = None /\ contract \in Contracts
      /\ lastId \in Nat /\ remote \in Collection \union {None}
  BY DEF Apply, files, IInv, Raw, TypeOK
<1>2. CASE plan.action # "unchanged"
  <2>1. /\ remote' \in Collection /\ remote'.generated = FALSE /\ Numbered(remote', lastId')
        /\ remote'.marker = Says(canonical, contract) /\ remote'.marker # None
        /\ ValidCollection(remote')
        /\ Shown(remote') = Shown(canonical) /\ remote'.guard = canonical.guard
    BY <1>1, <1>2, ApplyStores
  <2> QED BY <1>1, <2>1, SamePublished
<1>3. CASE plan.action = "unchanged"
  <2> DEFINE p == Published(canonical, contract)
  <2>1. remote' = remote /\ plan.remote = remote
    BY <1>3 DEF Apply
  <2>2. /\ plan.remote # None /\ Same(plan.publication, plan.remote)
        /\ plan.publication = p
    BY <1>1, <1>3 DEF IInv, PlanInv, Action
  <2>3. /\ plan.publication \in Collection /\ ValidCollection(plan.publication)
        /\ plan.publication.marker # None
    BY <1>1, PlanFields, NoneAssumption
  <2> HIDE DEF p
  <2>4. p \in Collection /\ ValidCollection(p) /\ p.marker # None
    BY <2>2, <2>3
  <2>5. remote \in Collection /\ Same(p, remote)
    BY <1>1, <2>1, <2>2
  <2>6. ValidCollection(remote) /\ remote.marker = p.marker
    BY <2>4, <2>5, SameValid, SameMeans
  <2>7. /\ remote'.marker # None /\ ValidCollection(remote') /\ Same(p, remote')
    BY <2>1, <2>4, <2>5, <2>6
  <2> QED BY <2>7 DEF p
<1> QED BY <1>2, <1>3

\* The same of the environment.
LEMMA ApplySets ==
  ASSUME IInv, Apply, plan.of = files,
         plan.environmentAction = "unchanged" => plan.environment = environment
  PROVE  SafeEnvironment(environment') /\ SameEnvironment(Approved(contract), environment')
<1>1. /\ pc = "planned" /\ plan.of[2] = contract /\ contract \in Contracts
      /\ environment \in Environment \union {None}
  BY DEF Apply, files, IInv, TypeOK
<1>2. environment' \in Environment /\ SameEnvironment(Approved(contract), environment')
  <2>1. CASE plan.environmentAction = "unchanged"
    <3>1. environment' = environment /\ plan.environment = environment
      BY <2>1 DEF Apply
    <3>2. plan.environment # None /\ SameEnvironment(Approved(contract), plan.environment)
      BY <1>1, <2>1 DEF IInv, PlanInv, Action
    <3> QED BY <1>1, <3>1, <3>2
  <2>2. CASE plan.environmentAction # "unchanged"
    <3>1. environment' = Approved(contract)
      BY <1>1, <2>2 DEF Apply
    <3> QED BY <1>1, <3>1, ApprovedType
  <2> QED BY <2>1, <2>2
<1> QED BY <1>1, <1>2, ApprovedSafe

\* The three contents PublicSync tells apart are enough: plan_sync decides by them and
\* by the marker alone, and what sync_public writes, or leaves because it is unchanged,
\* is the wanted content.
THEOREM ContentsSuffice == Spec => [][ContentSteps]_vars
<1>1. ASSUME IInv, Plan
      PROVE  /\ remote # None => remote.marker # None /\ Content(remote) # "refused"
             /\ plan'.action = IF remote = None THEN "create"
                               ELSE IF Content(remote) = "wanted" THEN "unchanged" ELSE "update"
             /\ environment # None => EnvironmentContent(environment) # "refused"
             /\ plan'.environmentAction =
                  IF environment = None THEN "create"
                  ELSE IF EnvironmentContent(environment) = "wanted" THEN "unchanged"
                  ELSE "update"
  <2>1. /\ remote # None => remote.marker # None /\ ValidCollection(remote)
        /\ environment # None => SafeEnvironment(environment)
    BY <1>1 DEF Plan, Inspected
  <2>2. /\ plan'.action = Action(remote # None, Same(Published(canonical, contract), remote))
        /\ plan'.environmentAction =
             Action(environment # None, SameEnvironment(Approved(contract), environment))
    BY <1>1 DEF Plan
  <2> QED BY <2>1, <2>2 DEF Content, EnvironmentContent, Action
<1>2. ASSUME IInv, Refused
      PROVE  remote # None /\ (\/ remote.marker = None \/ Content(remote) = "refused"
                               \/ EnvironmentContent(environment) = "refused")
  <2>1. remote = None <=> environment = None
    BY <1>2 DEF IInv, PostmanInv
  <2> QED BY <1>2, <2>1 DEF Refused, Inspected, Content, EnvironmentContent
<1>3. ASSUME IInv, Apply, plan.of = files
      PROVE  /\ (plan.action = "unchanged" => plan.remote = remote) =>
                  remote'.marker # None /\ Content(remote)' = "wanted"
             /\ (plan.environmentAction = "unchanged" => plan.environment = environment) =>
                  EnvironmentContent(environment)' = "wanted"
  <2>1. canonical' = canonical /\ contract' = contract
    BY <1>3 DEF Apply, files
  <2>2. ASSUME plan.action = "unchanged" => plan.remote = remote
        PROVE  remote'.marker # None /\ Content(remote)' = "wanted"
    BY <1>3, <2>1, <2>2, ApplyWrites DEF Content
  <2>3. ASSUME plan.environmentAction = "unchanged" => plan.environment = environment
        PROVE  EnvironmentContent(environment)' = "wanted"
    BY <1>3, <2>1, <2>3, ApplySets DEF EnvironmentContent
  <2> QED BY <2>2, <2>3
<1>4. IInv /\ [Next]_vars => [ContentSteps]_vars
  BY <1>1, <1>2, <1>3 DEF ContentSteps
<1> QED BY <1>4, Invariance, PTL DEF Spec
=============================================================================
