---------------------------- MODULE LobbyPageProofs ----------------------------
(***************************************************************************)
(* The pages of the lobby miss no room and list none twice, for any number *)
(* of rooms and requests and any size of a page. First what the query      *)
(* returns, then what an answer says of the rooms that stay open, then the *)
(* invariant of the page.                                                  *)
(***************************************************************************)
EXTENDS LobbyPage, FiniteSetTheorems, WellFoundedInduction, TLAPS

LessThan == {p \in Nat \X Nat : p[1] < p[2]}

\* A non-empty set of naturals has a least element.
LEMMA LeastNat ==
  ASSUME NEW T, T \subseteq Nat, T # {}
  PROVE  \E x \in T : \A y \in T : x <= y
<1>1. IsWellFoundedOn(LessThan, Nat)
  BY NatLessThanWellFounded DEF OpToRel, LessThan
<1>2. \E x \in T : \A y \in T : ~ (<<y, x>> \in LessThan)
  BY <1>1, WFMin
<1>3. \A x, y \in T : ~ (<<y, x>> \in LessThan) => x <= y
  BY DEF LessThan
<1>4. QED
  BY <1>2, <1>3

LEMMA KeysAreNumbers == \A k \in Keys : k \in Nat /\ k # 0 /\ k <= Newest /\ Newest - k \in Nat
BY BoundsAssumption DEF Keys

\* A non-empty set of keys has a newest one.
LEMMA NewestKey ==
  ASSUME NEW S \in SUBSET Keys, S # {}
  PROVE  \E x \in S : \A y \in S : y <= x
<1> DEFINE T == {Newest - k : k \in S}
<1>1. T \subseteq Nat /\ T # {}
  BY KeysAreNumbers
<1>2. PICK t \in T : \A y \in T : t <= y
  BY <1>1, LeastNat
<1>3. PICK x \in S : t = Newest - x
  BY <1>2
<1>4. \A y \in S : Newest - x <= Newest - y
  BY <1>2, <1>3
<1>5. QED
  BY <1>3, <1>4, BoundsAssumption, KeysAreNumbers

LEMMA KeysAreFinite ==
  ASSUME NEW S \in SUBSET Keys
  PROVE  IsFiniteSet(S) /\ Cardinality(S) \in Nat
<1>1. IsFiniteSet(Keys)
  BY BoundsAssumption, FS_Interval DEF Keys
<1>2. IsFiniteSet(S)
  BY <1>1, FS_Subset
<1>3. QED
  BY <1>2, FS_CardinalityType

-----------------------------------------------------------------------------
(* The query                                                               *)

\* f lists the keys S, greatest first.
Lists(f, S) ==
  /\ f \in [1 .. Cardinality(S) -> S]
  /\ \A i, j \in DOMAIN f : i < j => f[j] < f[i]

\* A set of keys without its least one can be listed, and that one comes last.
LEMMA OneMoreIsListed ==
  ASSUME NEW S \in SUBSET Keys, NEW x \in S, \A y \in S : x <= y,
         NEW g, Lists(g, S \ {x})
  PROVE  \E f : Lists(f, S)
<1> DEFINE n == Cardinality(S)
           f == [i \in 1 .. n |-> IF i = n THEN x ELSE g[i]]
<1>1. Cardinality(S \ {x}) = n - 1 /\ n \in Nat /\ n # 0
  BY KeysAreFinite, FS_RemoveElement, FS_EmptySet
<1>2. \A i \in 1 .. n : i # n => i \in DOMAIN g /\ g[i] \in S \ {x}
  <2>1. DOMAIN g = 1 .. n - 1 /\ g \in [1 .. n - 1 -> S \ {x}]
    BY <1>1 DEF Lists
  <2>2. \A i \in 1 .. n : i # n => i \in 1 .. n - 1
    BY <1>1
  <2>3. QED
    BY <2>1, <2>2
<1>3. f \in [1 .. n -> S]
  BY <1>2
<1>4. \A i, j \in 1 .. n : i < j => f[j] < f[i]
  <2> SUFFICES ASSUME NEW i \in 1 .. n, NEW j \in 1 .. n, i < j PROVE f[j] < f[i]
    OBVIOUS
  <2>1. i # n /\ g[i] \in S \ {x} /\ i \in DOMAIN g
    BY <1>1, <1>2
  <2>2. CASE j = n
    BY <2>1, <2>2, KeysAreNumbers
  <2>3. CASE j # n
    BY <1>2, <2>1, <2>3 DEF Lists
  <2>4. QED
    BY <2>2, <2>3
<1>5. QED
  BY <1>3, <1>4 DEF Lists

\* Every set of keys can be listed: there is no least number of keys that cannot.
LEMMA EverySetIsListed ==
  ASSUME NEW S \in SUBSET Keys
  PROVE  \E f : Lists(f, S)
<1> DEFINE Bad == {n \in Nat : \E U \in SUBSET Keys : Cardinality(U) = n /\ ~ \E f : Lists(f, U)}
<1>1. Bad = {}
  <2> SUFFICES ASSUME Bad # {} PROVE FALSE
    OBVIOUS
  <2>1. PICK n \in Bad : \A m \in Bad : n <= m
    BY LeastNat
  <2>2. PICK U \in SUBSET Keys : Cardinality(U) = n /\ ~ \E f : Lists(f, U)
    BY <2>1
  <2>3. CASE U = {}
    <3> DEFINE none == [i \in 1 .. 0 |-> 0]
    <3>1. Cardinality(U) = 0
      BY <2>3, FS_EmptySet
    <3>2. 1 .. 0 = {}
      OBVIOUS
    <3>3. Lists(none, U)
      BY <3>1, <3>2 DEF Lists
    <3>4. QED
      BY <2>2, <3>3
  <2>4. CASE U # {}
    <3>1. PICK x \in U : \A y \in U : x <= y
      BY <2>4, LeastNat, KeysAreNumbers
    <3>2. Cardinality(U \ {x}) = n - 1 /\ n - 1 \in Nat
      BY <2>2, KeysAreFinite, FS_RemoveElement, FS_EmptySet
    <3>3. n - 1 \notin Bad
      BY <2>1, <3>2
    <3>4. \E g : Lists(g, U \ {x})
      BY <3>2, <3>3
    <3>5. QED
      BY <2>2, <3>1, <3>4, OneMoreIsListed
  <2>5. QED
    BY <2>3, <2>4
<1>2. Cardinality(S) \in Nat
  BY KeysAreFinite
<1>3. QED
  BY <1>1, <1>2

\* NewestFirst lists every key of the set.
LEMMA NewestFirstLists ==
  ASSUME NEW S \in SUBSET Keys
  PROVE  /\ NewestFirst(S) \in [1 .. Cardinality(S) -> S]
         /\ \A i, j \in 1 .. Cardinality(S) : i < j => NewestFirst(S)[j] < NewestFirst(S)[i]
         /\ \A k \in S : \E i \in 1 .. Cardinality(S) : NewestFirst(S)[i] = k
<1> DEFINE f == NewestFirst(S)
           n == Cardinality(S)
<1>1. Lists(f, S)
  <2>1. \E g \in [1 .. Cardinality(S) -> S] : \A i, j \in DOMAIN g : i < j => g[j] < g[i]
    BY EverySetIsListed DEF Lists
  <2>2. QED
    BY <2>1 DEF NewestFirst, Lists
<1> HIDE DEF f
<1>2. f \in [1 .. n -> S] /\ \A i, j \in 1 .. n : i < j => f[j] < f[i]
  BY <1>1 DEF Lists
<1>3. n \in Nat /\ IsFiniteSet(S)
  BY KeysAreFinite
<1>4. IsFiniteSet(1 .. n) /\ Cardinality(1 .. n) = n
  BY <1>3, FS_Interval
<1>5. f \in Injection(1 .. n, S)
  <2>1. \A i, j \in 1 .. n : f[i] \in Nat /\ (i # j => i < j \/ j < i)
    BY <1>2, <1>3, KeysAreNumbers
  <2>2. \A i, j \in 1 .. n : f[i] = f[j] => i = j
    BY <1>2, <2>1
  <2>3. QED
    BY <1>2, <2>2 DEF Injection, IsInjective
<1>6. f \in Surjection(1 .. n, S)
  <2> HIDE DEF n
  <2>1. Cardinality(1 .. n) = Cardinality(S)
    BY <1>4 DEF n
  <2>2. QED
    BY <1>3, <1>4, <1>5, <2>1, FS_Injection
<1>7. \A k \in S : \E i \in 1 .. n : f[i] = k
  BY <1>6 DEF Surjection
<1>8. QED
  BY <1>2, <1>7 DEF f

-----------------------------------------------------------------------------
(* The answer                                                              *)

\* The open rooms past a cursor.
Past(cursor) == {k \in Open : cursor = Start \/ k < cursor}

Newer(k, cursor) == {j \in Past(cursor) : j > k}

\* A page that follows the cursor: newest first, past the cursor, up to the next
\* cursor, with every room in between that has been open since the list was begun.
Follows(answer, cursor) ==
  /\ \A i, j \in DOMAIN answer.items : i < j => answer.items[j] < answer.items[i]
  /\ \A i \in DOMAIN answer.items : cursor = Start \/ answer.items[i] < cursor
  /\ answer.next # Start =>
       /\ \E i \in DOMAIN answer.items : answer.items[i] = answer.next
       /\ \A i \in DOMAIN answer.items : answer.next <= answer.items[i]
  /\ \A k \in steady : k >= answer.next /\ (cursor = Start \/ k < cursor) =>
       \E i \in DOMAIN answer.items : answer.items[i] = k

\* The rooms a query with this limit returns.
Top(cursor, limit) == {k \in Past(cursor) : Cardinality(Newer(k, cursor)) < limit}

LEMMA FetchedIsTop ==
  ASSUME NEW cursor, NEW limit
  PROVE  Fetched(cursor, limit) = NewestFirst(Top(cursor, limit))
BY DEF Fetched, Top, Past, Newer

LEMMA PastAreKeys ==
  ASSUME NEW cursor, NEW limit
  PROVE  /\ Past(cursor) \in SUBSET Keys /\ Top(cursor, limit) \in SUBSET Keys
         /\ \A k \in Keys : Newer(k, cursor) \in SUBSET Keys
BY DEF Past, Top, Newer, Open

\* Whatever is newer than a row of the query is one, too.
LEMMA TopIsUpward ==
  ASSUME NEW cursor, NEW limit \in Nat,
         NEW k \in Past(cursor), NEW j \in Top(cursor, limit), j <= k
  PROVE  k \in Top(cursor, limit)
<1>1. j \in Keys /\ k \in Keys
  BY PastAreKeys
<1>2. Newer(k, cursor) \subseteq Newer(j, cursor)
  BY <1>1, PastAreKeys, KeysAreNumbers DEF Newer
<1>3. Cardinality(Newer(k, cursor)) <= Cardinality(Newer(j, cursor))
  BY <1>1, <1>2, PastAreKeys, KeysAreFinite, FS_Subset
<1>4. Cardinality(Newer(j, cursor)) < limit
  BY DEF Top
<1>5. Cardinality(Newer(k, cursor)) \in Nat /\ Cardinality(Newer(j, cursor)) \in Nat
  BY <1>1, PastAreKeys, KeysAreFinite
<1>6. QED
  BY <1>3, <1>4, <1>5 DEF Top

\* A query that returns fewer rows than its limit returns all there are: the newest room
\* left out would have only those rows before it.
LEMMA TopIsAll ==
  ASSUME NEW cursor, NEW limit \in Nat, Cardinality(Top(cursor, limit)) < limit
  PROVE  Top(cursor, limit) = Past(cursor)
<1> DEFINE top == Top(cursor, limit)
           out == Past(cursor) \ top
<1>1. out \in SUBSET Keys /\ top \in SUBSET Keys
  BY PastAreKeys
<1>2. out = {}
  <2> SUFFICES ASSUME out # {} PROVE FALSE
    OBVIOUS
  <2>1. PICK x \in out : \A y \in out : y <= x
    BY <1>1, NewestKey
  <2>2. Newer(x, cursor) \subseteq top
    BY <1>1, <2>1, PastAreKeys, KeysAreNumbers DEF Newer
  <2>3. Cardinality(Newer(x, cursor)) <= Cardinality(top)
    BY <1>1, <2>2, KeysAreFinite, FS_Subset
  <2>4. Cardinality(Newer(x, cursor)) \in Nat /\ Cardinality(top) \in Nat
    BY <1>1, <2>1, PastAreKeys, KeysAreFinite
  <2>5. x \in top
    BY <2>1, <2>3, <2>4 DEF Top
  <2>6. QED
    BY <2>1, <2>5
<1>3. QED
  BY <1>2 DEF Top

LEMMA FetchedLists ==
  ASSUME NEW cursor, NEW limit \in Nat
  PROVE  LET f == Fetched(cursor, limit)
             top == Top(cursor, limit)
         IN  /\ f \in Seq(Keys) /\ Len(f) = Cardinality(top)
             /\ \A i \in 1 .. Len(f) : f[i] \in top
             /\ \A i, j \in 1 .. Len(f) : i < j => f[j] < f[i]
             /\ \A k \in top : \E i \in 1 .. Len(f) : f[i] = k
<1> DEFINE top == Top(cursor, limit)
           f == NewestFirst(top)
           n == Cardinality(top)
<1>1. top \in SUBSET Keys /\ n \in Nat
  BY PastAreKeys, KeysAreFinite
<1>2. /\ f \in [1 .. n -> top]
      /\ \A i, j \in 1 .. n : i < j => f[j] < f[i]
      /\ \A k \in top : \E i \in 1 .. n : f[i] = k
  BY <1>1, NewestFirstLists
<1> HIDE DEF f, n, top
<1>3. f \in [1 .. n -> Keys]
  BY <1>1, <1>2
<1>4. f \in Seq(Keys) /\ Len(f) = n
  BY <1>1, <1>3
<1>5. \A i \in 1 .. n : f[i] \in top
  BY <1>2
<1>6. QED
  BY <1>2, <1>4, <1>5, FetchedIsTop DEF f, n, top

\* A short answer is the last: it has every room past the cursor.
LEMMA LastAnswerFollows ==
  ASSUME steady \subseteq Open, NEW sent \in Sent,
         Len(Fetched(sent.cursor, Limit + 1)) <= Limit
  PROVE  AnswerTo(sent) \in Answered /\ Follows(AnswerTo(sent), sent.cursor)
<1> DEFINE c == sent.cursor
           f == Fetched(c, Limit + 1)
           top == Top(c, Limit + 1)
           a == [at |-> "answered", reload |-> sent.reload, items |-> f, next |-> Start]
<1>1. /\ f \in Seq(Keys) /\ Len(f) = Cardinality(top)
      /\ \A i \in 1 .. Len(f) : f[i] \in top
      /\ \A i, j \in 1 .. Len(f) : i < j => f[j] < f[i]
      /\ \A k \in top : \E i \in 1 .. Len(f) : f[i] = k
  BY BoundsAssumption, FetchedLists
<1>2. top = Past(c)
  BY <1>1, BoundsAssumption, TopIsAll
<1> HIDE DEF f, top
<1>3. AnswerTo(sent) = a
  BY <1>1, BoundsAssumption DEF AnswerTo, f
<1>4. a \in Answered
  <2>1. Len(f) \in 0 .. Limit /\ f \in [1 .. Len(f) -> Keys]
    BY <1>1, BoundsAssumption DEF f
  <2>2. f \in Page
    BY <2>1 DEF Page
  <2>3. QED
    BY <2>2 DEF Answered, Sent
<1>5. DOMAIN f = 1 .. Len(f)
  BY <1>1
<1>6. \A i \in 1 .. Len(f) : c = Start \/ f[i] < c
  BY <1>1, <1>2 DEF Past
<1>7. \A k \in steady : c = Start \/ k < c => k \in top
  BY <1>2 DEF Past
<1>8. Follows(a, c)
  BY <1>1, <1>5, <1>6, <1>7 DEF Follows
<1>9. QED
  BY <1>3, <1>4, <1>8

\* A full answer ends at the row its cursor names, not at the one that was cut off.
LEMMA FullAnswerFollows ==
  ASSUME steady \subseteq Open, NEW sent \in Sent,
         Len(Fetched(sent.cursor, Limit + 1)) > Limit
  PROVE  AnswerTo(sent) \in Answered /\ Follows(AnswerTo(sent), sent.cursor)
<1> DEFINE c == sent.cursor
           f == Fetched(c, Limit + 1)
           top == Top(c, Limit + 1)
           items == SubSeq(f, 1, Limit)
           a == [at |-> "answered", reload |-> sent.reload, items |-> items, next |-> f[Limit]]
<1>1. /\ f \in Seq(Keys) /\ Len(f) = Cardinality(top)
      /\ \A i \in 1 .. Len(f) : f[i] \in top
      /\ \A i, j \in 1 .. Len(f) : i < j => f[j] < f[i]
      /\ \A k \in top : \E i \in 1 .. Len(f) : f[i] = k
  BY BoundsAssumption, FetchedLists
<1>2. \A k \in Past(c), j \in top : j <= k => k \in top
  BY BoundsAssumption, TopIsUpward
<1>3. top \subseteq Past(c) /\ Past(c) \subseteq Keys
  BY PastAreKeys DEF Top
<1> HIDE DEF f, top
<1>4. AnswerTo(sent) = a
  BY DEF AnswerTo, f
<1>5. /\ items \in [1 .. Limit -> Keys] /\ \A i \in 1 .. Limit : items[i] = f[i]
      /\ Limit \in 1 .. Len(f) /\ \A i \in 1 .. Limit : i \in 1 .. Len(f)
      /\ \A i \in 1 .. Len(f) : f[i] \in Keys
  <2>1. Len(f) > Limit /\ Len(f) \in Nat /\ Limit \in Nat /\ Limit # 0 /\ f \in Seq(Keys)
    BY <1>1, BoundsAssumption DEF f
  <2> HIDE DEF f
  <2>2. Limit \in 1 .. Len(f) /\ \A i \in 1 .. Limit : i \in 1 .. Len(f)
    BY <2>1
  <2>3. \A i \in 1 .. Len(f) : f[i] \in Keys
    BY <2>1
  <2>4. items \in Seq(Keys) /\ Len(items) = Limit /\ \A i \in 1 .. Limit : items[i] = f[i]
    BY <2>1, <2>2, <2>3
  <2> HIDE DEF items
  <2>5. items \in [1 .. Limit -> Keys]
    BY <2>4
  <2>6. QED
    BY <2>2, <2>3, <2>4, <2>5
<1> HIDE DEF items
<1>6. a \in Answered
  <2>1. items \in Page
    BY <1>5, BoundsAssumption DEF Page
  <2>2. QED
    BY <1>5, <2>1 DEF Answered, Sent
<1>7. DOMAIN items = 1 .. Limit
  BY <1>5
<1>8. \A i \in 1 .. Limit : c = Start \/ items[i] < c
  BY <1>1, <1>3, <1>5 DEF Past
<1>9. \A i, j \in 1 .. Limit : i < j => items[j] < items[i]
  BY <1>1, <1>5
<1>10. \A i \in 1 .. Limit : f[Limit] <= items[i]
  <2> SUFFICES ASSUME NEW i \in 1 .. Limit PROVE f[Limit] <= f[i]
    BY <1>5
  <2>1. i < Limit \/ i = Limit
    BY BoundsAssumption
  <2>2. f[i] \in Nat /\ f[Limit] \in Nat
    BY <1>5, KeysAreNumbers
  <2>3. QED
    BY <1>1, <1>5, <2>1, <2>2
<1>11. \A k \in steady : k >= f[Limit] /\ (c = Start \/ k < c) => \E i \in 1 .. Limit : items[i] = k
  <2> SUFFICES ASSUME NEW k \in steady, k >= f[Limit], c = Start \/ k < c
               PROVE  \E i \in 1 .. Limit : items[i] = k
    OBVIOUS
  <2>1. k \in Past(c) /\ k \in Keys
    BY <1>3 DEF Past
  <2>2. f[Limit] \in top /\ f[Limit] \in Keys
    BY <1>1, <1>5
  <2>3. k \in top
    BY <1>2, <2>1, <2>2, KeysAreNumbers
  <2>4. PICK i \in 1 .. Len(f) : f[i] = k
    BY <1>1, <2>3
  <2>5. ~ Limit < i
    BY <1>1, <1>5, <2>2, <2>4, KeysAreNumbers
  <2>6. QED
    BY <1>5, <2>4, <2>5, BoundsAssumption
<1>12. Follows(a, c)
  BY <1>5, <1>7, <1>8, <1>9, <1>10, <1>11, BoundsAssumption DEF Follows
<1>13. QED
  BY <1>4, <1>6, <1>12

LEMMA AnswerFollows ==
  ASSUME steady \subseteq Open, NEW sent \in Sent
  PROVE  AnswerTo(sent) \in Answered /\ Follows(AnswerTo(sent), sent.cursor)
<1>1. Len(Fetched(sent.cursor, Limit + 1)) \in Nat
  BY BoundsAssumption, FetchedLists
<1>2. QED
  BY <1>1, BoundsAssumption, LastAnswerFollows, FullAnswerFollows

-----------------------------------------------------------------------------
(* The page                                                                *)

\* The page shows, in order, all the steady rooms down to its cursor, and what is on
\* its way continues from there.
OneAtATime ==
  /\ loading <=> \E r \in Requests : request[r] # Unused
  /\ \A r, q \in Requests : request[r] # Unused /\ request[q] # Unused => r = q

Continues ==
  \A r \in Requests :
    /\ request[r].at = "sent" => request[r].cursor = nextCursor
    /\ request[r].at = "answered" => Follows(request[r], nextCursor)

ListedDownToCursor ==
  /\ loading /\ nextCursor = Start => rooms = <<>>
  /\ nextCursor # Start => rooms # <<>>
  /\ \A i \in DOMAIN rooms : nextCursor <= rooms[i]
  /\ \A i, j \in DOMAIN rooms : i < j => rooms[j] < rooms[i]
  /\ rooms # <<>> \/ (~loading /\ ~listError) =>
       \A k \in steady : k >= nextCursor => \E i \in DOMAIN rooms : rooms[i] = k

PageInv ==
  /\ TypeOK
  /\ steady \subseteq Open
  /\ ~overlap => OneAtATime /\ Continues /\ ListedDownToCursor

LEMMA PageInit == Init => PageInv
<1> SUFFICES ASSUME Init PROVE PageInv
  OBVIOUS
<1>1. PICK r \in Requests :
        request = [q \in Requests |-> IF q = r THEN [at |-> "sent", reload |-> FALSE, cursor |-> Start] ELSE Unused]
  BY DEF Init
<1>2. request \in [Requests -> {Unused} \cup Sent \cup Answered]
  BY <1>1 DEF Sent
<1>3. TypeOK
  <2>1. room \in [Keys -> {"hidden", "open", "gone"}] /\ steady \subseteq Keys
    BY DEF Init, Open
  <2>2. rooms \in Seq(Keys)
    BY DEF Init
  <2>3. QED
    BY <1>2, <2>1, <2>2 DEF Init, TypeOK, Nobody
<1>4. \A q \in Requests : IF q = r THEN request[q].at = "sent" /\ request[q].cursor = Start /\ request[q] # Unused
                                     ELSE request[q] = Unused /\ request[q].at = "unused"
  BY <1>1 DEF Unused
<1>5. steady \subseteq Open /\ rooms = <<>> /\ nextCursor = Start /\ loading
  BY DEF Init
<1>6. OneAtATime /\ Continues
  BY <1>4, <1>5 DEF OneAtATime, Continues
<1>7. ListedDownToCursor
  BY <1>5 DEF ListedDownToCursor
<1>8. QED
  BY <1>3, <1>5, <1>6, <1>7 DEF PageInv

\* The server's steps change no page; a room that vanishes is no longer steady.
LEMMA ServerKeeps ==
  ASSUME PageInv, NEW k \in Keys, Appear(k) \/ Vanish(k)
  PROVE  PageInv'
<1>1. /\ TypeOK' /\ steady' \subseteq steady /\ steady' \subseteq Open'
      /\ UNCHANGED <<rooms, nextCursor, loading, listError, request, overlap>>
  BY DEF PageInv, TypeOK, Appear, Vanish, Open
<1>2. OneAtATime => OneAtATime'
  BY <1>1 DEF OneAtATime
<1>3. Continues => Continues'
  BY <1>1 DEF Continues, Follows
<1>4. ListedDownToCursor => ListedDownToCursor'
  BY <1>1 DEF ListedDownToCursor
<1>5. QED
  BY <1>1, <1>2, <1>3, <1>4 DEF PageInv

LEMMA ServeKeeps ==
  ASSUME PageInv, NEW r \in Requests, Serve(r)
  PROVE  PageInv'
<1>1. request \in [Requests -> {Unused} \cup Sent \cup Answered] /\ steady \subseteq Open
  BY DEF PageInv, TypeOK
<1>2. request[r] \in Sent /\ request[r] # Unused
  BY <1>1 DEF Serve, Unused, Answered
<1>3. AnswerTo(request[r]) \in Answered /\ Follows(AnswerTo(request[r]), request[r].cursor)
  BY <1>1, <1>2, AnswerFollows
<1>4. /\ request'[r] = AnswerTo(request[r])
      /\ \A q \in Requests \ {r} : request'[q] = request[q]
      /\ request' \in [Requests -> {Unused} \cup Sent \cup Answered]
      /\ UNCHANGED <<room, rooms, nextCursor, loading, listError, joining, here, steady, overlap>>
  BY <1>1, <1>3 DEF Serve
<1>5. request'[r].at = "answered" /\ request'[r] # Unused
  BY <1>3, <1>4 DEF Answered, Unused
<1>6. TypeOK' /\ steady' \subseteq Open'
  BY <1>4 DEF PageInv, TypeOK, Open
<1>7. OneAtATime => OneAtATime'
  BY <1>2, <1>4, <1>5 DEF OneAtATime
<1>8. Continues => Continues'
  <2> SUFFICES ASSUME Continues, NEW q \in Requests
               PROVE  /\ request'[q].at = "sent" => request'[q].cursor = nextCursor'
                      /\ request'[q].at = "answered" => Follows(request[q], nextCursor)'
    BY DEF Continues
  <2>1. CASE q = r
    <3>1. request[r].cursor = nextCursor
      BY DEF Continues, Serve
    <3>2. Follows(request[r], nextCursor)'
      BY <1>3, <1>4, <3>1 DEF Follows
    <3>3. QED
      BY <1>5, <2>1, <3>2
  <2>2. CASE q # r
    BY <1>4, <2>2 DEF Continues, Follows
  <2>3. QED
    BY <2>1, <2>2
<1>9. ListedDownToCursor => ListedDownToCursor'
  BY <1>4 DEF ListedDownToCursor
<1>10. QED
  BY <1>4, <1>6, <1>7, <1>8, <1>9 DEF PageInv

\* A request is sent when none is in flight, with the cursor of the page.
LEMMA SentKeeps ==
  ASSUME PageInv, NEW reload \in BOOLEAN, LoadFrom(nextCursor', reload),
         nextCursor' \in Keys \cup {Start}
  PROVE  /\ request' \in [Requests -> {Unused} \cup Sent \cup Answered]
         /\ (\A q \in Requests : request[q] = Unused) => OneAtATime' /\ Continues'
<1>1. request \in [Requests -> {Unused} \cup Sent \cup Answered]
  BY DEF PageInv, TypeOK
<1> DEFINE sent == [at |-> "sent", reload |-> reload, cursor |-> nextCursor']
<1>2. sent \in Sent /\ sent # Unused /\ sent.at = "sent" /\ sent.cursor = nextCursor'
  BY DEF Sent, Unused
<1>3. PICK r \in Requests : request[r] = Unused /\ request' = [request EXCEPT ![r] = sent]
  BY DEF LoadFrom
<1> HIDE DEF sent
<1>4. request' \in [Requests -> {Unused} \cup Sent \cup Answered]
      /\ request'[r] = sent /\ \A q \in Requests \ {r} : request'[q] = request[q]
  BY <1>1, <1>2, <1>3
<1>5. ASSUME \A q \in Requests : request[q] = Unused
      PROVE  OneAtATime' /\ Continues'
  <2>1. \A q \in Requests \ {r} : request'[q] = Unused /\ request'[q].at = "unused"
    BY <1>4, <1>5 DEF Unused
  <2>2. OneAtATime'
    BY <1>2, <1>4, <2>1 DEF OneAtATime, LoadFrom
  <2>3. Continues'
    BY <1>2, <1>4, <2>1 DEF Continues
  <2>4. QED
    BY <2>2, <2>3
<1>6. QED
  BY <1>4, <1>5

LEMMA LoadMoreKeeps ==
  ASSUME PageInv, LoadMore
  PROVE  PageInv'
<1>1. /\ nextCursor # Start /\ ~loading /\ loading' = TRUE /\ listError' = FALSE
      /\ nextCursor' = nextCursor /\ nextCursor \in Keys \cup {Start}
      /\ UNCHANGED <<room, rooms, joining, here, steady, overlap>>
      /\ LoadFrom(nextCursor', FALSE)
  BY DEF LoadMore, LoadFrom, PageInv, TypeOK
<1>2. /\ request' \in [Requests -> {Unused} \cup Sent \cup Answered]
      /\ (\A q \in Requests : request[q] = Unused) => OneAtATime' /\ Continues'
  BY <1>1, SentKeeps
<1>3. TypeOK' /\ steady' \subseteq Open'
  BY <1>1, <1>2 DEF PageInv, TypeOK, Open
<1>4. OneAtATime => OneAtATime' /\ Continues'
  BY <1>1, <1>2 DEF OneAtATime
<1>5. ListedDownToCursor => ListedDownToCursor'
  BY <1>1 DEF ListedDownToCursor
<1>6. QED
  BY <1>1, <1>3, <1>4, <1>5 DEF PageInv

\* loadFirstPage begins the list again; only a request still in flight spoils it.
LEMMA JoinFailsKeeps ==
  ASSUME PageInv, JoinFails
  PROVE  PageInv'
<1>1. /\ rooms' = <<>> /\ nextCursor' = Start /\ loading' = TRUE /\ listError' = FALSE
      /\ steady' = Open /\ UNCHANGED <<room, joining, here>>
      /\ overlap' = \E r \in Requests : request[r] # Unused
      /\ LoadFrom(nextCursor', TRUE)
  BY DEF JoinFails, FirstPage, LoadFrom
<1>2. /\ request' \in [Requests -> {Unused} \cup Sent \cup Answered]
      /\ (\A q \in Requests : request[q] = Unused) => OneAtATime' /\ Continues'
  BY <1>1, SentKeeps
<1>3. TypeOK' /\ steady' \subseteq Open'
  <2>1. overlap' \in BOOLEAN
    BY <1>1
  <2>2. rooms' \in Seq(Keys) /\ Open \subseteq Keys /\ Open' = Open
    BY <1>1 DEF Open
  <2>3. QED
    BY <1>1, <1>2, <2>1, <2>2 DEF PageInv, TypeOK
<1>4. ListedDownToCursor'
  BY <1>1 DEF ListedDownToCursor
<1>5. QED
  BY <1>1, <1>2, <1>3, <1>4 DEF PageInv

\* After its await a request is over, and no other is in flight.
LEMMA SettleKeeps ==
  ASSUME PageInv, NEW r \in Requests, request[r] # Unused, Settle(r)
  PROVE  /\ request' \in [Requests -> {Unused} \cup Sent \cup Answered]
         /\ joining' \in Keys \cup {Nobody} /\ ~loading'
         /\ OneAtATime => OneAtATime' /\ Continues'
<1>1. /\ request' \in [Requests -> {Unused} \cup Sent \cup Answered]
      /\ request'[r] = Unused /\ \A q \in Requests \ {r} : request'[q] = request[q]
      /\ joining' \in Keys \cup {Nobody} /\ loading' = FALSE
  BY DEF PageInv, TypeOK, Settle
<1>2. ASSUME OneAtATime PROVE OneAtATime' /\ Continues'
  <2>1. \A q \in Requests : request'[q] = Unused /\ request'[q].at = "unused"
    BY <1>1, <1>2 DEF OneAtATime, Unused
  <2>2. QED
    BY <1>1, <2>1 DEF OneAtATime, Continues
<1>3. QED
  BY <1>1, <1>2

LEMMA LoadFailsKeeps ==
  ASSUME PageInv, NEW r \in Requests, LoadFails(r)
  PROVE  PageInv'
<1>1. /\ listError' = TRUE /\ request[r] # Unused /\ Settle(r)
      /\ UNCHANGED <<room, rooms, nextCursor, here, steady, overlap>>
  BY DEF LoadFails, Settle
<1>2. /\ request' \in [Requests -> {Unused} \cup Sent \cup Answered]
      /\ joining' \in Keys \cup {Nobody} /\ ~loading'
      /\ OneAtATime => OneAtATime' /\ Continues'
  BY <1>1, SettleKeeps
<1>3. TypeOK' /\ steady' \subseteq Open'
  BY <1>1, <1>2 DEF PageInv, TypeOK, Open, LoadFails, Settle
<1>4. ListedDownToCursor => ListedDownToCursor'
  BY <1>1, <1>2 DEF ListedDownToCursor
<1>5. QED
  BY <1>1, <1>2, <1>3, <1>4 DEF PageInv

\* The answer continues the list where its cursor says the list ended.
LEMMA LoadedKeeps ==
  ASSUME PageInv, NEW r \in Requests, Loaded(r)
  PROVE  PageInv'
<1> DEFINE items == request[r].items
           next == request[r].next
           n == Len(rooms)
<1>1. request[r] \in Answered /\ request[r] # Unused
  BY DEF PageInv, TypeOK, Loaded, Unused, Sent
<1>2. /\ rooms \in Seq(Keys) /\ items \in Seq(Keys) /\ next \in Keys \cup {Start}
      /\ nextCursor \in Keys \cup {Start}
  <2>1. PICK m \in 0 .. Limit : items \in [1 .. m -> Keys]
    BY <1>1 DEF Answered, Page
  <2>2. m \in Nat
    BY BoundsAssumption
  <2>3. items \in Seq(Keys)
    BY <2>1, <2>2
  <2>4. QED
    BY <1>1, <2>3 DEF Answered, PageInv, TypeOK
<1>3. /\ rooms' = rooms \o items /\ nextCursor' = next /\ listError' = listError
      /\ Settle(r) /\ UNCHANGED <<room, here, steady, overlap>>
  BY DEF Loaded, Settle
<1>4. /\ request' \in [Requests -> {Unused} \cup Sent \cup Answered]
      /\ joining' \in Keys \cup {Nobody} /\ ~loading' /\ loading' \in BOOLEAN
      /\ OneAtATime => OneAtATime' /\ Continues'
  BY <1>1, <1>3, SettleKeeps DEF Settle
<1>5. TypeOK' /\ steady' \subseteq Open'
  <2>1. rooms' \in Seq(Keys)
    BY <1>2, <1>3
  <2>2. QED
    BY <1>2, <1>3, <1>4, <2>1 DEF PageInv, TypeOK, Open
<1>6. ASSUME OneAtATime, Continues, ListedDownToCursor PROVE ListedDownToCursor'
  <2>1. Follows(request[r], nextCursor) /\ loading
    BY <1>1, <1>6 DEF Continues, OneAtATime, Loaded
  <2>2. /\ DOMAIN rooms = 1 .. n /\ DOMAIN items = 1 .. Len(items) /\ n \in Nat /\ Len(items) \in Nat
        /\ DOMAIN rooms' = 1 .. n + Len(items)
        /\ \A i \in 1 .. n + Len(items) : rooms'[i] = IF i <= n THEN rooms[i] ELSE items[i - n]
        /\ \A i \in 1 .. n : rooms[i] \in Keys
        /\ \A i \in 1 .. Len(items) : items[i] \in Keys
        /\ (n = 0 <=> rooms = <<>>) /\ (n + Len(items) = 0 <=> rooms' = <<>>)
    BY <1>2, <1>3
  <2> HIDE DEF items, n, next
  <2>3. /\ next \in Nat /\ nextCursor \in Nat
        /\ \A i \in 1 .. n : rooms[i] \in Nat
        /\ \A i \in 1 .. Len(items) : items[i] \in Nat
    BY <1>2, <2>2, KeysAreNumbers DEF Start
  <2>4. nextCursor = Start => n = 0
    BY <1>6, <2>1, <2>2 DEF ListedDownToCursor
  <2>5. \A i \in 1 .. n + Len(items) : IF i <= n THEN i \in 1 .. n ELSE i - n \in 1 .. Len(items)
    BY <2>2
  <2>6. \A i \in 1 .. n, j \in 1 .. Len(items) : items[j] < rooms[i]
    <3>1. \A i \in 1 .. n : nextCursor <= rooms[i] /\ nextCursor # Start
      BY <1>6, <2>2, <2>4 DEF ListedDownToCursor
    <3>2. \A j \in 1 .. Len(items) : nextCursor = Start \/ items[j] < nextCursor
      BY <2>1, <2>2 DEF Follows, items
    <3>3. QED
      BY <2>3, <3>1, <3>2
  <2>7. \A i, j \in DOMAIN rooms' : i < j => rooms'[j] < rooms'[i]
    <3> SUFFICES ASSUME NEW i \in 1 .. n + Len(items), NEW j \in 1 .. n + Len(items), i < j
                 PROVE  rooms'[j] < rooms'[i]
      BY <2>2
    <3>1. CASE j <= n
      BY <1>6, <2>2, <2>5, <3>1 DEF ListedDownToCursor
    <3>2. CASE i <= n /\ ~ j <= n
      BY <2>2, <2>5, <2>6, <3>2
    <3>3. CASE ~ i <= n /\ ~ j <= n
      <4>1. i - n < j - n /\ i - n \in 1 .. Len(items) /\ j - n \in 1 .. Len(items)
        BY <2>2, <2>5, <3>3
      <4>2. items[j - n] < items[i - n]
        BY <2>1, <2>2, <4>1 DEF Follows, items
      <4>3. QED
        BY <2>2, <3>3, <4>2
    <3>4. QED
      BY <2>2, <3>1, <3>2, <3>3
  <2>8. \A i \in DOMAIN rooms' : nextCursor' <= rooms'[i]
    <3>1. next # Start => next < nextCursor \/ nextCursor = Start
      BY <2>1, <2>2 DEF Follows, items, next
    <3>2. \A i \in 1 .. n : next <= rooms[i]
      <4>1. \A i \in 1 .. n : nextCursor <= rooms[i] /\ nextCursor # Start
        BY <1>6, <2>2, <2>4 DEF ListedDownToCursor
      <4>2. next <= nextCursor \/ nextCursor = Start
        BY <2>3, <3>1 DEF Start
      <4>3. QED
        BY <2>3, <4>1, <4>2
    <3>3. \A i \in 1 .. Len(items) : next <= items[i]
      <4>1. next # Start => \A i \in 1 .. Len(items) : next <= items[i]
        BY <2>1, <2>2 DEF Follows, items, next
      <4>2. next = Start => \A i \in 1 .. Len(items) : next <= items[i]
        BY <2>3, SMT DEF Start
      <4>3. QED
        BY <4>1, <4>2
    <3>4. QED
      BY <1>3, <2>2, <2>5, <3>2, <3>3 DEF next
  <2>9. nextCursor' # Start => rooms' # <<>>
    BY <1>3, <2>1, <2>2 DEF Follows, items, next
  <2>10. \A k \in steady' : k >= nextCursor' => \E i \in DOMAIN rooms' : rooms'[i] = k
    <3> SUFFICES ASSUME NEW k \in steady, k >= next
                 PROVE  \E i \in 1 .. n + Len(items) : rooms'[i] = k
      BY <1>3, <2>2 DEF next
    <3>1. CASE nextCursor = Start \/ k < nextCursor
      <4>1. PICK i \in 1 .. Len(items) : items[i] = k
        BY <2>1, <2>2, <3>1 DEF Follows, items, next
      <4>2. n + i \in 1 .. n + Len(items) /\ ~ n + i <= n /\ (n + i) - n = i
        BY <2>2
      <4>3. QED
        BY <2>2, <4>1, <4>2
    <3>2. CASE nextCursor # Start /\ ~ k < nextCursor
      <4>1. k \in Nat /\ nextCursor \in Nat
        BY <2>3, KeysAreNumbers DEF PageInv, TypeOK
      <4>2. k >= nextCursor
        BY <3>2, <4>1
      <4>3. PICK i \in 1 .. n : rooms[i] = k
        BY <1>6, <2>2, <3>2, <4>2 DEF ListedDownToCursor
      <4>4. i \in 1 .. n + Len(items) /\ i <= n
        BY <2>2
      <4>5. QED
        BY <2>2, <4>3, <4>4
    <3>3. QED
      BY <3>1, <3>2
  <2>11. QED
    BY <1>4, <2>7, <2>8, <2>9, <2>10 DEF ListedDownToCursor
<1>7. QED
  BY <1>3, <1>4, <1>5, <1>6 DEF PageInv

\* Joining a room needs one to be listed; it clears the message of a failed page, not its list.
LEMMA JoinRoomKeeps ==
  ASSUME PageInv, NEW k \in Keys, JoinRoom(k)
  PROVE  PageInv'
<1>1. /\ rooms # <<>> /\ joining' = k /\ listError' = FALSE
      /\ UNCHANGED <<room, rooms, nextCursor, loading, request, here, steady, overlap>>
  BY DEF JoinRoom, ToSet
<1>2. TypeOK' /\ steady' \subseteq Open'
  BY <1>1 DEF PageInv, TypeOK, Open
<1>3. OneAtATime /\ Continues => OneAtATime' /\ Continues'
  BY <1>1 DEF OneAtATime, Continues, Follows
<1>4. ListedDownToCursor => ListedDownToCursor'
  BY <1>1 DEF ListedDownToCursor
<1>5. QED
  BY <1>1, <1>2, <1>3, <1>4 DEF PageInv

LEMMA LeavingKeeps ==
  ASSUME PageInv, Joined \/ Leave \/ UNCHANGED vars
  PROVE  PageInv'
<1>1. /\ UNCHANGED <<room, rooms, nextCursor, loading, listError, request, steady, overlap>>
      /\ joining' \in Keys \cup {Nobody} /\ here' \in BOOLEAN
  BY DEF PageInv, TypeOK, Joined, Leave, vars
<1>2. TypeOK' /\ steady' \subseteq Open'
  BY <1>1 DEF PageInv, TypeOK, Open
<1>3. OneAtATime /\ Continues => OneAtATime' /\ Continues'
  BY <1>1 DEF OneAtATime, Continues, Follows
<1>4. ListedDownToCursor => ListedDownToCursor'
  BY <1>1 DEF ListedDownToCursor
<1>5. QED
  BY <1>1, <1>2, <1>3, <1>4 DEF PageInv

LEMMA PageNext == PageInv /\ [Next]_vars => PageInv'
<1> SUFFICES ASSUME PageInv, [Next]_vars PROVE PageInv'
  OBVIOUS
<1>1. CASE LoadMore
  BY <1>1, LoadMoreKeeps
<1>2. CASE Joined \/ Leave \/ UNCHANGED vars
  BY <1>2, LeavingKeeps
<1>3. CASE JoinFails
  BY <1>3, JoinFailsKeeps
<1>4. ASSUME NEW k \in Keys, Appear(k) \/ Vanish(k) \/ JoinRoom(k) PROVE PageInv'
  BY <1>4, ServerKeeps, JoinRoomKeeps
<1>5. ASSUME NEW r \in Requests, Serve(r) \/ Loaded(r) \/ LoadFails(r) PROVE PageInv'
  BY <1>5, ServeKeeps, LoadedKeeps, LoadFailsKeeps
<1>6. QED
  BY <1>1, <1>2, <1>3, <1>4, <1>5 DEF Next

LEMMA PageInvariant == Spec => []PageInv
BY PageInit, PageNext, PTL DEF Spec

\* Every state of the page and of its requests has its type.
THEOREM TypeCorrect == Spec => []TypeOK
<1>1. PageInv => TypeOK
  BY DEF PageInv
<1>2. QED
  BY <1>1, PageInvariant, PTL

\* No two entries of the list are the same room, whatever opens and closes between two
\* pages of it (ListPublicOpen's keyset cursor, lobby.ts's track room.id).
THEOREM ListsOnce == Spec => []ListedOnce
<1>1. PageInv => ListedOnce
  BY DEF PageInv, ListedOnce, ListedDownToCursor
<1>2. QED
  BY <1>1, PageInvariant, PTL

\* The list has every room that stayed open, down to its cursor, also after pages failed
\* and were asked for again (ListPublicOpen, loadMore).
THEOREM MissesNone == Spec => []NoneMissed
<1>1. PageInv => NoneMissed
  BY DEF PageInv, NoneMissed, ListedDownToCursor, ToSet
<1>2. QED
  BY <1>1, PageInvariant, PTL
=============================================================================
