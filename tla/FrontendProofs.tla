-------------------------- MODULE FrontendProofs --------------------------
(***************************************************************************)
(* Proofs about a session: the pages of the process list are right and a   *)
(* walk through them misses nothing, whatever the host does meanwhile, and *)
(* every browse that waits long enough hears every agent; for any agents,  *)
(* interval, delay and losses, any pids, processes, pages and limits.      *)
(***************************************************************************)
EXTENDS Frontend, FiniteSetTheorems, SequenceTheorems, TLAPS

(* Ints within their range do not wrap; a sum just beyond it is below 0. *)
LEMMA Wraps ==
    ASSUME MaxInt \in Nat, NEW n \in Int
    PROVE  /\ Host!Wrap(n) \in Int
           /\ -MaxInt - 1 <= n /\ n <= MaxInt => Host!Wrap(n) = n
           /\ MaxInt < n /\ n <= 2 * MaxInt => Host!Wrap(n) < 0
  BY DEF Host!Wrap

(* The page of a number. *)
LEMMA Divides ==
    ASSUME NEW k \in Nat, NEW l \in Nat \ {0}, NEW q \in Int
    PROVE  k \div l = q <=> q * l <= k /\ k < q * l + l
<1>1. k = l * (k \div l) + (k % l) /\ k % l \in 0 .. l - 1 /\ k \div l \in Nat
  OBVIOUS
<1> DEFINE d == k \div l
<1>2. d = q => q * l <= k /\ k < q * l + l
  BY <1>1
<1>3. ASSUME q * l <= k, k < q * l + l PROVE d = q
  <2> HIDE DEF d
  <2>1. d \in Nat /\ d * l <= k /\ k < d * l + l
    BY <1>1 DEF d
  <2>2. CASE d < q
    <3>1. (d + 1) * l <= q * l
      BY <2>1, <2>2
    <3> QED BY <3>1, <2>1, <1>3
  <2>3. CASE q < d
    <3>1. (q + 1) * l <= d * l
      BY <2>1, <2>3
    <3> QED BY <3>1, <2>1, <1>3
  <2> QED BY <2>1, <2>2, <2>3
<1> QED BY <1>2, <1>3

(* A slice that Go does not refuse lies in the list. *)
LEMMA Inside ==
    ASSUME MaxInt \in Nat, NEW page \in Int, NEW limit \in Int, NEW total \in Nat,
           ~Host!Panics(Host!Bounds(page, limit, total))
    PROVE  LET b == Host!Bounds(page, limit, total)
           IN  /\ b.from \in 0 .. total /\ b.to \in 0 .. total
               /\ b.from <= b.to
<1>1. Host!Start(page, limit) \in Int
  BY Wraps DEF Host!Start
<1>2. \A start \in Int : Host!End(start, limit, total) \in Int /\ Host!End(start, limit, total) <= total
  BY Wraps DEF Host!End
<1> QED BY <1>1, <1>2 DEF Host!Bounds, Host!Panics

(* The slice of a page is the page by definition. *)
LEMMA PageIs ==
    ASSUME MaxInt \in Nat, NEW page \in Int, NEW limit \in Int, NEW total \in Nat,
           total <= MaxInt, limit <= MaxInt, page * limit <= MaxInt
    PROVE  LET b == Host!Bounds(page, limit, total)
           IN  /\ ~Host!Panics(b)
               /\ \A k \in 1 .. total : Host!OnPage(page, limit, k) <=> b.from < k /\ k <= b.to
<1> DEFINE b == Host!Bounds(page, limit, total)
           p == IF page < 1 THEN 1 ELSE page
           start == (p - 1) * limit
<1>1. CASE limit <= 0
  <2>1. b = [from |-> 0, to |-> total]
    BY <1>1 DEF Host!Bounds
  <2> QED BY <2>1, <1>1 DEF Host!Panics, Host!OnPage
<1>2. CASE limit > 0
  <2>1. /\ start \in Nat
        /\ start + limit <= MaxInt
        /\ start = p * limit - limit
    <3>1. CASE page < 1
      BY <3>1, <1>2
    <3>2. CASE page >= 1
      <4>1. page - 1 \in Nat /\ (page - 1) * limit = page * limit - limit
        BY <3>2, <1>2
      <4>2. (page - 1) * limit \in Nat
        BY <4>1, <1>2
      <4> QED BY <4>1, <4>2, <3>2, <1>2
    <3> QED BY <3>1, <3>2
  <2>2. Host!Start(page, limit) = start
    BY <2>1, <1>2, Wraps DEF Host!Start
  <2>3. Host!End(start, limit, total) = IF start + limit > total THEN total ELSE start + limit
    BY <2>1, <1>2, Wraps DEF Host!End
  <2>4. ASSUME NEW k \in 1 .. total
        PROVE  Host!OnPage(page, limit, k) <=> start < k /\ k <= start + limit
    <3>1. (k - 1) \div limit = p - 1 <=> (p - 1) * limit <= k - 1 /\ k - 1 < (p - 1) * limit + limit
      BY Divides, <1>2
    <3>2. (k - 1) \div limit \in Int
      BY <1>2
    <3> HIDE DEF p
    <3>3. Host!OnPage(page, limit, k) <=> (k - 1) \div limit + 1 = p
      BY <1>2 DEF Host!OnPage, p
    <3>4. p \in Int
      BY DEF p
    <3> QED BY <3>1, <3>2, <3>3, <3>4, <2>1, <1>2
  <2> HIDE DEF start
  <2>5. CASE start >= total
    <3>1. b = [from |-> 0, to |-> 0]
      BY <1>2, <2>2, <2>5, <2>1 DEF Host!Bounds
    <3> QED BY <3>1, <2>4, <2>5, <2>1 DEF Host!Panics
  <2>6. CASE start < total
    <3>1. b = [from |-> start, to |-> Host!End(start, limit, total)]
      BY <1>2, <2>2, <2>6, <2>1 DEF Host!Bounds
    <3> QED BY <3>1, <2>3, <2>4, <2>6, <2>1, <1>2 DEF Host!Panics
  <2> QED BY <2>5, <2>6, <2>1
<1> QED BY <1>1, <1>2

(* Also a page that ends beyond the ints, unless its request panics. *)
LEMMA PageHas ==
    ASSUME MaxInt \in Nat, NEW page \in Int, NEW limit \in Int, NEW total \in Nat,
           total <= MaxInt, limit <= MaxInt, limit > 0, page >= 1,
           (page - 1) * limit <= MaxInt,
           ~Host!Panics(Host!Bounds(page, limit, total)),
           NEW k \in 1 .. total, (page - 1) * limit < k, k <= page * limit
    PROVE  LET b == Host!Bounds(page, limit, total) IN b.from < k /\ k <= b.to
<1> DEFINE b == Host!Bounds(page, limit, total)
           start == (page - 1) * limit
<1>1. start \in Nat /\ start + limit = page * limit
  <2>1. page - 1 \in Nat /\ start = page * limit - limit
    OBVIOUS
  <2> QED BY <2>1
<1>2. Host!Start(page, limit) = start
  BY <1>1, Wraps DEF Host!Start
<1> HIDE DEF start
<1>3. b = [from |-> start, to |-> Host!End(start, limit, total)]
  BY <1>1, <1>2 DEF Host!Bounds, start
<1>4. start + limit <= MaxInt
  <2> SUFFICES ASSUME start + limit > MaxInt PROVE FALSE
    BY <1>1
  <2>1. start + limit <= 2 * MaxInt
    BY <1>1 DEF start
  <2>2. Host!Wrap(start + limit) < 0
    BY <2>1, <1>1, Wraps
  <2>3. Host!End(start, limit, total) < 0
    BY <2>2, <1>1, Wraps DEF Host!End
  <2> QED BY <2>3, <1>3, <1>1, Wraps DEF Host!Panics, Host!End
<1>5. Host!End(start, limit, total) = IF start + limit > total THEN total ELSE start + limit
  BY <1>1, <1>4, Wraps DEF Host!End
<1> QED BY <1>3, <1>5, <1>1 DEF start

(* A finite set of numbers has an ascending enumeration: each of them stands *)
(* at its rank, the number of those up to it.                               *)
LEMMA Enumerates ==
    ASSUME NEW S \in SUBSET Nat, IsFiniteSet(S)
    PROVE  \E s \in [1 .. Cardinality(S) -> S] : Host!Ascending(s)
<1> DEFINE N == Cardinality(S)
           upto(n) == {m \in S : m <= n}
           rank == [n \in S |-> Cardinality(upto(n))]
<1>1. N \in Nat
  BY FS_CardinalityType
<1>2. ASSUME NEW n \in S
      PROVE  IsFiniteSet(upto(n)) /\ Cardinality(upto(n)) \in 1 .. N
  <2>1. upto(n) \in SUBSET S /\ n \in upto(n)
    OBVIOUS
  <2> HIDE DEF upto
  <2>2. IsFiniteSet(upto(n)) /\ Cardinality(upto(n)) <= N
    BY <2>1, FS_Subset
  <2>3. Cardinality(upto(n)) \in Nat
    BY <2>2, FS_CardinalityType
  <2>4. Cardinality(upto(n)) # 0
    BY <2>1, <2>2, FS_EmptySet
  <2> QED BY <2>2, <2>3, <2>4
<1>3. ASSUME NEW m \in S, NEW n \in S, m < n
      PROVE  rank[m] < rank[n]
  <2>1. upto(m) \in SUBSET upto(n) /\ n \in upto(n) /\ n \notin upto(m)
    <3>1. \A x \in S : x \in Nat
      OBVIOUS
    <3>2. \A x \in S : x <= m => x <= n
      BY <3>1, <1>3
    <3>3. n <= n /\ ~(n <= m)
      BY <3>1, <1>3
    <3> QED BY <3>2, <3>3
  <2>2. IsFiniteSet(upto(n)) /\ Cardinality(upto(n)) \in 1 .. N /\ Cardinality(upto(m)) \in 1 .. N
    BY <1>2
  <2> HIDE DEF upto
  <2>3. /\ Cardinality(upto(m)) <= Cardinality(upto(n))
        /\ Cardinality(upto(n)) = Cardinality(upto(m)) => upto(n) = upto(m)
    BY <2>1, <2>2, FS_Subset
  <2>4. Cardinality(upto(m)) # Cardinality(upto(n))
    BY <2>1, <2>3
  <2> QED BY <2>2, <2>3, <2>4, <1>1
<1>4. rank \in [S -> 1 .. N]
  BY <1>2
<1> HIDE DEF rank
<1>5. rank \in Injection(S, 1 .. N)
  <2>1. ASSUME NEW m \in S, NEW n \in S, rank[m] = rank[n] PROVE m = n
    <3>1. m \in Nat /\ n \in Nat /\ rank[m] \in Int /\ rank[n] \in Int
      BY <1>4
    <3> QED BY <3>1, <1>3, <2>1
  <2> QED BY <2>1, <1>4 DEF Injection, IsInjective
<1>6. rank \in Surjection(S, 1 .. N)
  <2>1. IsFiniteSet(1 .. N) /\ Cardinality(1 .. N) = N
    BY <1>1, FS_Interval
  <2> QED BY <2>1, <1>5, FS_Injection
<1>7. \A k \in 1 .. N : \E n \in S : rank[n] = k
  BY <1>6 DEF Surjection
<1> DEFINE s == [k \in 1 .. N |-> CHOOSE n \in S : rank[n] = k]
<1>8. \A k \in 1 .. N : s[k] \in S /\ rank[s[k]] = k
  BY <1>7
<1>9. s \in [1 .. N -> S]
  BY <1>8
<1> HIDE DEF s
<1>10. ASSUME NEW i \in 1 .. N, NEW j \in 1 .. N, i < j PROVE s[i] < s[j]
  <2>1. /\ s[i] \in S /\ s[j] \in S /\ s[i] \in Nat /\ s[j] \in Nat
        /\ rank[s[i]] = i /\ rank[s[j]] = j
    BY <1>8
  <2> QED BY <2>1, <1>3, <1>10
<1>11. Host!Ascending(s)
  BY <1>9, <1>10 DEF Host!Ascending
<1> QED BY <1>9, <1>11

(* The pids of a list are those in use, in ascending order. *)
LEMMA PidsAre ==
    ASSUME MaxPid \in Nat
    PROVE  /\ Host!Pids \in Seq(Host!Pid)
           /\ Host!Ascending(Host!Pids)
           /\ Len(Host!Pids) <= MaxPid
           /\ \A n \in Host!Pid :
                 table[n] # Host!None <=> \E k \in 1 .. Len(Host!Pids) : Host!Pids[k] = n
<1> DEFINE U == {n \in Host!Pid : table[n] # Host!None}
           N == Cardinality(U)
           L == UNION {[1 .. k -> Host!Pid] : k \in 0 .. MaxPid}
<1>1. /\ U \in SUBSET (1 .. MaxPid) /\ U \in SUBSET Nat
      /\ IsFiniteSet(U) /\ N \in Nat /\ N <= MaxPid
  <2>1. U \in SUBSET (1 .. MaxPid) /\ U \in SUBSET Nat
    BY DEF Host!Pid
  <2>2. IsFiniteSet(1 .. MaxPid) /\ Cardinality(1 .. MaxPid) = MaxPid
    BY FS_Interval
  <2> HIDE DEF U
  <2> QED BY <2>1, <2>2, FS_Subset, FS_CardinalityType
<1>2. U \subseteq Host!Pid
  OBVIOUS
<1>3. Host!Pids = CHOOSE s \in L : Host!Ascending(s) /\ Host!Range(s) = U
  BY DEF Host!Pids
<1>4. \A n \in Host!Pid : n \in U <=> table[n] # Host!None
  OBVIOUS
<1> HIDE DEF U
<1>5. PICK s \in [1 .. N -> U] : Host!Ascending(s)
  BY <1>1, Enumerates
<1>6. DOMAIN s = 1 .. N
  OBVIOUS
<1>7. s \in Injection(1 .. N, U)
  <2>1. ASSUME NEW i \in 1 .. N, NEW j \in 1 .. N, s[i] = s[j] PROVE i = j
    <3>1. s[i] \in U /\ s[i] \in Nat
      BY <1>1
    <3>2. (i < j => s[i] < s[j]) /\ (j < i => s[j] < s[i])
      BY <1>5, <1>6 DEF Host!Ascending
    <3> QED BY <3>1, <3>2, <2>1, <1>1
  <2> QED BY <2>1, <1>6 DEF Injection, IsInjective
<1>8. s \in Surjection(1 .. N, U)
  <2>1. IsFiniteSet(1 .. N) /\ Cardinality(1 .. N) = N
    BY <1>1, FS_Interval
  <2> QED BY <2>1, <1>1, <1>7, FS_Injection
<1> HIDE DEF N
<1>9. s \in L /\ Host!Range(s) = U
  <2>1. N \in 0 .. MaxPid /\ s \in [1 .. N -> Host!Pid]
    <3>1. s \in [1 .. N -> Host!Pid]
      BY <1>2
    <3> QED BY <3>1, <1>1
  <2>2. Host!Range(s) = U
    BY <1>6, <1>8 DEF Surjection, Host!Range
  <2> QED BY <2>1, <2>2
<1> DEFINE t == Host!Pids
<1>10. t \in L /\ Host!Ascending(t) /\ Host!Range(t) = U
  BY <1>3, <1>5, <1>9, Zenon
<1> HIDE DEF t
<1>11. PICK k \in 0 .. MaxPid : t \in [1 .. k -> Host!Pid]
  BY <1>10
<1>12. t \in Seq(Host!Pid) /\ Len(t) = k /\ DOMAIN t = 1 .. k
  BY <1>11
<1>13. \A n \in U : \E i \in 1 .. k : t[i] = n
  BY <1>10, <1>12 DEF Host!Range
<1>14. \A i \in 1 .. k : t[i] \in U
  BY <1>10, <1>12 DEF Host!Range
<1> QED BY <1>4, <1>10, <1>12, <1>13, <1>14 DEF t

(* A number does not move down in an ascending list when others join it. *)
LEMMA NotBefore ==
    ASSUME NEW s \in Seq(Host!Pid), Host!Ascending(s), NEW t \in Seq(Host!Pid), Host!Ascending(t),
           NEW k \in 1 .. Len(s), NEW j \in 1 .. Len(t), t[j] = s[k],
           \A i \in 1 .. Len(s) : \E m \in 1 .. Len(t) : t[m] = s[i]
    PROVE  k <= j
<1> DEFINE f == [i \in 1 .. k |-> CHOOSE m \in 1 .. Len(t) : t[m] = s[i]]
<1>1. ASSUME NEW i \in 1 .. k
      PROVE  i \in 1 .. Len(s) /\ f[i] \in 1 .. Len(t) /\ t[f[i]] = s[i]
  <2>1. i \in 1 .. Len(s)
    OBVIOUS
  <2>2. \E m \in 1 .. Len(t) : t[m] = s[i]
    BY <2>1
  <2>3. f[i] = CHOOSE m \in 1 .. Len(t) : t[m] = s[i]
    OBVIOUS
  <2> HIDE DEF f
  <2> QED BY <2>1, <2>2, <2>3
<1>2. /\ DOMAIN f = 1 .. k /\ f = [i \in 1 .. k |-> f[i]]
      /\ DOMAIN s = 1 .. Len(s) /\ DOMAIN t = 1 .. Len(t)
      /\ \A i \in 1 .. Len(s) : s[i] \in Nat
  <2>1. \A i \in 1 .. Len(s) : s[i] \in Host!Pid
    OBVIOUS
  <2>2. \A i \in 1 .. Len(s) : s[i] \in Nat
    BY <2>1 DEF Host!Pid
  <2> QED BY <2>2
<1> HIDE DEF f
<1>3. ASSUME NEW i \in 1 .. k
      PROVE  s[i] <= s[k] /\ s[i] \in Nat
  <2>1. i \in 1 .. Len(s) /\ i \in Int /\ k \in Int /\ s[i] \in Nat /\ s[k] \in Nat
    BY <1>1, <1>2
  <2>2. i < k => s[i] < s[k]
    BY <1>2, <2>1 DEF Host!Ascending
  <2>3. i = k \/ i < k
    OBVIOUS
  <2>4. CASE i = k
    BY <2>4, <2>1
  <2>5. CASE i < k
    BY <2>5, <2>1, <2>2
  <2> QED BY <2>3, <2>4, <2>5
<1>4. \A i \in 1 .. k : f[i] \in 1 .. j
  <2> SUFFICES ASSUME NEW i \in 1 .. k, ~(f[i] <= j) PROVE FALSE
    BY <1>1
  <2>0. j < f[i]
    <3>1. f[i] \in 1 .. Len(t)
      BY <1>1
    <3>2. f[i] \in Int /\ j \in Int
      BY <3>1
    <3> QED BY <3>2
  <2>1. t[j] < t[f[i]]
    <3>1. j \in DOMAIN t /\ f[i] \in DOMAIN t
      BY <1>1, <1>2
    <3> QED BY <3>1, <2>0 DEF Host!Ascending
  <2>2. t[f[i]] = s[i] /\ s[i] <= s[k] /\ s[i] \in Nat /\ s[k] \in Nat
    BY <1>1, <1>3
  <2> QED BY <2>1, <2>2
<1>5. f \in Injection(1 .. k, 1 .. j)
  <2>1. ASSUME NEW a \in 1 .. k, NEW b \in 1 .. k, f[a] = f[b] PROVE a = b
    <3>1. s[a] = s[b] /\ a \in DOMAIN s /\ b \in DOMAIN s /\ s[a] \in Nat
      <4>1. t[f[a]] = s[a] /\ t[f[b]] = s[b] /\ a \in 1 .. Len(s) /\ b \in 1 .. Len(s)
        BY <1>1
      <4> QED BY <4>1, <1>2, <2>1
    <3>2. (a < b => s[a] < s[b]) /\ (b < a => s[b] < s[a])
      BY <3>1 DEF Host!Ascending
    <3> QED BY <3>1, <3>2
  <2> QED BY <1>2, <1>4, <2>1 DEF Injection, IsInjective
<1>6. /\ IsFiniteSet(1 .. j) /\ Cardinality(1 .. j) = j
      /\ Cardinality(1 .. k) = k
  BY FS_Interval
<1>7. Cardinality(1 .. k) <= Cardinality(1 .. j)
  BY <1>5, <1>6, FS_Injection
<1> QED BY <1>6, <1>7
-----------------------------------------------------------------------------
(* A page under way: the list it is of, in order, its slice, and that of the *)
(* processes on it which have run from the start, or since the walk began,   *)
(* each is still to be looked at or is in the answer.                        *)
PageInv ==
    /\ list.limit <= MaxInt /\ Len(list.pids) <= MaxPid /\ Host!Ascending(list.pids)
    /\ list.at # "idle" =>
          LET b == Host!Bounds(list.page, list.limit, Len(list.pids))
          IN  /\ list.at = "panic" <=> Host!Panics(b)
              /\ list.at # "panic" => list.picked = SubSeq(list.pids, b.from + 1, b.to)
    /\ list.at \in {"idle", "panic"} => list.picked = <<>>
    /\ list.at = "read" => list.rest # <<>>
    /\ list.at = "answered" => list.rest = <<>>

Told == \A n \in Host!Range(list.picked) :
    table[n] = n \/ table[n] \in walk.through =>
       \/ n \in Host!Range(list.rest)
       \/ \E k \in DOMAIN list.got : list.got[k] = [pid |-> n, shows |-> table[n]]

(* A walk: it has seen what stood before its page of those it began with;    *)
(* while nothing exits, each of them is in its list.                         *)
WalkInv ==
    /\ \A n \in Host!Pid : table[n] <= born
    /\ walk.through \subseteq 1 .. born
    /\ ~walk.on => walk.through = {}
    /\ walk.on => /\ list.at # "idle" /\ list.limit > 0 /\ list.page > 0
                  /\ (list.page - 1) * list.limit <= MaxInt
                  /\ list.at = "answered" => Host!Shown \subseteq walk.seen
    /\ walk.on /\ ~walk.shrunk =>
          /\ \A k \in 1 .. Len(list.pids) : table[list.pids[k]] # Host!None
          /\ \A x \in walk.through : \E n \in Host!Pid : table[n] = x
          /\ \A n \in Host!Pid : table[n] \in walk.through =>
                \E k \in 1 .. Len(list.pids) : list.pids[k] = n
          /\ \A k \in 1 .. Len(list.pids) :
                k <= (list.page - 1) * list.limit /\ table[list.pids[k]] \in walk.through =>
                   table[list.pids[k]] \in walk.seen

HostInv == Host!TypeOK /\ PageInv /\ Told /\ WalkInv

(* The slice of a list. *)
LEMMA SliceIs ==
    ASSUME NEW S, NEW s \in Seq(S), NEW m \in 0 .. Len(s), NEW n \in 0 .. Len(s), m <= n
    PROVE  /\ SubSeq(s, m + 1, n) \in Seq(S)
           /\ Len(SubSeq(s, m + 1, n)) = n - m
           /\ \A j \in 1 .. n - m : SubSeq(s, m + 1, n)[j] = s[j + m]
<1>1. \A i \in m + 1 .. n : s[i] \in S
  OBVIOUS
<1>2. m + 1 \in Int /\ n \in Int
  OBVIOUS
<1>3. SubSeq(s, m + 1, n) \in Seq(S)
  BY <1>1, <1>2
<1>4. /\ Len(SubSeq(s, m + 1, n)) = IF m + 1 <= n THEN n - (m + 1) + 1 ELSE 0
      /\ \A j \in 1 .. n - (m + 1) + 1 : SubSeq(s, m + 1, n)[j] = s[m + 1 + j - 1]
  BY <1>1, <1>2
<1> QED BY <1>3, <1>4

(* What a request starts with: the page of the list of now, none of it read. *)
LEMMA AskIs ==
    ASSUME FrontendAssumption, NEW page \in Int, NEW limit \in Int, limit <= MaxInt,
           Host!Ask(page, limit)
    PROVE  /\ list' \in [at : {"info", "panic"}, page : {page}, limit : {limit},
                         pids : {Host!Pids}, picked : Seq(Host!Pid), rest : Seq(Host!Pid),
                         got : {<<>>}]
           /\ list'.rest = list'.picked
           /\ PageInv'
<1> DEFINE pids == Host!Pids
           b == Host!Bounds(page, limit, Len(pids))
           picked == IF Host!Panics(b) THEN <<>> ELSE SubSeq(pids, b.from + 1, b.to)
<1>1. list' = [at |-> IF Host!Panics(b) THEN "panic" ELSE "info", page |-> page,
               limit |-> limit, pids |-> pids, picked |-> picked, rest |-> picked,
               got |-> <<>>]
  BY DEF Host!Ask
<1>2. /\ pids \in Seq(Host!Pid) /\ Host!Ascending(pids) /\ Len(pids) <= MaxPid
      /\ Len(pids) \in Nat
  BY PidsAre DEF FrontendAssumption
<1> HIDE DEF pids
<1>3. picked \in Seq(Host!Pid)
  <2>1. CASE Host!Panics(b)
    BY <2>1
  <2>2. CASE ~Host!Panics(b)
    <3>1. b.from \in 0 .. Len(pids) /\ b.to \in 0 .. Len(pids) /\ b.from <= b.to
      BY <1>2, <2>2, Inside DEF FrontendAssumption
    <3> HIDE DEF b
    <3> QED BY <3>1, <1>2, <2>2, SliceIs
  <2> QED BY <2>1, <2>2
<1>4. list'.at = "panic" <=> Host!Panics(b)
  BY <1>1
<1>5. list'.at # "panic" => list'.picked = SubSeq(pids, b.from + 1, b.to)
  BY <1>1
<1>6. list'.at = "panic" => list'.picked = <<>>
  BY <1>1
<1> HIDE DEF picked
<1>7. /\ list'.at \in {"info", "panic"} /\ list'.limit = limit /\ list'.page = page
      /\ list'.pids = pids
  BY <1>1
<1>8. PageInv'
  BY <1>2, <1>4, <1>5, <1>6, <1>7 DEF PageInv
<1> QED BY <1>1, <1>3, <1>8 DEF pids

(* Every variable of the process list stays within its type. *)
LEMMA HostType ==
    ASSUME FrontendAssumption, Host!TypeOK, PageInv, WalkInv, Host!Next
    PROVE  Host!TypeOK'
<1> USE DEF Host!TypeOK, Host!Process, Host!None
<1>1. ASSUME NEW n \in Host!Pid, Host!Fork(n) PROVE Host!TypeOK'
  <2>1. born + 1 \in 1 .. MaxProcess /\ born + 1 \in MaxPid .. MaxProcess
    BY <1>1 DEF Host!Fork, FrontendAssumption
  <2> QED BY <1>1, <2>1 DEF Host!Fork
<1>2. ASSUME NEW n \in Host!Pid, Host!Exit(n) PROVE Host!TypeOK'
  <2>1. table' \in [Host!Pid -> 1 .. MaxProcess \cup {0}]
    BY <1>2 DEF Host!Exit
  <2>2. walk' = [on |-> walk.on, through |-> walk.through \ {table[n]}, seen |-> walk.seen,
                 shrunk |-> walk.on]
    BY <1>2 DEF Host!Exit
  <2> QED BY <1>2, <2>1, <2>2 DEF Host!Exit
<1> DEFINE Lists == [at : {"idle", "info", "read", "answered", "panic"}, page : Int, limit : Int,
                     pids : Seq(Host!Pid), picked : Seq(Host!Pid), rest : Seq(Host!Pid),
                     got : Seq([pid : Host!Pid, shows : (1 .. MaxProcess) \cup {0}])]
<1>3. ASSUME NEW page \in Int, NEW limit \in Int, limit <= MaxInt, Host!Ask(page, limit)
      PROVE  list' \in Lists
  <2>1. Host!Pids \in Seq(Host!Pid)
    BY PidsAre DEF FrontendAssumption
  <2>2. list' \in [at : {"info", "panic"}, page : {page}, limit : {limit},
                   pids : {Host!Pids}, picked : Seq(Host!Pid), rest : Seq(Host!Pid), got : {<<>>}]
    BY <1>3, AskIs
  <2>3. <<>> \in Seq([pid : Host!Pid, shows : (1 .. MaxProcess) \cup {0}])
    OBVIOUS
  <2> QED BY <2>1, <2>2, <2>3
<1>4. Host!Idle \in Lists
  BY DEF Host!Idle
<1>5. Host!NoWalk \in [on : BOOLEAN, through : SUBSET (1 .. MaxProcess),
                       seen : SUBSET ((1 .. MaxProcess) \cup {0}), shrunk : BOOLEAN]
  BY DEF Host!NoWalk
<1>6. ASSUME list' \in Lists, UNCHANGED <<table, born>>, walk' = walk \/ walk' = Host!NoWalk
      PROVE  Host!TypeOK'
  BY <1>5, <1>6
<1>7. ASSUME NEW page \in Pages, NEW limit \in Limits, Host!List(page, limit) PROVE Host!TypeOK'
  <2>1. page \in Int /\ limit \in Int /\ limit <= MaxInt
    BY DEF FrontendAssumption
  <2> QED BY <1>3, <1>6, <1>7, <2>1 DEF Host!List
<1>8. CASE Host!Lookup
  <2>1. list' \in Lists
    <3>1. list.rest \in Seq(Host!Pid) /\ list.rest # <<>>
      BY <1>8 DEF Host!Lookup
    <3>2. Tail(list.rest) \in Seq(Host!Pid)
      BY <3>1
    <3> QED BY <1>8, <3>2 DEF Host!Lookup, Host!Skip
  <2> QED BY <1>6, <1>8, <2>1 DEF Host!Lookup
<1>9. CASE Host!Read
  <2> DEFINE G == [pid : Host!Pid, shows : (1 .. MaxProcess) \cup {0}]
             n == Head(list.rest)
             e == [pid |-> n, shows |-> table[n]]
  <2>1. list.rest \in Seq(Host!Pid) /\ list.rest # <<>> /\ list.got \in Seq(G)
    BY <1>9 DEF Host!Read, PageInv
  <2>2. Tail(list.rest) \in Seq(Host!Pid) /\ n \in Host!Pid
    BY <2>1
  <2>3. e \in G
    BY <2>2
  <2> HIDE DEF e, G
  <2>4. Append(list.got, e) \in Seq(G)
    BY <2>1, <2>3
  <2>5. list' = [list EXCEPT !.at = "info", !.rest = Tail(list.rest), !.got = Append(list.got, e)]
    BY <1>9 DEF Host!Read, e
  <2>6. list' \in Lists
    BY <2>2, <2>4, <2>5 DEF G
  <2> QED BY <1>6, <1>9, <2>6 DEF Host!Read
<1>10. CASE Host!Answer
  <2>1. list' \in Lists /\ UNCHANGED <<table, born>>
    BY <1>10 DEF Host!Answer
  <2>2. Host!Shown \subseteq (1 .. MaxProcess) \cup {0}
    <3> DEFINE G == [pid : Host!Pid, shows : (1 .. MaxProcess) \cup {0}]
    <3>1. list.got \in Seq(G)
      OBVIOUS
    <3> HIDE DEF G
    <3>2. \A k \in DOMAIN list.got : list.got[k] \in G
      BY <3>1
    <3>3. \A k \in DOMAIN list.got : list.got[k].shows \in (1 .. MaxProcess) \cup {0}
      BY <3>2 DEF G
    <3> HIDE DEF Host!TypeOK
    <3> QED BY <3>3 DEF Host!Shown
  <2>3. walk' \in [on : BOOLEAN, through : SUBSET (1 .. MaxProcess),
                   seen : SUBSET ((1 .. MaxProcess) \cup {0}), shrunk : BOOLEAN]
    BY <1>10, <2>2 DEF Host!Answer
  <2> QED BY <2>1, <2>3
<1>11. CASE Host!Done
  BY <1>4, <1>6, <1>11 DEF Host!Done
<1>12. ASSUME NEW limit \in WalkLimits, Host!Walk(limit) PROVE Host!TypeOK'
  <2>1. limit \in Int /\ limit <= MaxInt /\ 1 \in Int
    BY DEF FrontendAssumption
  <2>2. Host!Ask(1, limit) /\ UNCHANGED <<table, born>>
    BY <1>12 DEF Host!Walk
  <2> HIDE DEF Lists
  <2>4. list' \in Lists
    BY <1>3, <2>1, <2>2
  <2>3. Host!Alive \subseteq 1 .. MaxProcess
    BY DEF Host!Alive
  <2> QED BY <1>12, <2>2, <2>3, <2>4 DEF Host!Walk, Lists
<1>13. CASE Host!Turn
  <2>1. list.page + 1 \in Int /\ list.limit \in Int /\ list.limit <= MaxInt
    BY DEF PageInv
  <2> QED BY <1>3, <1>6, <1>13, <2>1 DEF Host!Turn
<1>14. CASE Host!WalkEnds
  BY <1>4, <1>6, <1>14 DEF Host!WalkEnds
<1> QED BY <1>1, <1>2, <1>7, <1>8, <1>9, <1>10, <1>11, <1>12, <1>13, <1>14 DEF Host!Next

(* What a page has shown so far stays what the page is of. *)
LEMMA PageNext ==
    ASSUME FrontendAssumption, HostInv, Host!Next
    PROVE  PageInv'
<1> DEFINE Same == /\ list'.page = list.page /\ list'.limit = list.limit
                   /\ list'.pids = list.pids /\ list'.picked = list.picked
<1>1. ASSUME Same, list.at \in {"info", "read", "answered"},
             list'.at \in {"info", "read", "answered"},
             list'.at = "read" => list'.rest # <<>>, list'.at = "answered" => list'.rest = <<>>
      PROVE  PageInv'
  BY <1>1 DEF HostInv, PageInv
<1>2. ASSUME list' = list PROVE PageInv'
  BY <1>2 DEF HostInv, PageInv
<1>3. ASSUME list' = Host!Idle PROVE PageInv'
  <2>1. /\ list'.limit = 0 /\ list'.pids = <<>> /\ list'.at = "idle" /\ list'.picked = <<>>
    BY <1>3 DEF Host!Idle
  <2>2. Len(list'.pids) = 0 /\ Host!Ascending(list'.pids)
    BY <2>1 DEF Host!Ascending
  <2> QED BY <2>1, <2>2 DEF PageInv, FrontendAssumption
<1>4. ASSUME NEW n \in Host!Pid, Host!Fork(n) \/ Host!Exit(n) PROVE PageInv'
  BY <1>2, <1>4 DEF Host!Fork, Host!Exit
<1>5. ASSUME NEW page \in Pages, NEW limit \in Limits, Host!List(page, limit) PROVE PageInv'
  <2>1. page \in Int /\ limit \in Int /\ limit <= MaxInt
    BY DEF FrontendAssumption
  <2> QED BY <1>5, <2>1, AskIs DEF Host!List
<1>6. CASE Host!Lookup
  BY <1>1, <1>6 DEF Host!Lookup, Host!Skip, HostInv, Host!TypeOK
<1>7. CASE Host!Read
  BY <1>1, <1>7 DEF Host!Read, HostInv, Host!TypeOK
<1>8. CASE Host!Answer
  BY <1>1, <1>8 DEF Host!Answer, HostInv, Host!TypeOK
<1>9. CASE Host!Done \/ Host!WalkEnds
  BY <1>3, <1>9 DEF Host!Done, Host!WalkEnds
<1>10. ASSUME NEW limit \in WalkLimits, Host!Walk(limit) PROVE PageInv'
  <2>1. limit \in Int /\ limit <= MaxInt /\ 1 \in Int
    BY DEF FrontendAssumption
  <2> QED BY <1>10, <2>1, AskIs DEF Host!Walk
<1>11. CASE Host!Turn
  <2>1. list.page + 1 \in Int /\ list.limit \in Int /\ list.limit <= MaxInt
    BY DEF HostInv, PageInv, Host!TypeOK
  <2> QED BY <1>11, <2>1, AskIs DEF Host!Turn
<1> QED BY <1>4, <1>5, <1>6, <1>7, <1>8, <1>9, <1>10, <1>11 DEF Host!Next

(* The processes of the host: what starts is none of those that run. *)
LEMMA Started ==
    ASSUME FrontendAssumption, HostInv, NEW n \in Host!Pid, Host!Fork(n)
    PROVE  /\ \A m \in Host!Pid : table'[m] = table[m] \/ table[m] = Host!None
           /\ \A m \in Host!Pid : table'[m] # table[m] =>
                 table'[m] # m /\ table'[m] \notin walk.through
           /\ \A m \in Host!Pid : table[m] # Host!None => table'[m] = table[m]
           /\ \A m \in Host!Pid : table'[m] <= born'
           /\ list' = list /\ walk' = walk /\ born' = born + 1 /\ born \in Nat
<1>1. /\ table[n] = Host!None /\ table' = [table EXCEPT ![n] = born + 1]
      /\ list' = list /\ walk' = walk /\ born' = born + 1
  BY DEF Host!Fork
<1>2. /\ table \in [Host!Pid -> Host!Process \cup {Host!None}]
      /\ born \in Nat /\ MaxPid <= born
      /\ walk.through \subseteq 1 .. born
  BY DEF HostInv, Host!TypeOK, WalkInv, FrontendAssumption
<1>3. \A m \in Host!Pid : table'[m] = IF m = n THEN born + 1 ELSE table[m]
  BY <1>1, <1>2
<1>4. born + 1 \notin walk.through /\ \A m \in Host!Pid : born + 1 # m
  BY <1>2 DEF Host!Pid, FrontendAssumption
<1>5. \A m \in Host!Pid : table'[m] <= born'
  BY <1>1, <1>2, <1>3 DEF HostInv, WalkInv, Host!Process, Host!None
<1> QED BY <1>1, <1>2, <1>3, <1>4, <1>5

(* What exits was where none is now. *)
LEMMA Exited ==
    ASSUME FrontendAssumption, HostInv, NEW n \in Host!Pid, Host!Exit(n)
    PROVE  /\ \A m \in Host!Pid : table'[m] # table[m] =>
                 table'[m] # m /\ table'[m] \notin walk.through
           /\ walk'.through \subseteq walk.through /\ walk'.on = walk.on
           /\ walk'.seen = walk.seen /\ walk'.shrunk = walk.on
           /\ \A m \in Host!Pid : table'[m] <= born'
           /\ list' = list /\ born' = born
<1>1. /\ table' = [table EXCEPT ![n] = Host!None] /\ list' = list /\ born' = born
      /\ walk' = [walk EXCEPT !.through = walk.through \ {table[n]}, !.shrunk = walk.on]
  BY DEF Host!Exit
<1>2. /\ table \in [Host!Pid -> Host!Process \cup {Host!None}]
      /\ walk.through \subseteq 1 .. born /\ born \in Int
  BY DEF HostInv, Host!TypeOK, WalkInv, FrontendAssumption
<1>3. \A m \in Host!Pid : table'[m] = IF m = n THEN Host!None ELSE table[m]
  BY <1>1, <1>2
<1>4. Host!None \notin walk.through /\ \A m \in Host!Pid : Host!None # m
  BY <1>2 DEF Host!Pid, Host!None
<1>5. /\ walk'.through = walk.through \ {table[n]} /\ walk'.shrunk = walk.on
      /\ walk'.on = walk.on /\ walk'.seen = walk.seen
  BY <1>1 DEF HostInv, Host!TypeOK
<1>6. \A m \in Host!Pid : table'[m] <= born'
  BY <1>1, <1>2, <1>3 DEF HostInv, WalkInv, Host!TypeOK, FrontendAssumption, Host!None
<1> QED BY <1>1, <1>3, <1>4, <1>5, <1>6

(* The processes of a page are told of. *)
LEMMA ToldNext ==
    ASSUME FrontendAssumption, HostInv, Host!Next
    PROVE  Told'
<1> DEFINE Awaited(n) == table[n] = n \/ table[n] \in walk.through
           Got(n) == \E k \in DOMAIN list.got : list.got[k] = [pid |-> n, shows |-> table[n]]
<1>1. Host!Range(list.picked) \subseteq Host!Pid
  <2>1. list.picked \in Seq(Host!Pid)
    BY DEF HostInv, Host!TypeOK
  <2> QED BY <2>1 DEF Host!Range
<1>2. ASSUME list' = list,
             \A m \in Host!Pid : table'[m] # table[m] => table'[m] # m /\ table'[m] \notin walk.through,
             walk'.through \subseteq walk.through
      PROVE  Told'
  <2> SUFFICES ASSUME NEW n \in Host!Range(list.picked),
                      table'[n] = n \/ table'[n] \in walk'.through
               PROVE  \/ n \in Host!Range(list.rest)
                      \/ \E k \in DOMAIN list.got : list.got[k] = [pid |-> n, shows |-> table'[n]]
    BY <1>2 DEF Told, Host!Range
  <2>1. n \in Host!Pid
    BY <1>1
  <2>2. table'[n] = table[n]
    BY <1>2, <2>1
  <2> QED BY <1>2, <2>2 DEF HostInv, Told
<1>3. ASSUME list'.rest = list'.picked PROVE Told'
  BY <1>3 DEF Told, Host!Range
<1>4. ASSUME NEW n \in Host!Pid, Host!Fork(n) PROVE Told'
  BY <1>2, <1>4, Started
<1>5. ASSUME NEW n \in Host!Pid, Host!Exit(n) PROVE Told'
  BY <1>2, <1>5, Exited
<1>6. ASSUME NEW page \in Pages, NEW limit \in Limits, Host!List(page, limit) PROVE Told'
  <2>1. page \in Int /\ limit \in Int /\ limit <= MaxInt
    BY DEF FrontendAssumption
  <2> QED BY <1>3, <1>6, <2>1, AskIs DEF Host!List
<1>7. ASSUME list.rest # <<>>, list'.picked = list.picked, list'.rest = Tail(list.rest),
             table' = table, walk' = walk,
             \A n \in Host!Pid : Awaited(n) /\ Got(n) => Got(n)',
             \A n \in Host!Pid : n = Head(list.rest) /\ Awaited(n) => Got(n)'
      PROVE  Told'
  <2>1. list.rest \in Seq(Host!Pid)
    BY DEF HostInv, Host!TypeOK
  <2>2. \A n \in Host!Range(list.rest) : n = Head(list.rest) \/ n \in Host!Range(Tail(list.rest))
    <3>1. ASSUME NEW i \in DOMAIN list.rest, i # 1 
          PROVE  i - 1 \in DOMAIN Tail(list.rest) /\ Tail(list.rest)[i - 1] = list.rest[i]
      BY <1>7, <2>1, <3>1
    <3>2. list.rest[1] = Head(list.rest)
      BY <1>7, <2>1
    <3> QED BY <3>1, <3>2 DEF Host!Range
  <2>3. SUFFICES ASSUME NEW n \in Host!Range(list.picked), Awaited(n)
                 PROVE  n \in Host!Range(Tail(list.rest)) \/ Got(n)'
    BY <1>7 DEF Told
  <2>4. n \in Host!Range(list.rest) \/ Got(n)
    BY <2>3 DEF HostInv, Told
  <2>5. n \in Host!Pid
    BY <1>1
  <2> HIDE DEF Got, Awaited
  <2> QED BY <1>7, <2>2, <2>3, <2>4, <2>5
<1>8. CASE Host!Lookup
  <2>1. /\ list.rest # <<>> /\ table' = table /\ walk' = walk
        /\ IF table[Head(list.rest)] = Host!None
           THEN list' = [list EXCEPT !.rest = Tail(list.rest)]
           ELSE list' = [list EXCEPT !.at = "read"]
    BY <1>8 DEF Host!Lookup, Host!Skip
  <2>2. CASE table[Head(list.rest)] = Host!None
    <3>1. /\ list'.picked = list.picked /\ list'.rest = Tail(list.rest) /\ list'.got = list.got
      BY <2>1, <2>2 DEF HostInv, Host!TypeOK
    <3>2. ~Awaited(Head(list.rest))
      <4>1. Head(list.rest) \in Host!Pid
        BY <2>1 DEF HostInv, Host!TypeOK
      <4>2. walk.through \subseteq 1 .. born /\ born \in Int
        BY DEF HostInv, Host!TypeOK, WalkInv, FrontendAssumption
      <4> QED BY <4>1, <4>2, <2>2 DEF Host!Pid, Host!None
    <3>3. \A n \in Host!Pid : Got(n) => Got(n)'
      BY <3>1, <2>1
    <3> HIDE DEF Got, Awaited
    <3> QED BY <1>7, <2>1, <3>1, <3>2, <3>3
  <2>3. CASE table[Head(list.rest)] # Host!None
    <3>1. /\ list'.picked = list.picked /\ list'.rest = list.rest /\ list'.got = list.got
      BY <2>1, <2>3 DEF HostInv, Host!TypeOK
    <3> QED BY <2>1, <3>1 DEF HostInv, Told
  <2> QED BY <2>2, <2>3
<1>9. CASE Host!Read
  <2> DEFINE h == Head(list.rest)
             e == [pid |-> h, shows |-> table[h]]
  <2>1. /\ list.rest # <<>> /\ table' = table /\ walk' = walk
        /\ list' = [list EXCEPT !.at = "info", !.rest = Tail(list.rest), !.got = Append(list.got, e)]
    BY <1>9 DEF Host!Read, HostInv, PageInv
  <2>2. /\ list'.picked = list.picked /\ list'.rest = Tail(list.rest)
        /\ list'.got = Append(list.got, e)
    BY <2>1 DEF HostInv, Host!TypeOK
  <2>3. /\ DOMAIN list.got \subseteq DOMAIN Append(list.got, e)
        /\ \A k \in DOMAIN list.got : Append(list.got, e)[k] = list.got[k]
        /\ Len(list.got) + 1 \in DOMAIN Append(list.got, e)
        /\ Append(list.got, e)[Len(list.got) + 1] = e
    <3> DEFINE G == [pid : Host!Pid, shows : Host!Process \cup {Host!None}]
    <3>1. list.got \in Seq(G)
      BY DEF HostInv, Host!TypeOK
    <3> HIDE DEF G, e
    <3> QED BY <3>1
  <2>4. \A n \in Host!Pid : Got(n) => Got(n)'
    BY <2>1, <2>2, <2>3
  <2>5. \A n \in Host!Pid : n = h => Got(n)'
    BY <2>1, <2>2, <2>3
  <2> HIDE DEF Got, Awaited
  <2> QED BY <1>7, <2>1, <2>2, <2>4, <2>5
<1>10. CASE Host!Answer
  <2>1. /\ list'.picked = list.picked /\ list'.rest = list.rest /\ list'.got = list.got
        /\ table' = table /\ walk'.through = walk.through
    BY <1>10 DEF Host!Answer, HostInv, Host!TypeOK
  <2> QED BY <2>1 DEF HostInv, Told
<1>11. CASE Host!Done \/ Host!WalkEnds
  BY <1>3, <1>11 DEF Host!Done, Host!WalkEnds, Host!Idle
<1>12. ASSUME NEW limit \in WalkLimits, Host!Walk(limit) PROVE Told'
  <2>1. limit \in Int /\ limit <= MaxInt /\ 1 \in Int
    BY DEF FrontendAssumption
  <2> QED BY <1>3, <1>12, <2>1, AskIs DEF Host!Walk
<1>13. CASE Host!Turn
  <2>1. list.page + 1 \in Int /\ list.limit \in Int /\ list.limit <= MaxInt
    BY DEF HostInv, PageInv, Host!TypeOK
  <2> QED BY <1>3, <1>13, <2>1, AskIs DEF Host!Turn
<1> QED BY <1>4, <1>5, <1>6, <1>8, <1>9, <1>10, <1>11, <1>12, <1>13 DEF Host!Next

(* What stands on a page is among its pids. *)
LEMMA PickedIs ==
    ASSUME FrontendAssumption, HostInv, list.at \notin {"idle", "panic"},
           NEW k \in 1 .. Len(list.pids)
    PROVE  LET b == Host!Bounds(list.page, list.limit, Len(list.pids))
           IN  list.pids[k] \in Host!Range(list.picked) <=> b.from < k /\ k <= b.to
<1> DEFINE b == Host!Bounds(list.page, list.limit, Len(list.pids))
           pids == list.pids
<1>1. /\ pids \in Seq(Host!Pid) /\ Len(pids) \in Nat /\ list.page \in Int /\ list.limit \in Int
      /\ Host!Ascending(pids) /\ ~Host!Panics(b)
      /\ list.picked = SubSeq(pids, b.from + 1, b.to) /\ MaxInt \in Nat
      /\ k \in 1 .. Len(pids)
  BY DEF HostInv, PageInv, Host!TypeOK, FrontendAssumption
<1>2. /\ b.from \in 0 .. Len(pids) /\ b.to \in 0 .. Len(pids) /\ b.from <= b.to
  BY <1>1, Inside
<1> DEFINE m == b.from
           n == b.to
<1> HIDE DEF b
<1>3. /\ m \in 0 .. Len(pids) /\ n \in 0 .. Len(pids) /\ m <= n
      /\ list.picked = SubSeq(pids, m + 1, n)
  BY <1>1, <1>2
<1> HIDE DEF m, n, pids
<1>4. /\ Len(list.picked) = n - m
      /\ list.picked \in Seq(Host!Pid)
      /\ \A j \in 1 .. n - m : list.picked[j] = pids[j + m]
  <2>1. pids \in Seq(Host!Pid)
    BY <1>1
  <2>2. /\ SubSeq(pids, m + 1, n) \in Seq(Host!Pid)
        /\ Len(SubSeq(pids, m + 1, n)) = n - m
        /\ \A j \in 1 .. n - m : SubSeq(pids, m + 1, n)[j] = pids[j + m]
    BY <2>1, <1>3, SliceIs
  <2> QED BY <2>2, <1>3
<1>5. DOMAIN list.picked = 1 .. n - m
  BY <1>4
<1>6. ASSUME m < k, k <= n PROVE pids[k] \in Host!Range(list.picked)
  <2>1. k - m \in 1 .. n - m /\ (k - m) + m = k
    BY <1>3, <1>6
  <2>2. list.picked[k - m] = pids[k]
    BY <1>4, <2>1
  <2> QED BY <1>5, <2>1, <2>2 DEF Host!Range
<1>7. ASSUME pids[k] \in Host!Range(list.picked) PROVE m < k /\ k <= n
  <2>1. PICK j \in 1 .. n - m : list.picked[j] = pids[k]
    BY <1>5, <1>7 DEF Host!Range
  <2>2. j + m \in 1 .. Len(pids) /\ pids[j + m] = pids[k] /\ m < j + m /\ j + m <= n
    BY <1>3, <1>4, <2>1
  <2>3. DOMAIN pids = 1 .. Len(pids) /\ \A i \in 1 .. Len(pids) : pids[i] \in Int
    BY <1>1 DEF Host!Pid
  <2>4. (j + m < k => pids[j + m] < pids[k]) /\ (k < j + m => pids[k] < pids[j + m])
    BY <1>1, <2>2, <2>3 DEF Host!Ascending
  <2>5. j + m = k
    BY <2>2, <2>3, <2>4
  <2> QED BY <2>2, <2>5
<1> QED BY <1>6, <1>7 DEF m, n, b, pids

(* A walk has seen what stands on its pages up to the one that was answered. *)
LEMMA SeenBefore ==
    ASSUME FrontendAssumption, HostInv, list.at = "answered", walk.on, ~walk.shrunk,
           NEW k \in 1 .. Len(list.pids), k <= list.page * list.limit,
           table[list.pids[k]] \in walk.through
    PROVE  table[list.pids[k]] \in walk.seen
<1> DEFINE n == list.pids[k]
           b == Host!Bounds(list.page, list.limit, Len(list.pids))
<1>1. CASE k <= (list.page - 1) * list.limit
  BY <1>1 DEF HostInv, WalkInv
<1>2. CASE ~(k <= (list.page - 1) * list.limit)
  <2>1. /\ list.page \in Int /\ list.limit \in Int /\ Len(list.pids) \in Nat
        /\ list.limit <= MaxInt /\ MaxInt \in Nat /\ Len(list.pids) <= MaxInt
        /\ list.limit > 0 /\ list.page >= 1 /\ (list.page - 1) * list.limit <= MaxInt
    BY DEF HostInv, PageInv, WalkInv, Host!TypeOK, FrontendAssumption
  <2>2. ~Host!Panics(b)
    BY DEF HostInv, PageInv
  <2>3. (list.page - 1) * list.limit < k
    <3>1. (list.page - 1) * list.limit \in Int
      BY <2>1
    <3> QED BY <3>1, <1>2
  <2>4. b.from < k /\ k <= b.to
    BY <2>1, <2>2, <2>3, PageHas
  <2>5. n \in Host!Range(list.picked)
    BY <2>4, PickedIs
  <2>6. ~(n \in Host!Range(list.rest))
    BY DEF HostInv, PageInv, Host!Range
  <2>7. \E j \in DOMAIN list.got : list.got[j] = [pid |-> n, shows |-> table[n]]
    BY <2>5, <2>6 DEF HostInv, Told
  <2>8. table[n] \in Host!Shown
    BY <2>7 DEF Host!Shown
  <2> QED BY <2>8 DEF HostInv, WalkInv
<1> QED BY <1>1, <1>2

(* A walk in a list that only grows. *)
LEMMA WalkNext ==
    ASSUME FrontendAssumption, HostInv, Host!Next
    PROVE  WalkInv'
<1>1. ASSUME list' = Host!Idle, walk' = Host!NoWalk, table' = table, born' = born
      PROVE  WalkInv'
  <2>1. \A n \in Host!Pid : table[n] <= born
    BY DEF HostInv, WalkInv
  <2> QED BY <1>1, <2>1 DEF WalkInv, Host!NoWalk
<1>2. ASSUME NEW n \in Host!Pid, Host!Fork(n) PROVE WalkInv'
  <2>1. /\ \A m \in Host!Pid : table'[m] # table[m] => table'[m] \notin walk.through
        /\ \A m \in Host!Pid : table[m] # Host!None => table'[m] = table[m]
        /\ list' = list /\ walk' = walk /\ born' = born + 1 /\ born \in Nat
    BY <1>2, Started
  <2>7. \A m \in Host!Pid : table'[m] <= born'
    BY <1>2, Started
  <2>2. \A k \in 1 .. Len(list.pids) : list.pids[k] \in Host!Pid
    BY DEF HostInv, Host!TypeOK
  <2>3. Host!None \notin walk.through
    BY <2>1 DEF HostInv, WalkInv, Host!None
  <2>4. walk.through \subseteq 1 .. born'
    BY <2>1 DEF HostInv, WalkInv
  <2>5. Host!Shown' = Host!Shown
    BY <2>1 DEF Host!Shown
  <2>6. ASSUME walk.on, ~walk.shrunk
        PROVE  /\ \A k \in 1 .. Len(list.pids) : table'[list.pids[k]] # Host!None
               /\ \A x \in walk.through : \E m \in Host!Pid : table'[m] = x
               /\ \A m \in Host!Pid : table'[m] \in walk.through =>
                     \E k \in 1 .. Len(list.pids) : list.pids[k] = m
               /\ \A k \in 1 .. Len(list.pids) :
                     k <= (list.page - 1) * list.limit /\ table'[list.pids[k]] \in walk.through =>
                        table'[list.pids[k]] \in walk.seen
    <3>1. /\ \A k \in 1 .. Len(list.pids) : table[list.pids[k]] # Host!None
          /\ \A x \in walk.through : \E m \in Host!Pid : table[m] = x
          /\ \A m \in Host!Pid : table[m] \in walk.through =>
                \E k \in 1 .. Len(list.pids) : list.pids[k] = m
          /\ \A k \in 1 .. Len(list.pids) :
                k <= (list.page - 1) * list.limit /\ table[list.pids[k]] \in walk.through =>
                   table[list.pids[k]] \in walk.seen
      BY <2>6 DEF HostInv, WalkInv
    <3>2. \A k \in 1 .. Len(list.pids) : table'[list.pids[k]] = table[list.pids[k]]
      BY <2>1, <2>2, <3>1
    <3>3. \A x \in walk.through : \E m \in Host!Pid : table'[m] = x
      BY <2>1, <2>3, <3>1
    <3>4. \A m \in Host!Pid : table'[m] \in walk.through => table[m] \in walk.through
      BY <2>1
    <3> QED BY <3>1, <3>2, <3>3, <3>4
  <2> QED BY <2>1, <2>4, <2>5, <2>6, <2>7 DEF HostInv, WalkInv
<1>3. ASSUME NEW n \in Host!Pid, Host!Exit(n) PROVE WalkInv'
  <2>1. /\ walk'.through \subseteq walk.through /\ walk'.on = walk.on
        /\ walk'.seen = walk.seen /\ walk'.shrunk = walk.on
        /\ list' = list /\ born' = born
        /\ \A m \in Host!Pid : table'[m] <= born'
    BY <1>3, Exited
  <2>2. Host!Shown' = Host!Shown
    BY <2>1 DEF Host!Shown
  <2> QED BY <2>1, <2>2 DEF HostInv, WalkInv
<1>4. ASSUME NEW page \in Pages, NEW limit \in Limits, Host!List(page, limit) PROVE WalkInv'
  BY <1>4 DEF Host!List, HostInv, WalkInv
<1>5. CASE Host!Lookup \/ Host!Read
  <2>1. /\ table' = table /\ born' = born /\ walk' = walk
        /\ list'.page = list.page /\ list'.limit = list.limit /\ list'.pids = list.pids
        /\ list'.at \in {"info", "read"}
    BY <1>5 DEF Host!Lookup, Host!Read, Host!Skip, HostInv, Host!TypeOK
  <2>2. list.at # "idle"
    BY <1>5 DEF Host!Lookup, Host!Read
  <2> QED BY <2>1, <2>2 DEF HostInv, WalkInv
<1>6. CASE Host!Answer
  <2>1. /\ table' = table /\ born' = born /\ list.at = "info"
        /\ list'.page = list.page /\ list'.limit = list.limit /\ list'.pids = list.pids
        /\ list'.at = "answered" /\ list'.got = list.got
        /\ walk'.on = walk.on /\ walk'.shrunk = walk.shrunk /\ walk'.through = walk.through
        /\ walk'.seen = IF walk.on THEN walk.seen \cup Host!Shown ELSE walk.seen
    BY <1>6 DEF Host!Answer, HostInv, Host!TypeOK
  <2>2. Host!Shown' = Host!Shown
    BY <2>1 DEF Host!Shown
  <2> QED BY <2>1, <2>2 DEF HostInv, WalkInv
<1>7. CASE Host!Done \/ Host!WalkEnds
  BY <1>1, <1>7 DEF Host!Done, Host!WalkEnds
<1>8. ASSUME NEW limit \in WalkLimits, Host!Walk(limit) PROVE WalkInv'
  <2>1. limit \in Int /\ limit > 0 /\ limit <= MaxInt /\ 1 \in Int /\ MaxInt \in Nat /\ MaxPid \in Nat
    BY DEF FrontendAssumption
  <2>2. /\ Host!Ask(1, limit) /\ table' = table /\ born' = born
        /\ walk' = [on |-> TRUE, through |-> Host!Alive, seen |-> {}, shrunk |-> FALSE]
    BY <1>8 DEF Host!Walk
  <2>3. list'.at \in {"info", "panic"} /\ list'.page = 1 /\ list'.limit = limit /\ list'.pids = Host!Pids
    BY <2>1, <2>2, AskIs
  <2>4. Host!Alive \subseteq 1 .. born /\ \A n \in Host!Pid : table[n] <= born
    BY DEF Host!Alive, HostInv, WalkInv, Host!TypeOK, Host!Process, Host!None
  <2>5. /\ Host!Pids \in Seq(Host!Pid)
        /\ \A n \in Host!Pid :
              table[n] # Host!None <=> \E k \in 1 .. Len(Host!Pids) : Host!Pids[k] = n
    BY <2>1, PidsAre
  <2>6. \A k \in 1 .. Len(Host!Pids) : Host!Pids[k] \in Host!Pid
    BY <2>5
  <2>7. \A k \in 1 .. Len(Host!Pids) : table[Host!Pids[k]] # Host!None
    BY <2>5, <2>6
  <2>8. \A x \in Host!Alive : x # Host!None /\ \E n \in Host!Pid : table[n] = x
    BY DEF Host!Alive
  <2>9. \A n \in Host!Pid : table[n] \in Host!Alive =>
           \E k \in 1 .. Len(Host!Pids) : Host!Pids[k] = n
    BY <2>5, <2>8
  <2>10. /\ (list'.page - 1) * list'.limit = 0
         /\ \A k \in 1 .. Len(Host!Pids) : ~(k <= 0)
    BY <2>1, <2>3
  <2>11. /\ walk'.on /\ walk'.through = Host!Alive /\ list'.at # "idle" /\ list'.at # "answered"
         /\ list'.limit > 0 /\ list'.page > 0
    BY <2>1, <2>2, <2>3
  <2> QED BY <2>1, <2>2, <2>3, <2>4, <2>7, <2>8, <2>9, <2>10, <2>11 DEF WalkInv
<1>9. CASE Host!Turn
  <2>1. /\ list.page + 1 \in Int /\ list.page \in Int /\ list.limit \in Int /\ list.limit <= MaxInt
        /\ MaxInt \in Nat /\ MaxPid \in Nat /\ MaxPid <= MaxInt
        /\ Len(list.pids) <= MaxPid /\ list.limit > 0 /\ list.page > 0
        /\ list.pids \in Seq(Host!Pid) /\ Len(list.pids) \in Nat
    BY <1>9 DEF HostInv, PageInv, WalkInv, Host!TypeOK, FrontendAssumption, Host!Turn
  <2>2. /\ Host!Ask(list.page + 1, list.limit) /\ table' = table /\ born' = born /\ walk' = walk
        /\ list.at = "answered" /\ walk.on /\ ~(list.page * list.limit >= Len(list.pids))
    BY <1>9 DEF Host!Turn, Host!AtEnd
  <2>3. /\ list'.at \in {"info", "panic"} /\ list'.page = list.page + 1
        /\ list'.limit = list.limit /\ list'.pids = Host!Pids
    BY <2>1, <2>2, AskIs
  <2>4. /\ (list'.page - 1) * list'.limit = list.page * list.limit
        /\ list.page * list.limit \in Int
    BY <2>1, <2>3
  <2>5. list.page * list.limit <= MaxInt
    BY <2>1, <2>2, <2>4
  <2>6. ASSUME ~walk.shrunk
        PROVE  /\ \A k \in 1 .. Len(Host!Pids) : table[Host!Pids[k]] # Host!None
               /\ \A x \in walk.through : \E n \in Host!Pid : table[n] = x
               /\ \A n \in Host!Pid : table[n] \in walk.through =>
                     \E k \in 1 .. Len(Host!Pids) : Host!Pids[k] = n
               /\ \A k \in 1 .. Len(Host!Pids) :
                     k <= list.page * list.limit /\ table[Host!Pids[k]] \in walk.through =>
                        table[Host!Pids[k]] \in walk.seen
    <3>1. /\ Host!Pids \in Seq(Host!Pid) /\ Host!Ascending(Host!Pids)
          /\ \A n \in Host!Pid :
                table[n] # Host!None <=> \E k \in 1 .. Len(Host!Pids) : Host!Pids[k] = n
      BY <2>1, PidsAre
    <3>2. /\ \A k \in 1 .. Len(list.pids) : table[list.pids[k]] # Host!None
          /\ \A x \in walk.through : \E m \in Host!Pid : table[m] = x
          /\ \A m \in Host!Pid : table[m] \in walk.through =>
                \E k \in 1 .. Len(list.pids) : list.pids[k] = m
      BY <2>2, <2>6 DEF HostInv, WalkInv
    <3>3. \A k \in 1 .. Len(Host!Pids) : Host!Pids[k] \in Host!Pid
      BY <3>1
    <3>4. \A k \in 1 .. Len(list.pids) : list.pids[k] \in Host!Pid
      BY <2>1
    <3>5. \A k \in 1 .. Len(Host!Pids) : table[Host!Pids[k]] # Host!None
      BY <3>1, <3>3
    <3>6. \A i \in 1 .. Len(list.pids) : \E m \in 1 .. Len(Host!Pids) : Host!Pids[m] = list.pids[i]
      BY <3>1, <3>2, <3>4
    <3>7. ASSUME NEW j \in 1 .. Len(Host!Pids), j <= list.page * list.limit,
                 table[Host!Pids[j]] \in walk.through
          PROVE  table[Host!Pids[j]] \in walk.seen
      <4>1. PICK k \in 1 .. Len(list.pids) : list.pids[k] = Host!Pids[j]
        BY <3>2, <3>3, <3>7
      <4>2. Host!Ascending(list.pids)
        BY DEF HostInv, PageInv
      <4>3. k <= j
        BY <2>1, <3>1, <3>6, <4>1, <4>2, NotBefore
      <4>4. k <= list.page * list.limit
        BY <4>3, <3>7, <2>4
      <4>5. table[list.pids[k]] \in walk.seen
        BY <2>2, <2>6, <3>7, <4>1, <4>4, SeenBefore
      <4> QED BY <4>1, <4>5
    <3>8. \A n \in Host!Pid : table[n] \in walk.through => table[n] # Host!None
      <4>1. Host!None \notin walk.through
        BY DEF HostInv, WalkInv, Host!TypeOK, Host!None
      <4> QED BY <4>1
    <3> QED BY <3>1, <3>2, <3>5, <3>7, <3>8
  <2>7. /\ \A n \in Host!Pid : table[n] <= born
        /\ walk.through \subseteq 1 .. born
    BY DEF HostInv, WalkInv
  <2>8. list'.at # "idle" /\ list'.at # "answered" /\ list'.limit > 0 /\ list'.page > 0
    BY <2>1, <2>3
  <2> QED BY <2>2, <2>3, <2>4, <2>5, <2>6, <2>7, <2>8 DEF WalkInv
<1> QED BY <1>2, <1>3, <1>4, <1>5, <1>6, <1>7, <1>8, <1>9 DEF Host!Next
-----------------------------------------------------------------------------
USE DiscoveryAssumption DEF DiscoveryAssumption

(* Every variable stays within its type: udp.go and the clock.              *)
LEMMA TypeInit == Init => TypeOK
  BY DEF Init, TypeOK, Off, NoBrowse, Rest

(* Every step keeps the types.                                              *)
LEMMA TypeNext == TypeOK /\ [Next]_dvars => TypeOK'
<1> SUFFICES ASSUME TypeOK, [Next]_dvars PROVE TypeOK'
  OBVIOUS
<1> USE DEF TypeOK, Rest
<1>1. ASSUME NEW a \in Agent, Start(a) PROVE TypeOK'
  <2>1. PICK at \in {"on", "mute"} : agent' = [agent EXCEPT ![a] = [at |-> at, due |-> 0]]
    BY <1>1 DEF Start
  <2>2. [at |-> at, due |-> 0] \in [at : {"off", "on", "mute"}, due : 0 .. Rest]
    OBVIOUS
  <2> QED BY <1>1, <2>1, <2>2 DEF Start
<1>2. ASSUME NEW a \in Agent, Stop(a) PROVE TypeOK'
  <2>1. Off \in [at : {"off", "on", "mute"}, due : 0 .. Rest]
    BY DEF Off
  <2>2. browse.through \ {a} \in SUBSET Agent
    OBVIOUS
  <2>3. agent' \in [Agent -> [at : {"off", "on", "mute"}, due : 0 .. Rest]]
    BY <1>2, <2>1 DEF Stop
  <2> QED BY <1>2, <2>2, <2>3 DEF Stop
<1>3. ASSUME NEW a \in Agent, Send(a) PROVE TypeOK'
  <2>1. [agent[a] EXCEPT !.due = Rest] \in [at : {"off", "on", "mute"}, due : 0 .. Rest]
    <3>1. agent[a] \in [at : {"off", "on", "mute"}, due : 0 .. Rest]
      OBVIOUS
    <3> QED BY <3>1
  <2>2. agent' = [agent EXCEPT ![a] = [agent[a] EXCEPT !.due = Rest]]
    BY <1>3 DEF Send
  <2>3. [from |-> a, age |-> 0] \in [from : Agent, age : 0 .. MaxDelay]
    OBVIOUS
  <2> QED BY <1>3, <2>1, <2>2, <2>3 DEF Send
<1>4. ASSUME NEW timeout \in Timeouts, Open(timeout) PROVE TypeOK'
  <2>1. browse' = [at |-> "listening", timeout |-> timeout, left |-> timeout, results |-> <<>>,
                   through |-> {a \in Agent : agent[a].at = "on"},
                   lost |-> [a \in Agent |-> 0]]
    BY <1>4 DEF Open, NoBrowse
  <2>2. /\ timeout \in Nat /\ <<>> \in Seq(Agent)
        /\ {a \in Agent : agent[a].at = "on"} \in SUBSET Agent
        /\ [a \in Agent |-> 0] \in [Agent -> 0 .. MaxLosses]
    OBVIOUS
  <2>3. browse' \in [at : {"idle", "listening", "listed", "failed"},
                     timeout : Nat, left : Nat, results : Seq(Agent),
                     through : SUBSET Agent, lost : [Agent -> 0 .. MaxLosses]]
    BY <2>1, <2>2
  <2> QED BY <1>4, <2>3 DEF Open
<1>5. ASSUME NEW p \in air, Deliver(p) PROVE TypeOK'
  <2>1. air' \subseteq air
    BY <1>5 DEF Deliver
  <2>2. Collect(p.from) \in Seq(Agent)
    BY <1>5 DEF Collect
  <2> QED BY <1>5, <2>1, <2>2 DEF Deliver
<1>6. ASSUME NEW p \in air, Lose(p) PROVE TypeOK'
  <2>1. p.from \in Agent
    OBVIOUS
  <2>2. Listening => browse.lost[p.from] + 1 \in 0 .. MaxLosses
    BY <1>6, <2>1 DEF Lose
  <2> QED BY <1>6, <2>1, <2>2 DEF Lose
<1>7. ASSUME Close \/ ReadError \/ Show PROVE TypeOK'
  <2>1. CASE Close
    BY <2>1 DEF Close
  <2>2. CASE ReadError
    <3>1. <<>> \in Seq(Agent)
      OBVIOUS
    <3> QED BY <2>2, <3>1 DEF ReadError
  <2>3. CASE Show
    BY <2>3 DEF Show, NoBrowse
  <2> QED BY <1>7, <2>1, <2>2, <2>3
<1>8. ASSUME Tick PROVE TypeOK'
  <2>1. agent' \in [Agent -> [at : {"off", "on", "mute"}, due : 0 .. Rest]]
    <3> SUFFICES ASSUME NEW a \in Agent
                 PROVE  [agent[a] EXCEPT !.due = IF @ = 0 THEN 0 ELSE @ - 1]
                           \in [at : {"off", "on", "mute"}, due : 0 .. Rest]
      BY <1>8 DEF Tick
    <3>1. agent[a] \in [at : {"off", "on", "mute"}, due : 0 .. Rest]
      OBVIOUS
    <3>2. (IF agent[a].due = 0 THEN 0 ELSE agent[a].due - 1) \in 0 .. Rest
      BY <3>1
    <3> QED BY <3>1, <3>2
  <2>2. air' \subseteq [from : Agent, age : 0 .. MaxDelay]
    <3> SUFFICES ASSUME NEW p \in air
                 PROVE  [p EXCEPT !.age = @ + 1] \in [from : Agent, age : 0 .. MaxDelay]
      BY <1>8 DEF Tick
    <3>1. p.age # MaxDelay
      BY <1>8 DEF Tick, Due
    <3>2. p \in [from : Agent, age : 0 .. MaxDelay] /\ p.age + 1 \in 0 .. MaxDelay
      BY <3>1
    <3> QED BY <3>2
  <2>3. Listening => browse.left - 1 \in Nat
    BY <1>8 DEF Tick, Due
  <2> QED BY <1>8, <2>1, <2>2, <2>3 DEF Tick
<1>9. CASE UNCHANGED dvars
  BY <1>9 DEF dvars
<1> QED BY <1>1, <1>2, <1>3, <1>4, <1>5, <1>6, <1>7, <1>8, <1>9 DEF Next

(* Every variable of the discovery stays within its type: udp.go.             *)
THEOREM TypeCorrect == Spec => []TypeOK
  BY TypeInit, TypeNext, PTL DEF Spec
-----------------------------------------------------------------------------
(* The invariant.  An agent that has advertised since the browse opened and  *)
(* is not heard yet will send its next packet in time, or the packet it has  *)
(* sent last is on its way and was sent in time: one interval from the       *)
(* opening, and one more for each packet that was lost.                      *)
Elapsed == browse.timeout - browse.left
Allowed(a) == Interval * (browse.lost[a] + 1)

WillSend(a) == Elapsed + agent[a].due <= Allowed(a)
OnItsWay(a) == \E p \in air : /\ p.from = a
                              /\ Elapsed - p.age <= Allowed(a)
                              /\ p.age + agent[a].due = Interval

HearingInv ==
    Listening =>
       /\ browse.left <= browse.timeout
       /\ \A a \in browse.through :
             /\ agent[a].at = "on"
             /\ Key[a] \in Seen \/ WillSend(a) \/ OnItsWay(a)

HeardInTime ==
    browse.at = "listed" =>
       \A a \in browse.through :
          browse.timeout > Allowed(a) + MaxDelay => Key[a] \in Seen

NoneTwice ==
    \A j, k \in DOMAIN browse.results :
       Key[browse.results[j]] = Key[browse.results[k]] => j = k

(* Multiplication is kept out of the steps below. *)
LEMMA OneMore ==
    ASSUME NEW n \in Nat
    PROVE  /\ Interval * (0 + 1) = Interval
           /\ Interval * (n + 1) \in Nat
           /\ Interval * (n + 1 + 1) = Interval * (n + 1) + Interval
  OBVIOUS

(* What is collected is seen, and nothing is forgotten: Browse, udp.go:116.  *)
LEMMA CollectSees ==
    ASSUME TypeOK, NEW a \in Agent, browse'.results = Collect(a)
    PROVE  Seen \subseteq Seen' /\ Key[a] \in Seen'
<1> DEFINE R == browse.results
<1>1. R \in Seq(Agent)
  BY DEF TypeOK
<1>2. CASE Key[a] \in Seen
  BY <1>2 DEF Collect, Seen
<1>3. CASE Key[a] \notin Seen
  <2>1. browse'.results = Append(R, a)
    BY <1>3 DEF Collect
  <2>2. /\ Len(R) + 1 \in DOMAIN Append(R, a) /\ Append(R, a)[Len(R) + 1] = a
        /\ \A k \in DOMAIN R : k \in DOMAIN Append(R, a) /\ Append(R, a)[k] = R[k]
    BY <1>1
  <2> QED BY <2>1, <2>2 DEF Seen
<1> QED BY <1>2, <1>3

(* No browse is under way at first.                                         *)
LEMMA HearingInit == Init => HearingInv
  BY DEF Init, HearingInv, NoBrowse, Listening

(* Every step keeps what is known of an agent that was not heard.           *)
LEMMA HearingNext ==
    ASSUME MaxDelay < Interval, TypeOK, TypeOK', HearingInv, [Next]_dvars
    PROVE  HearingInv'
<1> DEFINE Hears(a) == Key[a] \in Seen \/ WillSend(a) \/ OnItsWay(a)
<1> SUFFICES ASSUME Listening'
             PROVE  /\ (browse.left <= browse.timeout)'
                    /\ \A a \in browse'.through : agent'[a].at = "on" /\ Hears(a)'
  BY DEF HearingInv
<1>0. Listening =>
         /\ browse.left <= browse.timeout
         /\ \A a \in browse.through : a \in Agent /\ agent[a].at = "on" /\ Hears(a)
  BY DEF HearingInv, TypeOK
<1>a. browse.timeout \in Nat /\ browse.left \in Nat
  BY DEF TypeOK
<1>b. \A a \in Agent : /\ browse.lost[a] \in Nat /\ agent[a].due \in 0 .. Interval
                       /\ Allowed(a) \in Nat
  BY OneMore DEF TypeOK, Rest, Allowed
<1> USE DEF Listening
<1>1. ASSUME NEW b \in Agent, Start(b) PROVE HearingInv'
  <2>1. browse' = browse /\ air' = air
    BY <1>1 DEF Start
  <2>2. \A a \in browse.through : agent'[a] = agent[a]
    BY <1>1, <1>0, <2>1 DEF Start, TypeOK
  <2> QED BY <2>1, <2>2, <1>0 DEF HearingInv, Seen, WillSend, OnItsWay, Elapsed, Allowed
<1>2. ASSUME NEW b \in Agent, Stop(b) PROVE HearingInv'
  <2>1. /\ browse'.through = browse.through \ {b} /\ air' = air
        /\ browse'.at = browse.at /\ browse'.left = browse.left
        /\ browse'.timeout = browse.timeout /\ browse'.lost = browse.lost
        /\ browse'.results = browse.results
    BY <1>2 DEF Stop, TypeOK
  <2>2. \A a \in browse'.through : a \in browse.through /\ agent'[a] = agent[a]
    BY <1>2, <2>1 DEF Stop, TypeOK
  <2> QED BY <2>1, <2>2, <1>0 DEF HearingInv, Seen, WillSend, OnItsWay, Elapsed, Allowed
<1>3. ASSUME NEW b \in Agent, Send(b) PROVE HearingInv'
  <2>1. browse' = browse /\ agent[b].at = "on" /\ agent[b].due = 0
    BY <1>3 DEF Send
  <2>2. \A a \in Agent \ {b} : agent'[a] = agent[a]
    BY <1>3 DEF Send, TypeOK
  <2>3. agent'[b].at = "on" /\ agent'[b].due = Interval
    BY <1>3, <2>1 DEF Send, TypeOK, Rest
  <2>4. air' = air \cup {[from |-> b, age |-> 0]}
    BY <1>3 DEF Send
  <2>5. \A a \in browse.through \ {b} : Hears(a)'
    BY <2>1, <2>2, <2>4, <1>0 DEF Seen, WillSend, OnItsWay, Elapsed, Allowed
  <2>6. ~OnItsWay(b)
    BY <2>1 DEF OnItsWay, TypeOK
  <2>7. b \in browse.through => Hears(b)'
    <3>1. CASE Key[b] \in Seen
      BY <3>1, <2>1 DEF Seen
    <3>2. CASE b \in browse.through /\ WillSend(b)
      <4>1. Elapsed <= Allowed(b)
        BY <3>2, <2>1, <1>a, <1>b DEF WillSend, Elapsed
      <4>2. OnItsWay(b)'
        <5> DEFINE q == [from |-> b, age |-> 0]
        <5>1. q \in air' /\ q.from = b /\ q.age = 0
          BY <2>4
        <5>2. Elapsed' = Elapsed /\ Allowed(b)' = Allowed(b)
          BY <2>1 DEF Elapsed, Allowed
        <5>3. Elapsed' - q.age <= Allowed(b)' /\ q.age + agent'[b].due = Interval
          BY <5>1, <5>2, <4>1, <2>3, <1>a DEF Elapsed
        <5> QED BY <5>1, <5>3 DEF OnItsWay
      <4> QED BY <4>2
    <3> QED BY <3>1, <3>2, <2>1, <2>6, <1>0
  <2> QED BY <2>1, <2>2, <2>3, <2>5, <2>7, <1>0 DEF HearingInv
<1>4. ASSUME NEW timeout \in Timeouts, Open(timeout) PROVE HearingInv'
  <2>1. /\ browse'.left = timeout /\ browse'.timeout = timeout
        /\ browse'.through = {a \in Agent : agent[a].at = "on"}
        /\ browse'.lost = [a \in Agent |-> 0] /\ agent' = agent
    BY <1>4 DEF Open, NoBrowse
  <2>2. \A a \in browse'.through : WillSend(a)'
    <3> TAKE a \in browse'.through
    <3>1. a \in Agent /\ browse'.lost[a] = 0 /\ agent'[a].due \in 0 .. Interval
      BY <2>1, <1>b
    <3>2. Allowed(a)' = Interval
      BY <3>1, OneMore DEF Allowed
    <3> QED BY <3>1, <3>2, <2>1 DEF WillSend, Elapsed
  <2> QED BY <2>1, <2>2 DEF HearingInv
<1>5. ASSUME NEW p \in air, Deliver(p) PROVE HearingInv'
  <2>1. agent' = agent /\ Listening
    BY <1>5 DEF Deliver
  <2>2. browse' = [browse EXCEPT !.results = Collect(p.from)]
    BY <1>5, <2>1 DEF Deliver
  <2>3. /\ browse'.through = browse.through /\ browse'.left = browse.left
        /\ browse'.timeout = browse.timeout /\ browse'.lost = browse.lost
        /\ browse'.results = Collect(p.from)
    BY <2>2 DEF TypeOK
  <2>4. Seen \subseteq Seen' /\ Key[p.from] \in Seen'
    BY <2>3, CollectSees DEF TypeOK
  <2>5. air \ {p} \subseteq air'
    BY <1>5 DEF Deliver
  <2>6. \A a \in browse.through : Hears(a)'
    BY <2>1, <2>3, <2>4, <2>5, <1>0 DEF WillSend, OnItsWay, Elapsed, Allowed
  <2> QED BY <2>1, <2>3, <2>6, <1>0 DEF HearingInv
<1>6. ASSUME NEW p \in air, Lose(p) PROVE HearingInv'
  <2>1. agent' = agent /\ Listening /\ p.from \in Agent
    BY <1>6 DEF Lose, TypeOK
  <2>2. browse' = [browse EXCEPT !.lost[p.from] = @ + 1] /\ air' = air \ {p}
    BY <1>6, <2>1 DEF Lose
  <2>3. /\ browse'.through = browse.through /\ browse'.left = browse.left
        /\ browse'.timeout = browse.timeout /\ browse'.results = browse.results
        /\ \A a \in Agent : browse'.lost[a] = IF a = p.from THEN browse.lost[a] + 1
                                                           ELSE browse.lost[a]
    BY <2>1, <2>2 DEF TypeOK
  <2>4. Elapsed' = Elapsed /\ Seen' = Seen /\ Elapsed \in Int
    BY <2>3, <1>a DEF Elapsed, Seen
  <2>5. \A a \in Agent \ {p.from} : Allowed(a)' = Allowed(a)
    BY <2>3 DEF Allowed
  <2>6. Allowed(p.from)' = Allowed(p.from) + Interval
    BY <2>1, <2>3, <1>b, OneMore DEF Allowed
  <2>7. \A a \in browse.through \ {p.from} : Hears(a)'
    BY <2>1, <2>2, <2>4, <2>5, <1>0 DEF WillSend, OnItsWay
  <2>8. p.from \in browse.through => Hears(p.from)'
    <3>1. CASE Key[p.from] \in Seen
      BY <3>1, <2>4
    <3>2. CASE WillSend(p.from)
      BY <3>2, <2>1, <2>4, <2>6, <1>b DEF WillSend
    <3>3. CASE OnItsWay(p.from)
      <4>1. PICK q \in air : /\ Elapsed - q.age <= Allowed(p.from)
                             /\ q.age + agent[p.from].due = Interval
        BY <3>3 DEF OnItsWay
      <4>2. q.age \in Nat
        BY DEF TypeOK
      <4>3. Elapsed + agent[p.from].due <= Allowed(p.from) + Interval
        BY <4>1, <4>2, <2>1, <2>4, <1>b
      <4> QED BY <4>3, <2>1, <2>4, <2>6 DEF WillSend
    <3> QED BY <3>1, <3>2, <3>3, <2>1, <1>0
  <2> QED BY <2>1, <2>3, <2>7, <2>8, <1>0 DEF HearingInv
<1>7. ASSUME Close \/ ReadError \/ Show PROVE HearingInv'
  <2>1. browse'.at \in {"listed", "failed", "idle"}
    <3>1. CASE Close
      BY <3>1 DEF Close, TypeOK
    <3>2. CASE ReadError
      BY <3>2 DEF ReadError, TypeOK
    <3>3. CASE Show
      BY <3>3 DEF Show, NoBrowse
    <3> QED BY <1>7, <3>1, <3>2, <3>3
  <2> QED BY <2>1
<1>8. ASSUME Tick PROVE HearingInv'
  <2>1. /\ Listening /\ browse.left # 0
        /\ \A a \in Agent : agent[a].at = "on" => agent[a].due # 0
    BY <1>8 DEF Tick, Due, TypeOK
  <2>2. /\ browse'.through = browse.through /\ browse'.left = browse.left - 1
        /\ browse'.timeout = browse.timeout /\ browse'.lost = browse.lost
        /\ browse'.results = browse.results
    BY <1>8, <2>1 DEF Tick, TypeOK
  <2>3. \A a \in browse.through : /\ agent'[a].at = "on"
                                  /\ agent'[a].due = agent[a].due - 1
    BY <1>8, <2>1, <1>0 DEF Tick, TypeOK
  <2>4. Seen' = Seen /\ Elapsed' = Elapsed + 1 /\ \A a : Allowed(a)' = Allowed(a)
    BY <2>2, <1>a DEF Seen, Elapsed, Allowed
  <2>5. \A a \in browse.through : WillSend(a) => WillSend(a)'
    BY <2>1, <2>3, <2>4, <1>0, <1>a, <1>b DEF WillSend, Elapsed
  <2>6. \A a \in browse.through : OnItsWay(a) => OnItsWay(a)'
    <3> SUFFICES ASSUME NEW a \in browse.through, OnItsWay(a) PROVE OnItsWay(a)'
      OBVIOUS
    <3>1. PICK p \in air : /\ p.from = a
                           /\ Elapsed - p.age <= Allowed(a)
                           /\ p.age + agent[a].due = Interval
      BY DEF OnItsWay
    <3> DEFINE q == [p EXCEPT !.age = @ + 1]
    <3>2. q.from = a /\ q.age = p.age + 1 /\ p.age \in Nat
      BY <3>1 DEF TypeOK
    <3>6. q \in air'
      BY <1>8 DEF Tick
    <3>3. a \in Agent
      BY <2>1, <1>0
    <3>4. Elapsed' - q.age <= Allowed(a)' /\ q.age + agent'[a].due = Interval
      BY <3>1, <3>2, <3>3, <2>3, <2>4, <1>a, <1>b DEF Elapsed
    <3> QED BY <3>2, <3>4, <3>6 DEF OnItsWay
  <2> QED BY <2>1, <2>2, <2>3, <2>4, <2>5, <2>6, <1>0, <1>a DEF HearingInv
<1>9. CASE UNCHANGED dvars
  BY <1>9, <1>0 DEF dvars, HearingInv, Seen, WillSend, OnItsWay, Elapsed, Allowed
<1> QED BY <1>1, <1>2, <1>3, <1>4, <1>5, <1>6, <1>7, <1>8, <1>9 DEF Next, HearingInv

-----------------------------------------------------------------------------
(* When the read deadline passes, whoever was to be heard has been.          *)
LEMMA HeardNext ==
    ASSUME TypeOK, HearingInv, HeardInTime, [Next]_dvars
    PROVE  HeardInTime'
<1> USE DEF HeardInTime
<1>1. CASE Close
  <2>1. /\ browse'.through = browse.through /\ browse'.results = browse.results
        /\ browse'.timeout = browse.timeout /\ browse'.lost = browse.lost
        /\ browse.left = 0 /\ Listening
    BY <1>1 DEF Close, TypeOK
  <2> SUFFICES ASSUME NEW a \in browse.through,
                      browse.timeout > Allowed(a) + MaxDelay
               PROVE  Key[a] \in Seen
    BY <2>1 DEF Allowed, Seen
  <2>2. a \in Agent
    BY DEF TypeOK
  <2>3. /\ browse.timeout \in Nat /\ agent[a].due \in Nat /\ Allowed(a) \in Nat
        /\ Elapsed = browse.timeout
    BY <2>1, <2>2, OneMore DEF TypeOK, Rest, Allowed, Elapsed
  <2>4. ~WillSend(a)
    BY <2>3 DEF WillSend
  <2>5. ~OnItsWay(a)
    BY <2>3 DEF OnItsWay, TypeOK
  <2> QED BY <2>1, <2>4, <2>5 DEF HearingInv
<1>2. ASSUME NEW a \in Agent, Stop(a) PROVE HeardInTime'
  BY <1>2 DEF Stop, TypeOK, Allowed, Seen
<1>3. ASSUME NEW p \in air, Deliver(p) \/ Lose(p) PROVE HeardInTime'
  <2>1. CASE Listening
    <3>1. browse'.at = "listening"
      BY <1>3, <2>1 DEF Deliver, Lose, Listening, TypeOK
    <3> QED BY <3>1
  <2>2. CASE ~Listening
    BY <1>3, <2>2 DEF Deliver, Lose, Allowed, Seen
  <2> QED BY <2>1, <2>2
<1>4. CASE Tick
  <2>1. /\ browse'.at = browse.at /\ browse'.through = browse.through
        /\ browse'.results = browse.results /\ browse'.timeout = browse.timeout
        /\ browse'.lost = browse.lost
    BY <1>4 DEF Tick, TypeOK
  <2> QED BY <2>1 DEF Allowed, Seen
<1>5. ASSUME NEW a \in Agent, Start(a) \/ Send(a) PROVE HeardInTime'
  BY <1>5 DEF Start, Send, Allowed, Seen
<1>6. ASSUME NEW timeout \in Timeouts, Open(timeout) PROVE HeardInTime'
  BY <1>6 DEF Open, NoBrowse
<1>7. CASE ReadError \/ Show
  <2>1. browse'.at \in {"failed", "idle"}
    <3>1. CASE ReadError
      BY <3>1 DEF ReadError, TypeOK
    <3>2. CASE Show
      BY <3>2 DEF Show, NoBrowse
    <3> QED BY <1>7, <3>1, <3>2
  <2> QED BY <2>1
<1>8. CASE UNCHANGED dvars
  BY <1>8 DEF dvars, Allowed, Seen
<1> QED BY <1>1, <1>2, <1>3, <1>4, <1>5, <1>6, <1>7, <1>8 DEF Next

(* What has been collected is of different agents: Browse, udp.go:116.       *)
LEMMA NoneTwiceNext ==
    ASSUME TypeOK, NoneTwice, [Next]_dvars
    PROVE  NoneTwice'
<1> USE DEF NoneTwice
<1> DEFINE R == browse.results
<1>1. R \in Seq(Agent)
  BY DEF TypeOK
<1>2. ASSUME browse'.results = R PROVE NoneTwice'
  BY <1>2
<1>3. ASSUME browse'.results = <<>> PROVE NoneTwice'
  BY <1>3
<1>4. ASSUME NEW a \in Agent, browse'.results = Collect(a) PROVE NoneTwice'
  <2>1. CASE Key[a] \in Seen
    BY <1>4, <2>1 DEF Collect
  <2>2. CASE Key[a] \notin Seen
    <3>1. browse'.results = Append(R, a)
      BY <1>4, <2>2 DEF Collect
    <3>2. /\ DOMAIN Append(R, a) = DOMAIN R \cup {Len(R) + 1}
          /\ Append(R, a)[Len(R) + 1] = a
          /\ \A k \in DOMAIN R : Append(R, a)[k] = R[k]
      BY <1>1
    <3>3. \A k \in DOMAIN R : Key[R[k]] # Key[a]
      BY <2>2 DEF Seen
    <3> QED BY <3>1, <3>2, <3>3
  <2> QED BY <2>1, <2>2
<1>5. ASSUME NEW b \in Agent, Start(b) \/ Stop(b) \/ Send(b) PROVE browse'.results = R
  BY <1>5 DEF Start, Stop, Send, TypeOK
<1>6. ASSUME NEW timeout \in Timeouts, Open(timeout) PROVE browse'.results = <<>>
  BY <1>6 DEF Open, NoBrowse
<1>7. ASSUME NEW p \in air, Deliver(p) PROVE NoneTwice'
  <2>1. p.from \in Agent /\ (browse'.results = R \/ browse'.results = Collect(p.from))
    BY <1>7 DEF Deliver, TypeOK
  <2> QED BY <2>1, <1>2, <1>4
<1>8. ASSUME NEW p \in air, Lose(p) PROVE browse'.results = R
  BY <1>8 DEF Lose, TypeOK
<1>9. CASE Close \/ Tick
  <2>1. browse'.results = R
    BY <1>9 DEF Close, Tick, TypeOK
  <2> QED BY <2>1, <1>2
<1>10. CASE ReadError \/ Show
  <2>1. browse'.results = <<>>
    <3>1. CASE ReadError
      BY <3>1 DEF ReadError, TypeOK
    <3>2. CASE Show
      BY <3>2 DEF Show, NoBrowse
    <3> QED BY <1>10, <3>1, <3>2
  <2> QED BY <2>1, <1>3
<1>11. CASE UNCHANGED dvars
  BY <1>11 DEF dvars
<1> QED BY <1>2, <1>3, <1>5, <1>6, <1>7, <1>8, <1>9, <1>10, <1>11 DEF Next

(* A browse that waits long enough hears every agent that advertises, once:  *)
(* one interval for the next packet, one more for each that is lost, and the *)
(* time a packet travels, which is shorter than an interval: udp.go:42-124.  *)
THEOREM EveryAgentHeard ==
    ASSUME MaxDelay < Interval
    PROVE  Spec => []HeardAlive
<1>1. Init => TypeOK /\ HearingInv /\ HeardInTime /\ NoneTwice
  BY TypeInit, HearingInit DEF Init, NoBrowse, HeardInTime, NoneTwice
<1>2. TypeOK /\ HearingInv /\ HeardInTime /\ NoneTwice /\ [Next]_dvars
         => (TypeOK /\ HearingInv /\ HeardInTime /\ NoneTwice)'
  BY TypeNext, HearingNext, HeardNext, NoneTwiceNext
<1>3. HeardInTime /\ NoneTwice => HeardAlive
  BY DEF HeardInTime, NoneTwice, HeardAlive, Allowed
<1> QED BY <1>1, <1>2, <1>3, PTL DEF Spec-----------------------------------------------------------------------------
(* The session. *)
Unused == part = "discover" => list = Host!Idle /\ walk = Host!NoWalk /\ born = MaxPid

NewHost ==
    /\ list = Host!Idle /\ walk = Host!NoWalk /\ born = MaxPid
    /\ \E S \in SUBSET Host!Pid : table = Host!Running(S)

HearInv == TypeOK /\ HearingInv /\ HeardInTime /\ NoneTwice

(* A host just chosen, of which nothing has been asked. *)
LEMMA NewHostInv == NewHost => HostInv
<1> SUFFICES ASSUME NewHost PROVE HostInv
  OBVIOUS
<1> USE FrontendAssumption DEF FrontendAssumption
<1>1. PICK S \in SUBSET Host!Pid : table = Host!Running(S)
  BY DEF NewHost
<1>2. /\ \A n \in Host!Pid : table[n] = IF n \in S THEN n ELSE Host!None
      /\ table = [n \in Host!Pid |-> IF n \in S THEN n ELSE Host!None]
  BY <1>1 DEF Host!Running
<1>3. /\ list.at = "idle" /\ list.limit = 0 /\ list.pids = <<>> /\ list.picked = <<>>
      /\ list = Host!Idle /\ walk = Host!NoWalk /\ born = MaxPid
      /\ ~walk.on /\ walk.through = {}
  BY DEF NewHost, Host!Idle, Host!NoWalk
<1>4. Host!TypeOK
  <2>1. table \in [Host!Pid -> Host!Process \cup {Host!None}]
    BY <1>2 DEF Host!Pid, Host!Process
  <2>2. <<>> \in Seq(Host!Pid) /\ <<>> \in Seq([pid : Host!Pid, shows : Host!Process \cup {Host!None}])
    OBVIOUS
  <2> QED BY <1>3, <2>1, <2>2 DEF Host!TypeOK, Host!Idle, Host!NoWalk
<1>5. PageInv
  <2>1. Len(list.pids) = 0 /\ Host!Ascending(list.pids)
    BY <1>3 DEF Host!Ascending
  <2> QED BY <1>3, <2>1 DEF PageInv
<1>6. Told
  BY <1>3 DEF Told, Host!Range
<1>7. WalkInv
  <2>1. \A n \in Host!Pid : table[n] <= born
    BY <1>2, <1>3 DEF Host!Pid, Host!None
  <2> QED BY <1>3, <2>1 DEF WalkInv
<1> QED BY <1>4, <1>5, <1>6, <1>7 DEF HostInv

(* Where nothing of the host changes, nothing is known less. *)
LEMMA SameHost ==
    ASSUME HostInv, UNCHANGED hvars
    PROVE  HostInv'
<1>1. table' = table /\ born' = born /\ list' = list /\ walk' = walk
  BY DEF hvars
<1>2. Host!TypeOK'
  BY <1>1 DEF HostInv, Host!TypeOK
<1>3. PageInv'
  BY <1>1 DEF HostInv, PageInv
<1>4. Told'
  BY <1>1 DEF HostInv, Told
<1>5. WalkInv'
  BY <1>1 DEF HostInv, WalkInv, Host!Shown
<1> QED BY <1>2, <1>3, <1>4, <1>5 DEF HostInv

(* The host is what is known of it in both parts of a session. *)
THEOREM SessionLooks == FrontendSpec => [](Unused /\ HostInv)
<1>1. NewHost' => HostInv'
  BY NewHostInv, PTL
<1>2. FrontendInit => Unused /\ HostInv
  BY NewHostInv DEF FrontendInit, Unused, NewHost
<1>3. Unused /\ HostInv /\ [FrontendNext]_vars => (Unused /\ HostInv)'
  <2> SUFFICES ASSUME Unused, HostInv, [FrontendNext]_vars
               PROVE  Unused' /\ HostInv'
    OBVIOUS
  <2>1. ASSUME UNCHANGED <<part, hvars>> PROVE Unused' /\ HostInv'
    BY <2>1, SameHost DEF Unused, hvars
  <2>2. ASSUME NEW a \in Agent, Choose(a) PROVE Unused' /\ HostInv'
    <3>1. NewHost' /\ Unused'
      BY <2>2 DEF Choose, NewHost, Unused
    <3> QED BY <3>1, <1>1
  <2>3. ASSUME part = "look", Host!Next, UNCHANGED <<part, dvars>>
        PROVE  Unused' /\ HostInv'
    <3>1. Unused'
      BY <2>3 DEF Unused
    <3>2. HostInv'
      BY <2>3, FrontendAssumption, HostType, PageNext, ToldNext, WalkNext DEF HostInv
    <3> QED BY <3>1, <3>2
  <2> QED BY <2>1, <2>2, <2>3 DEF FrontendNext, vars
<1> QED BY <1>2, <1>3, PTL DEF FrontendSpec

(* Manager.List gives the page that was asked for, whatever starts and exits  *)
(* meanwhile: manager.go:56-93, for pages for which page times limit is an int.*)
THEOREM PagesAreRight == FrontendSpec => []PagesRight
<1>1. HostInv => PagesRight
  <2> SUFFICES ASSUME HostInv, list.at # "idle", list.page * list.limit <= MaxInt
               PROVE  /\ list.at # "panic"
                      /\ \A k \in DOMAIN list.pids :
                            Host!OnPage(list.page, list.limit, k)
                               <=> \E j \in DOMAIN list.picked : list.picked[j] = list.pids[k]
                      /\ Host!Ascending(list.picked)
                      /\ \A n \in Host!Range(list.picked) :
                            table[n] = n /\ n \notin Host!Range(list.rest) =>
                               \E k \in DOMAIN list.got : list.got[k] = [pid |-> n, shows |-> n]
    BY DEF PagesRight, Host!PagesRight
  <2> USE FrontendAssumption
  <2> DEFINE b == Host!Bounds(list.page, list.limit, Len(list.pids))
  <2>1. /\ list.page \in Int /\ list.limit \in Int /\ Len(list.pids) \in Nat
        /\ list.limit <= MaxInt /\ MaxInt \in Nat /\ Len(list.pids) <= MaxInt
        /\ list.pids \in Seq(Host!Pid) /\ Host!Ascending(list.pids)
    BY DEF HostInv, PageInv, Host!TypeOK, FrontendAssumption
  <2>2. /\ ~Host!Panics(b)
        /\ \A k \in 1 .. Len(list.pids) :
              Host!OnPage(list.page, list.limit, k) <=> b.from < k /\ k <= b.to
    BY <2>1, PageIs
  <2>3. list.at # "panic" /\ list.picked = SubSeq(list.pids, b.from + 1, b.to)
    BY <2>2 DEF HostInv, PageInv
  <2>4. \A k \in DOMAIN list.pids :
           Host!OnPage(list.page, list.limit, k)
              <=> \E j \in DOMAIN list.picked : list.picked[j] = list.pids[k]
    <3> SUFFICES ASSUME NEW k \in 1 .. Len(list.pids)
                 PROVE  Host!OnPage(list.page, list.limit, k)
                          <=> list.pids[k] \in Host!Range(list.picked)
      BY <2>1 DEF Host!Range
    <3> QED BY <2>2, <2>3, PickedIs
  <2>5. Host!Ascending(list.picked)
    <3> DEFINE m == b.from
               n == b.to
               s == list.pids
    <3>1. m \in 0 .. Len(s) /\ n \in 0 .. Len(s) /\ m <= n
      BY <2>1, <2>2, Inside
    <3>2. s \in Seq(Host!Pid) /\ list.picked = SubSeq(s, m + 1, n) /\ Host!Ascending(s)
      BY <2>1, <2>3
    <3> HIDE DEF m, n, s, b
    <3>3. /\ Len(list.picked) = n - m /\ list.picked \in Seq(Host!Pid)
          /\ \A j \in 1 .. n - m : list.picked[j] = s[j + m]
      BY <3>1, <3>2, SliceIs
    <3>4. DOMAIN list.picked = 1 .. n - m /\ DOMAIN s = 1 .. Len(s)
      BY <3>2, <3>3
    <3>5. ASSUME NEW i \in 1 .. n - m, NEW j \in 1 .. n - m, i < j
          PROVE  s[i + m] < s[j + m]
      <4>1. i + m \in DOMAIN s /\ j + m \in DOMAIN s /\ i + m < j + m
        BY <3>1, <3>4, <3>5
      <4> QED BY <4>1, <3>2 DEF Host!Ascending
    <3> QED BY <3>3, <3>4, <3>5 DEF Host!Ascending
  <2>6. ASSUME NEW n \in Host!Range(list.picked), table[n] = n, n \notin Host!Range(list.rest)
        PROVE  \E k \in DOMAIN list.got : list.got[k] = [pid |-> n, shows |-> n]
    BY <2>6 DEF HostInv, Told
  <2> QED BY <2>3, <2>4, <2>5, <2>6
<1> QED BY <1>1, SessionLooks, PTL

(* A client that walks through the pages of GET /processes while processes    *)
(* start but none exits misses none: manager.go:56-93.                        *)
THEOREM WalksSeeAll == FrontendSpec => []WalkSees
<1>1. HostInv => WalkSees
  <2> SUFFICES ASSUME HostInv, list.at = "answered", walk.on, ~walk.shrunk,
                      list.page * list.limit >= Len(list.pids), NEW x \in walk.through
               PROVE  x \in walk.seen
    BY DEF WalkSees, Host!WalkSees, Host!AtEnd
  <2>1. PICK n \in Host!Pid : table[n] = x
    BY DEF HostInv, WalkInv
  <2>2. PICK k \in 1 .. Len(list.pids) : list.pids[k] = n
    BY <2>1 DEF HostInv, WalkInv
  <2>3. list.page * list.limit \in Int /\ Len(list.pids) \in Nat
    BY DEF HostInv, Host!TypeOK
  <2>4. k <= list.page * list.limit
    BY <2>3
  <2> QED BY <2>1, <2>2, <2>4, FrontendAssumption, SeenBefore
<1> QED BY <1>1, SessionLooks, PTL

(* In a session every agent that advertises all the time is heard, as in     *)
(* EveryAgentHeard; what is chosen and looked at afterwards changes nothing.  *)
THEOREM SessionHears ==
    ASSUME MaxDelay < Interval
    PROVE  FrontendSpec => []HeardAlive
<1>1. Init => HearInv
  BY TypeInit, HearingInit DEF HearInv, Init, NoBrowse, HeardInTime, NoneTwice
<1>2. Init' => HearInv'
  BY <1>1, PTL
<1>3. HearInv /\ [FrontendNext]_vars => HearInv'
  <2>1. HearInv /\ [Next]_dvars => HearInv'
    BY TypeNext, HearingNext, HeardNext, NoneTwiceNext DEF HearInv
  <2>2. ASSUME NEW a \in Agent, Choose(a) PROVE Init'
    BY <2>2 DEF Choose, Init
  <2> QED BY <1>2, <2>1, <2>2 DEF FrontendNext, vars
<1>4. HearInv => HeardAlive
  BY DEF HearInv, HeardInTime, NoneTwice, HeardAlive, Allowed
<1> QED BY <1>1, <1>3, <1>4, PTL DEF FrontendSpec, FrontendInit
=============================================================================
