--------------------------- MODULE PingLoopProofs ---------------------------
(***************************************************************************)
(* For every resolver, host, cache and channel size: the types of the ping *)
(* engine's state, that a ping keeps the address it was started with       *)
(* usable although the mutex is free meanwhile, which check of the cache   *)
(* may panic, when an address is given up, which reply a ping may take for *)
(* its own, and that the engine implements PingStream.                     *)
(*                                                                         *)
(* The inductive invariants are built one on the other: IInv (types, index *)
(* and families of the store), PhaseInv (what the place of the goroutine   *)
(* says of its result and socket), CountedInv (the allowance of every      *)
(* address), AgeInv and LagInv (the replies in the socket against the      *)
(* drops that were counted), StrangersInv (the socket other processes'     *)
(* packets come in by), PeriodInv (the ticker).                            *)
(***************************************************************************)
EXTENDS PingLoop, LeastElement, SequenceTheorems

-----------------------------------------------------------------------------
(* The operators of the cache, for every store and MaxDrops                *)

(* A store built from resolved addresses is a store.                       *)
LEMMA FreshStoreType ==
  ASSUME NEW addrs \in Seq(Addrs)
  PROVE  /\ FreshStore(addrs) \in Seq(Entry)
         /\ Len(FreshStore(addrs)) = Len(addrs)
         /\ \A i \in 1 .. Len(addrs) : FreshStore(addrs)[i] = Fresh(addrs[i])
<1>1. Len(addrs) \in Nat
  OBVIOUS
<1>2. \A i \in 1 .. Len(addrs) : Fresh(addrs[i]) \in Entry
  BY DEF Fresh, Entry
<1> QED
  BY <1>1, <1>2 DEF FreshStore

(* clear() keeps the length of the store.                                  *)
LEMMA ClearType ==
  ASSUME NEW st \in Seq(Entry)
  PROVE  Clear(st) \in Seq(Entry) /\ Len(Clear(st)) = Len(st)
<1>1. Len(st) \in Nat /\ Zeroed \in Entry
  BY DEF Zeroed, Fresh, Entry
<1> QED
  BY <1>1 DEF Clear

(* getLockFree stops inside the store, at an entry that is not stale.      *)
LEMMA LiveIndexIsLive ==
  ASSUME NEW st \in Seq(Entry), NEW ix \in 0 .. Len(st) - 1,
         HasLive(st)
  PROVE  /\ LiveIndex(st, ix) \in 0 .. Len(st) - 1
         /\ ~st[LiveIndex(st, ix) + 1].stale
<1> DEFINE n == Len(st)
           live(k) == ~st[Around(st, ix, k)].stale
           steps(k) == live(k) /\ \A j \in 0 .. k - 1 : ~live(j)
           S == {k \in 0 .. n - 1 : live(k)}
<1>1. n \in Nat /\ ix \in Nat /\ ix < n
  OBVIOUS
<1>2. S # {}
  <2>1. PICK i \in 1 .. n : ~st[i].stale
    BY DEF HasLive
  <2> DEFINE k == IF i > ix THEN i - 1 - ix ELSE i - 1 - ix + n
  <2>2. k \in 0 .. n - 1 /\ Around(st, ix, k) = i
    BY <1>1, <2>1 DEF Around
  <2> QED
    BY <2>1, <2>2
<1>3. PICK m \in S : \A j \in S : m <= j
  <2>1. S \in SUBSET Nat
    OBVIOUS
  <2> HIDE DEF S
  <2> QED
    BY <1>2, <2>1, LeastNatural
<1>4. m \in 0 .. n - 1 /\ steps(m)
  <2>1. ASSUME NEW j \in 0 .. m - 1, live(j)
        PROVE  FALSE
    <3>1. j \in S
      BY <1>1, <2>1, <1>3
    <3> QED
      BY <1>3, <3>1, <1>1
  <2> QED
    BY <1>3, <2>1
<1> DEFINE c == CHOOSE k \in 0 .. n - 1 : steps(k)
<1>5. c \in 0 .. n - 1 /\ steps(c)
  <2> HIDE DEF steps, n
  <2> QED
    BY <1>4
<1>6. LiveIndex(st, ix) = Around(st, ix, c) - 1
  BY DEF LiveIndex
<1>7. Around(st, ix, c) \in 1 .. n
  BY <1>1, <1>5 DEF Around
<1> HIDE DEF c
<1> QED
  BY <1>1, <1>5, <1>6, <1>7

(* Dropped finds the entry it was asked for.                               *)
LEMMA FirstHoldingHolds ==
  ASSUME NEW st \in Seq(Entry), NEW a, Holds(st, a)
  PROVE  /\ FirstHolding(st, a) \in 1 .. Len(st)
         /\ st[FirstHolding(st, a)].addr = a
<1> DEFINE S == {i \in 1 .. Len(st) : st[i].addr = a}
           first(i) == /\ st[i].addr = a
                       /\ \A j \in 1 .. i - 1 : st[j].addr # a
<1>1. S # {} /\ S \subseteq Nat
  BY DEF Holds
<1>2. PICK m \in S : \A j \in S : m <= j
  <2> HIDE DEF S
  <2> QED
    BY <1>1, LeastNatural
<1>3. m \in 1 .. Len(st) /\ first(m)
  <2>1. ASSUME NEW j \in 1 .. m - 1, st[j].addr = a
        PROVE  FALSE
    <3>1. j \in S
      BY <1>2, <2>1
    <3> QED
      BY <1>2, <3>1
  <2> QED
    BY <1>2, <2>1
<1>4. FirstHolding(st, a) = CHOOSE i \in 1 .. Len(st) : first(i)
  BY DEF FirstHolding
<1> HIDE DEF first
<1>5. first(FirstHolding(st, a)) /\ FirstHolding(st, a) \in 1 .. Len(st)
  BY <1>3, <1>4
<1> QED
  BY <1>5 DEF first

(* Dropped keeps the store a store of the same length, and every address   *)
(* in it was in it before.                                                 *)
LEMMA MarkDroppedType ==
  ASSUME NEW st \in Seq(Entry), NEW ix \in 0 .. Len(st) - 1,
         NEW a, Holds(st, a), MaxDrops \in Nat
  PROVE  /\ MarkDropped(st, ix, a) \in Seq(Entry)
         /\ Len(MarkDropped(st, ix, a)) = Len(st)
         /\ \A i \in 1 .. Len(st) :
              MarkDropped(st, ix, a)[i].addr \in {st[i].addr, a}
<1> DEFINE cur == st[FirstHolding(st, a)]
           new == [addr  |-> cur.addr,
                   stale |-> cur.drops > MaxDrops,
                   drops |-> cur.drops + 1]
<1>1. cur \in Entry /\ cur.addr = a
  BY FirstHoldingHolds
<1>2. new \in Entry /\ new.addr = a
  BY <1>1 DEF Entry
<1>3. MarkDropped(st, ix, a) = [st EXCEPT ![ix + 1] = new]
  BY DEF MarkDropped
<1> HIDE DEF new
<1> QED
  BY <1>2, <1>3

-----------------------------------------------------------------------------
(* The engine                                                              *)

(* What is true of an answer of the resolver, by the assumptions.          *)
LEMMA SuitedStore ==
  ASSUME NEW ans \in [Families -> Seq(Addrs)], NEW t \in AllSocketTypes
  PROVE  /\ SocketFamily[t] \in Families
         /\ ans[SocketFamily[t]] \in Seq(Addrs)
         /\ Suited(ans, t) \in Seq(Entry)
         /\ Len(Suited(ans, t)) = Len(ans[SocketFamily[t]])
         /\ \A i \in 1 .. Len(Suited(ans, t)) :
              Suited(ans, t)[i] = Fresh(ans[SocketFamily[t]][i])
<1>1. SocketFamily[t] \in Families
  BY DEF SocketFamily, AllSocketTypes, Families
<1>2. ans[SocketFamily[t]] \in Seq(Addrs)
  BY <1>1
<1> QED
  BY <1>1, <1>2, FreshStoreType DEF Suited

LEMMA AllStore ==
  ASSUME NEW ans \in [Families -> Seq(Addrs)]
  PROVE  /\ All(ans) \in Seq(Entry)
         /\ Some(ans) => Len(All(ans)) > 0
<1>1. ans["v4"] \in Seq(Addrs) /\ ans["v6"] \in Seq(Addrs)
  BY DEF Families
<1>2. ans["v4"] \o ans["v6"] \in Seq(Addrs)
  BY <1>1
<1>3. Some(ans) => Len(ans["v4"] \o ans["v6"]) > 0
  <2> DEFINE s == ans["v4"] \o ans["v6"]
  <2>1. s \in Seq(Addrs) /\ (Some(ans) => s # <<>>)
    BY <1>2 DEF Some
  <2> HIDE DEF s
  <2>2. Some(ans) => Len(s) > 0
    BY <2>1, EmptySeq
  <2> QED
    BY <2>2 DEF s
<1> QED
  BY <1>2, <1>3, FreshStoreType DEF All

(* The goroutine is between two resolver rounds: the store may be used.    *)
Running == Pinging \/ pc \in {"Dns", "Waiting", "Tick"}

(* The index points into the store; it is back at 0, and the store is what *)
(* the resolver answered, when the socket is reopened.                     *)
IndexInv ==
  /\ store # <<>> => index < Len(store)
  /\ pc = "Listen" => index = 0

(* While the store may be used it has only addresses the socket can send   *)
(* to; the resolver's last answer keeps its families apart.                *)
StoreInv ==
  /\ Running =>
       /\ socket # "none"
       /\ \A i \in 1 .. Len(store) :
            store[i].addr \in Addrs /\ Family[store[i].addr] = SocketFamily[socket]
  /\ \A f \in Families : \A i \in 1 .. Len(answer[f]) : Family[answer[f][i]] = f

(* The inductive invariant: PingsUsableAddress alone says nothing of the   *)
(* steps between two pings, which rebuild the store and move the index.    *)
IInv == TypeOK /\ IndexInv /\ StoreInv /\ PingsUsableAddress

LEMMA NoAnswerType ==
  /\ NoAnswer \in [Families -> Seq(Addrs)]
  /\ \A f \in Families : NoAnswer[f] = <<>>
BY DEF NoAnswer

LEMMA InitIInv == Init => IInv
<1> SUFFICES ASSUME Init
             PROVE  IInv
  OBVIOUS
<1> USE EngineAssumption, CacheAssumption
<1>1. /\ store \in Seq(Entry)
      /\ \A i \in 1 .. Len(store) :
           store[i].addr \in Addrs /\ Family[store[i].addr] = SocketFamily[socket]
  <2>1. CASE store = <<>>
    BY <2>1
  <2>2. ASSUME NEW ans \in Answers, store = Suited(ans, socket)
        PROVE  <1>1
    <3>1. ans \in [Families -> Seq(Addrs)] /\ socket \in AllSocketTypes
      BY DEF Init
    <3>2. \A i \in 1 .. Len(ans[SocketFamily[socket]]) :
            /\ ans[SocketFamily[socket]][i] \in Addrs
            /\ Family[ans[SocketFamily[socket]][i]] = SocketFamily[socket]
      BY <3>1, SuitedStore
    <3>3. \A i \in 1 .. Len(store) :
            store[i].addr = ans[SocketFamily[socket]][i]
      <4>1. \A i \in 1 .. Len(store) :
              store[i] = Fresh(ans[SocketFamily[socket]][i])
        BY <2>2, <3>1, SuitedStore
      <4>2. \A a : Fresh(a).addr = a
        BY DEF Fresh
      <4> QED
        BY <4>1, <4>2
    <3> QED
      BY <2>2, <3>1, <3>2, <3>3, SuitedStore
  <2> QED
    BY <2>1, <2>2 DEF Init
<1>2. TypeOK
  <2>1. result \in Results
    BY DEF Init, NoResult, Failure, Results, DropReasons, Packets
  <2>2. socket \in SocketTypes /\ wire = {} /\ inbox \in Seq(Packets)
    BY DEF Init
  <2>3. channel \in Seq(Results) /\ Len(channel) <= ChanSize
    BY DEF Init
  <2>4. speeds \in [Speeds -> Nat] /\ gap \in Nat /\ rateTime \in Nat
    BY DEF Init
  <2> QED
    BY <1>1, <2>1, <2>2, <2>3, <2>4, NoAnswerType DEF Init, TypeOK, Steps
<1>3. IndexInv
  BY <1>1 DEF Init, IndexInv
<1>4. StoreInv
  <2>1. socket # "none"
    BY DEF Init, AllSocketTypes
  <2> QED
    BY <1>1, <2>1, NoAnswerType DEF Init, StoreInv
<1>5. PingsUsableAddress
  BY DEF Init, PingsUsableAddress, Pinging
<1> QED
  BY <1>2, <1>3, <1>4, <1>5 DEF IInv

-----------------------------------------------------------------------------
(* A result is one of Results whatever the age and the kind.               *)
LEMMA ResultType ==
  /\ \A age \in Packets : Good(age) \in Results
  /\ \A k \in DropReasons \cup {"InternalErr"} : Failure(k) \in Results
BY DEF Good, Failure, Results, Packets

LEMMA AgedType ==
  ASSUME TypeOK
  PROVE  Aged \subseteq 0 .. Lifetime /\ Aged \cup {0} \subseteq 0 .. Lifetime
<1>1. Lifetime \in Nat
  BY EngineAssumption
<1> QED
  BY <1>1 DEF TypeOK, Aged

(* The step of dnsRetry that answers from the cache.                       *)
LEMMA CachedEntry ==
  ASSUME TypeOK, IndexInv, HasLive(store)
  PROVE  /\ LiveIndex(store, index) \in 0 .. Len(store) - 1
         /\ ~store[LiveIndex(store, index) + 1].stale
         /\ store[LiveIndex(store, index) + 1].addr \in Addrs \cup {NoAddr}
<1>1. store \in Seq(Entry) /\ store # <<>>
  BY DEF TypeOK, HasLive
<1>2. index \in 0 .. Len(store) - 1
  BY <1>1 DEF TypeOK, IndexInv
<1>3. LiveIndex(store, index) \in 0 .. Len(store) - 1
      /\ ~store[LiveIndex(store, index) + 1].stale
  BY <1>1, <1>2, LiveIndexIsLive
<1>4. store[LiveIndex(store, index) + 1] \in Entry
  BY <1>1, <1>3
<1> QED
  BY <1>3, <1>4 DEF Entry

(* The step that reopens the socket starts from a store of fresh entries,  *)
(* all of the family of the socket, and stops at one of them.              *)
LEMMA ListenEntry ==
  ASSUME TypeOK, IndexInv, StoreInv, pc = "Listen",
         NEW t \in SocketTypes, Suited(answer, t) # <<>>
  PROVE  LET s == Suited(answer, t)
             i == LiveIndex(s, index)
         IN  /\ s \in Seq(Entry)
             /\ \A j \in 1 .. Len(s) :
                  s[j].addr \in Addrs /\ Family[s[j].addr] = SocketFamily[t]
             /\ i \in 0 .. Len(s) - 1 /\ ~s[i + 1].stale
<1> DEFINE s == Suited(answer, t)
           f == SocketFamily[t]
<1>1. answer \in [Families -> Seq(Addrs)] /\ t \in AllSocketTypes
  BY EngineAssumption DEF TypeOK
<1>2. /\ s \in Seq(Entry) /\ f \in Families /\ answer[f] \in Seq(Addrs)
      /\ Len(s) = Len(answer[f])
      /\ \A j \in 1 .. Len(s) : s[j] = Fresh(answer[f][j])
  BY <1>1, SuitedStore
<1>3. \A a : Fresh(a).addr = a /\ ~Fresh(a).stale
  BY DEF Fresh
<1>4. \A j \in 1 .. Len(answer[f]) :
        answer[f][j] \in Addrs /\ Family[answer[f][j]] = f
  BY <1>2 DEF StoreInv
<1>5. Len(s) > 0
  <2> HIDE DEF s
  <2> QED
    BY <1>2, EmptySeq DEF s
<1>6. index \in 0 .. Len(s) - 1
  BY <1>2, <1>5 DEF IndexInv
<1> HIDE DEF s, f
<1>7. \A j \in 1 .. Len(s) : s[j].addr \in Addrs /\ Family[s[j].addr] = f /\ ~s[j].stale
  BY <1>2, <1>3, <1>4
<1>8. HasLive(s)
  BY <1>2, <1>5, <1>7 DEF HasLive
<1>9. LiveIndex(s, index) \in 0 .. Len(s) - 1 /\ ~s[LiveIndex(s, index) + 1].stale
  BY <1>2, <1>6, <1>8, LiveIndexIsLive
<1> QED
  BY <1>2, <1>7, <1>9 DEF s, f

(* A new rate, or the one kept when the new one is not positive.           *)
Period(d, kept) == IF d > 0 THEN d ELSE kept

(* A Speed message leaves the period of the ticker, and the remembered     *)
(* one, natural numbers.                                                   *)
LEMMA PeriodType ==
  ASSUME NEW s \in Speeds, NEW r \in Nat
  PROVE  Period(Delta(s, r), 0) \in Nat /\ Period(Delta(s, r), r) \in Nat
<1>1. s \in {"Faster", "Slower", "Fastest"}
  BY EngineAssumption
<1>2. Delta(s, r) \in Int
  BY <1>1 DEF Delta
<1>3. ASSUME NEW d \in Int PROVE Period(d, 0) \in Nat /\ Period(d, r) \in Nat
  BY DEF Period
<1> QED
  BY <1>2, <1>3

-----------------------------------------------------------------------------
(* Each action keeps the types.                                            *)
LEMMA TypeStep ==
  ASSUME TypeOK, IndexInv, StoreInv, [Next]_vars
  PROVE  TypeOK'
<1> USE EngineAssumption, CacheAssumption
<1> USE DEF TypeOK, Steps, InDnsRetry, cacheVars, netVars, rateVars, chanVars
<1>1. CASE DnsCached
  <2>1. ip' \in Addrs \cup {NoAddr} /\ index' \in Nat
    BY <1>1, CachedEntry DEF DnsCached
  <2> QED
    BY <1>1, <2>1 DEF DnsCached, StartPing
<1>2. CASE DnsMiss
  BY <1>2 DEF DnsMiss
<1>3. CASE DnsQuery
  <2>1. store' \in Seq(Entry) /\ answer' \in [Families -> Seq(Addrs)]
    BY <1>3, AllStore DEF DnsQuery
  <2> QED
    BY <1>3, <2>1 DEF DnsQuery
<1>4. CASE DnsFails
  <2>1. result' \in Results
    BY <1>4, ResultType DEF DnsFails, DropReasons
  <2> QED
    BY <1>4, <2>1 DEF DnsFails
<1>5. CASE DnsTick
  <2>1. store' \in Seq(Entry)
    BY <1>5, ClearType DEF DnsTick
  <2> QED
    BY <1>5, <2>1 DEF DnsTick
<1>6. CASE ListenFails
  BY <1>6, NoAnswerType DEF ListenFails
<1>7. ASSUME NEW t \in SocketTypes, ListenOn(t)
      PROVE  TypeOK'
  <2>1. wire' \subseteq 0 .. Lifetime /\ socket' \in AllSocketTypes
    BY <1>7 DEF ListenOn
  <2>2. CASE Suited(answer, t) = <<>>
    BY <1>7, <2>1, <2>2, NoAnswerType DEF ListenOn
  <2>3. CASE Suited(answer, t) # <<>>
    <3>1. /\ store' = Suited(answer, t) /\ index' = LiveIndex(store', index)
          /\ ip' = store'[index' + 1].addr /\ pc = "Listen"
      BY <1>7, <2>3 DEF ListenOn
    <3>2. store' \in Seq(Entry) /\ index' \in Nat /\ ip' \in Addrs
      BY <3>1, <2>3, ListenEntry
    <3> QED
      BY <1>7, <2>1, <2>3, <3>2, NoAnswerType DEF ListenOn, StartPing
  <2> QED
    BY <2>2, <2>3
<1>8. CASE WriteEcho
  <2>1. wire' \subseteq 0 .. Lifetime
    BY <1>8, AgedType DEF WriteEcho
  <2>2. inbox' \in Seq(Packets)
    BY <1>8 DEF WriteEcho, AgeInbox, Older, Packets, Stranger
  <2> QED
    BY <1>8, <2>1, <2>2 DEF WriteEcho
<1>9. CASE WriteFails
  <2>1. wire' \subseteq 0 .. Lifetime
    BY <1>9, AgedType DEF WriteFails
  <2>2. inbox' \in Seq(Packets)
    BY <1>9 DEF WriteFails, AgeInbox, Older, Packets, Stranger
  <2>3. result' \in Results
    BY <1>9, ResultType DEF WriteFails
  <2> QED
    BY <1>9, <2>1, <2>2, <2>3 DEF WriteFails
<1>10. CASE ReadReply
  <2>1. inbox' \in Seq(Packets) /\ Head(inbox) \in Packets
    BY <1>10 DEF ReadReply
  <2>2. result' \in Results
    BY <1>10, <2>1, ResultType DEF ReadReply, Measured, DropReasons, Packets
  <2> QED
    BY <1>10, <2>1, <2>2 DEF ReadReply
<1>11. CASE ReadTimeout
  <2>1. result' \in Results
    BY <1>11, ResultType DEF ReadTimeout, DropReasons
  <2> QED
    BY <1>11, <2>1 DEF ReadTimeout
<1>12. CASE ReadFails
  <2>1. result' \in Results
    BY <1>12, ResultType DEF ReadFails, DropReasons
  <2> QED
    BY <1>12, <2>1 DEF ReadFails
<1>13. CASE SendBuffered
  <2>1. channel' \in Seq(Results) /\ Len(channel') <= ChanSize
    BY <1>13 DEF SendBuffered
  <2>2. pc' \in Steps
    BY <1>13 DEF SendBuffered, Sent, Sending
  <2> QED
    BY <1>13, <2>1, <2>2 DEF SendBuffered
<1>14. CASE SendHandOff
  BY <1>14 DEF SendHandOff, Sent, Sending, AfterRead
<1>15. CASE CountDrop
  <2>1. CASE Holds(store, ip)
    <3>1. index \in 0 .. Len(store) - 1
      BY <2>1 DEF Holds, IndexInv
    <3>2. store' \in Seq(Entry)
      BY <1>15, <2>1, <3>1, MarkDroppedType DEF CountDrop
    <3> QED
      BY <1>15, <2>1, <3>2 DEF CountDrop
  <2>2. CASE ~Holds(store, ip)
    BY <1>15, <2>2 DEF CountDrop
  <2> QED
    BY <2>1, <2>2
<1>16. CASE WaitCancelled
  BY <1>16 DEF WaitCancelled
<1>17. ASSUME NEW s \in Speeds, WaitSpeed(s)
       PROVE  TypeOK'
  <2>1. rateTime \in Nat
    OBVIOUS
  <2>2. /\ gap' = Period(Delta(s, rateTime), 0)
        /\ rateTime' = Period(Delta(s, rateTime), rateTime)
        /\ tick' = FALSE
    BY <1>17 DEF WaitSpeed, BuildRateLimiting, Period
  <2>3. gap' \in Nat /\ rateTime' \in Nat
    BY <2>1, <2>2, PeriodType
  <2>4. tick' \in BOOLEAN
    BY <2>2
  <2>5. speeds' \in [Speeds -> Nat]
    BY <1>17 DEF WaitSpeed
  <2> QED
    BY <1>17, <2>3, <2>4, <2>5 DEF WaitSpeed
<1>18. CASE WaitDefault
  BY <1>18 DEF WaitDefault
<1>19. CASE TakeTick
  BY <1>19 DEF TakeTick
<1>20. CASE Exit
  BY <1>20 DEF Exit
<1>21. CASE Client
  <2>1. CASE Receive
    <3>1. channel' \in Seq(Results) /\ Len(channel') <= ChanSize
      BY <2>1 DEF Receive
    <3> QED
      BY <2>1, <3>1 DEF Receive, AfterRead
  <2>2. CASE SeesClose
    BY <2>2 DEF SeesClose
  <2>3. CASE CallLastIP \/ StartReceive
    BY <2>3 DEF CallLastIP, StartReceive
  <2>4. CASE GetLastIP
    BY <2>4 DEF GetLastIP
  <2> QED
    BY <1>21, <2>1, <2>2, <2>3, <2>4 DEF Client
<1>22. CASE Cancel
  BY <1>22 DEF Cancel
<1>23. CASE TickerFires
  BY <1>23 DEF TickerFires
<1>24. ASSUME NEW s \in Speeds, SendSpeed(s)
       PROVE  TypeOK'
  BY <1>24 DEF SendSpeed
<1>25. ASSUME NEW a \in wire, Deliver(a)
       PROVE  TypeOK'
  <2>1. a \in Nat
    BY <1>25
  <2>2. inbox' \in Seq(Packets)
    BY <1>25, <2>1 DEF Deliver, Packets
  <2>3. wire' \subseteq 0 .. Lifetime
    BY <1>25 DEF Deliver
  <2> QED
    BY <1>25, <2>2, <2>3 DEF Deliver
<1>26. ASSUME NEW a \in wire, Lose(a)
       PROVE  TypeOK'
  BY <1>26 DEF Lose
<1>27. CASE UNCHANGED vars
  BY <1>27 DEF vars
<1>28. CASE Overhear
  <2>1. inbox' \in Seq(Packets)
    BY <1>28 DEF Overhear, Packets
  <2> QED
    BY <1>28, <2>1 DEF Overhear
<1> QED
  BY <1>28, <1>1, <1>2, <1>3, <1>4, <1>5, <1>6, <1>7, <1>8, <1>9, <1>10, <1>11, <1>12,
     <1>13, <1>14, <1>15, <1>16, <1>17, <1>18, <1>19, <1>20, <1>21, <1>22, <1>23,
     <1>24, <1>25, <1>26, <1>27 DEF Next, Loop, Environment, Ended

-----------------------------------------------------------------------------
(* The steps that touch neither the cache nor the socket nor the address.  *)
CacheUntouched == UNCHANGED <<store, index, answer, socket, ip>>

(* Every step that may touch them, by name.                                *)
CacheStep ==
  \/ DnsCached \/ DnsQuery \/ DnsTick \/ ListenFails
  \/ \E t \in SocketTypes : ListenOn(t)
  \/ CountDrop \/ Exit

(* The other steps leave the cache alone; and the only ones among them     *)
(* that may start or go on with a ping, or make the store usable, are      *)
(* those of a ping itself.                                                 *)
LEMMA StepKinds ==
  ASSUME TypeOK, [Next]_vars
  PROVE  \/ CacheStep
         \/ /\ CacheUntouched
            /\ Running' => Running
            /\ Pinging' => Pinging
            /\ pc' = "Listen" => pc = "Listen"
<1> DEFINE quiet == /\ CacheUntouched
                    /\ Running' => Running
                    /\ Pinging' => Pinging
                    /\ pc' = "Listen" => pc = "Listen"
<1> USE DEF CacheUntouched, Running, Pinging, cacheVars, netVars
<1>1. CASE DnsMiss \/ DnsFails
  BY <1>1 DEF DnsMiss, DnsFails
<1>2. CASE WriteEcho \/ WriteFails
  BY <1>2 DEF WriteEcho, WriteFails
<1>3. CASE ReadReply \/ ReadTimeout \/ ReadFails
  BY <1>3 DEF ReadReply, ReadTimeout, ReadFails
<1>4. CASE SendBuffered \/ SendHandOff
  <2>1. Sending /\ Sent /\ CacheUntouched
    BY <1>4 DEF SendBuffered, SendHandOff
  <2>2. CASE pc = "ReportDns"
    BY <2>1, <2>2 DEF Sent
  <2>3. CASE pc = "Send"
    BY <2>1, <2>3 DEF Sent
  <2> QED
    BY <2>1, <2>2, <2>3 DEF Sending
<1>5. CASE WaitCancelled \/ WaitDefault \/ TakeTick
  BY <1>5 DEF WaitCancelled, WaitDefault, TakeTick
<1>6. ASSUME NEW s \in Speeds, WaitSpeed(s) \/ SendSpeed(s)
      PROVE  quiet
  BY <1>6 DEF WaitSpeed, SendSpeed
<1>7. CASE Client
  BY <1>7 DEF Client, Receive, StartReceive, SeesClose, CallLastIP, GetLastIP
<1>8. CASE Cancel \/ TickerFires \/ Overhear
  BY <1>8 DEF Cancel, TickerFires, Overhear
<1>9. ASSUME NEW a \in wire, Deliver(a) \/ Lose(a)
      PROVE  quiet
  BY <1>9 DEF Deliver, Lose
<1>10. CASE UNCHANGED vars
  BY <1>10 DEF vars
<1> QED
  BY <1>1, <1>2, <1>3, <1>4, <1>5, <1>6, <1>7, <1>8, <1>9, <1>10
     DEF Next, Loop, Environment, Ended, CacheStep

(* The index stays inside the store: it is reset with every answer of the  *)
(* resolver, however short, and clear keeps the length.                    *)
LEMMA IndexStep ==
  ASSUME TypeOK, IndexInv, StoreInv, TypeOK', [Next]_vars
  PROVE  IndexInv'
<1> USE DEF IndexInv
<1>1. store \in Seq(Entry) /\ index \in Nat /\ store' \in Seq(Entry)
  BY DEF TypeOK
<1>2. CASE DnsCached
  <2>1. LiveIndex(store, index) \in 0 .. Len(store) - 1
    BY <1>2, CachedEntry DEF DnsCached
  <2>2. pc' # "Listen"
    BY <1>2 DEF DnsCached, StartPing
  <2> QED
    BY <1>1, <1>2, <2>1, <2>2 DEF DnsCached
<1>3. CASE DnsQuery
  BY <1>1, <1>3, EmptySeq DEF DnsQuery
<1>4. CASE DnsTick
  <2>1. Len(store') = Len(store)
    BY <1>1, <1>4, ClearType DEF DnsTick
  <2>2. store' # <<>> => store # <<>>
    BY <1>1, <2>1, EmptySeq
  <2> QED
    BY <1>4, <2>1, <2>2 DEF DnsTick
<1>5. CASE ListenFails
  BY <1>5 DEF ListenFails
<1>6. ASSUME NEW t \in SocketTypes, ListenOn(t)
      PROVE  IndexInv'
  <2>1. pc' # "Listen"
    BY <1>6 DEF ListenOn, StartPing
  <2>2. CASE Suited(answer, t) = <<>>
    BY <1>6, <2>1, <2>2 DEF ListenOn
  <2>3. CASE Suited(answer, t) # <<>>
    <3>1. store' = Suited(answer, t) /\ index' = LiveIndex(store', index)
      BY <1>6, <2>3 DEF ListenOn
    <3>2. index' \in 0 .. Len(store') - 1
      BY <1>6, <2>3, <3>1, ListenEntry DEF ListenOn
    <3> QED
      BY <1>1, <2>1, <3>2
  <2> QED
    BY <2>2, <2>3
<1>7. CASE CountDrop
  <2>1. pc' # "Listen" /\ index' = index
    BY <1>7 DEF CountDrop
  <2>2. CASE Holds(store, ip)
    <3>1. index \in 0 .. Len(store) - 1
      BY <1>1, <2>2 DEF Holds
    <3>2. Len(store') = Len(store)
      BY <1>1, <1>7, <2>2, <3>1, MarkDroppedType, CacheAssumption DEF CountDrop
    <3> QED
      BY <1>1, <2>1, <3>1, <3>2
  <2>3. CASE ~Holds(store, ip)
    BY <1>7, <2>1, <2>3 DEF CountDrop
  <2> QED
    BY <2>2, <2>3
<1>8. CASE Exit
  BY <1>8 DEF Exit, cacheVars
<1>9. CASE CacheUntouched /\ (pc' = "Listen" => pc = "Listen")
  BY <1>9 DEF CacheUntouched
<1> QED
  BY <1>2, <1>3, <1>4, <1>5, <1>6, <1>7, <1>8, <1>9, StepKinds DEF CacheStep

(* A usable store has only addresses of the family of the socket, whatever *)
(* a drop or a new round of the resolver wrote in it.                      *)
LEMMA StoreStep ==
  ASSUME TypeOK, IndexInv, StoreInv, PingsUsableAddress, TypeOK', [Next]_vars
  PROVE  StoreInv'
<1> DEFINE suits(s, t) == \A i \in 1 .. Len(s) :
             s[i].addr \in Addrs /\ Family[s[i].addr] = SocketFamily[t]
           kept == \A f \in Families : \A i \in 1 .. Len(answer[f]) : Family[answer[f][i]] = f
<1>1. store \in Seq(Entry) /\ store' \in Seq(Entry)
  BY DEF TypeOK
<1>2. kept /\ (Running => socket # "none" /\ suits(store, socket))
  BY DEF StoreInv
<1>3. SUFFICES kept' /\ (Running' => socket' # "none" /\ suits(store, socket)')
  BY DEF StoreInv
<1>4. ASSUME answer' = NoAnswer
      PROVE  kept'
  BY <1>4, NoAnswerType
<1>5. CASE DnsCached
  <2>1. Running /\ UNCHANGED <<store, answer, socket>>
    BY <1>5 DEF DnsCached, netVars, Running
  <2> QED
    BY <1>2, <2>1
<1>6. CASE DnsQuery
  <2>1. PICK ans \in Answers : answer' = ans
    BY <1>6 DEF DnsQuery
  <2>2. kept'
    BY <2>1, EngineAssumption
  <2>3. ~Running'
    BY <1>6 DEF DnsQuery, Running, Pinging
  <2> QED
    BY <2>2, <2>3
<1>7. CASE DnsTick
  <2>1. ~Running' /\ answer' = answer
    BY <1>7 DEF DnsTick, Running, Pinging
  <2> QED
    BY <1>2, <2>1
<1>8. CASE ListenFails
  <2>1. ~Running' /\ answer' = NoAnswer
    BY <1>8 DEF ListenFails, Running, Pinging
  <2> QED
    BY <1>4, <2>1
<1>9. ASSUME NEW t \in SocketTypes, ListenOn(t)
      PROVE  kept' /\ (Running' => socket' # "none" /\ suits(store, socket)')
  <2>1. answer' = NoAnswer /\ socket' = t /\ t # "none"
    BY <1>9, EngineAssumption DEF ListenOn, AllSocketTypes
  <2>2. CASE Suited(answer, t) = <<>>
    <3>1. ~Running'
      BY <1>9, <2>2 DEF ListenOn, Running, Pinging
    <3> QED
      BY <1>4, <2>1, <3>1
  <2>3. CASE Suited(answer, t) # <<>>
    <3>1. store' = Suited(answer, t) /\ pc = "Listen"
      BY <1>9, <2>3 DEF ListenOn
    <3>2. suits(store', t)
      BY <2>3, <3>1, ListenEntry
    <3> QED
      BY <1>4, <2>1, <3>2
  <2> QED
    BY <2>2, <2>3
<1>10. CASE CountDrop
  <2>1. Running /\ pc = "Drop" /\ answer' = answer /\ socket' = socket
    BY <1>10 DEF CountDrop, netVars, Running, Pinging
  <2>2. CASE Holds(store, ip)
    <3>1. /\ index \in 0 .. Len(store) - 1
          /\ ip \in Addrs /\ Family[ip] = SocketFamily[socket]
      BY <1>1, <2>1, <2>2 DEF Holds, PingsUsableAddress, Pinging, TypeOK
    <3>2. store' = MarkDropped(store, index, ip)
      BY <1>10, <2>2 DEF CountDrop
    <3>3. /\ Len(store') = Len(store)
          /\ \A i \in 1 .. Len(store) : store'[i].addr \in {store[i].addr, ip}
      BY <1>1, <2>2, <3>1, <3>2, MarkDroppedType, CacheAssumption
    <3>4. suits(store', socket)
      BY <1>2, <2>1, <3>1, <3>3
    <3> QED
      BY <1>2, <2>1, <3>4
  <2>3. CASE ~Holds(store, ip)
    BY <1>2, <1>10, <2>1, <2>3 DEF CountDrop
  <2> QED
    BY <2>2, <2>3
<1>11. CASE Exit
  <2>1. ~Running' /\ answer' = answer
    BY <1>11 DEF Exit, cacheVars, Running, Pinging
  <2> QED
    BY <1>2, <2>1
<1>12. CASE CacheUntouched /\ (Running' => Running)
  BY <1>2, <1>12 DEF CacheUntouched
<1> QED
  BY <1>5, <1>6, <1>7, <1>8, <1>9, <1>10, <1>11, <1>12, StepKinds DEF CacheStep

(* The entry a ping is started from is usable, and stays so until the      *)
(* ping's drop is counted, after which the ping is over.                   *)
LEMMA PingStep ==
  ASSUME TypeOK, IndexInv, StoreInv, PingsUsableAddress, TypeOK', StoreInv', [Next]_vars
  PROVE  PingsUsableAddress'
<1>1. CASE DnsCached
  <2>1. /\ LiveIndex(store, index) \in 0 .. Len(store) - 1
        /\ ~store[LiveIndex(store, index) + 1].stale
    BY <1>1, CachedEntry DEF DnsCached
  <2>2. /\ index' = LiveIndex(store, index) /\ ip' = store[index' + 1].addr
        /\ store' = store /\ socket' = socket /\ Running
    BY <1>1 DEF DnsCached, netVars, Running
  <2>3. store[index' + 1].addr \in Addrs
        /\ Family[store[index' + 1].addr] = SocketFamily[socket] /\ socket # "none"
    <3>1. index' + 1 \in 1 .. Len(store)
      BY <2>1, <2>2 DEF TypeOK
    <3> QED
      BY <2>2, <3>1 DEF StoreInv
  <2> QED
    BY <2>1, <2>2, <2>3 DEF PingsUsableAddress, TypeOK
<1>2. ASSUME NEW t \in SocketTypes, ListenOn(t)
      PROVE  PingsUsableAddress'
  <2>1. CASE Suited(answer, t) = <<>>
    <3>1. ~Pinging'
      BY <1>2, <2>1 DEF ListenOn, Pinging
    <3> QED
      BY <3>1 DEF PingsUsableAddress
  <2>2. CASE Suited(answer, t) # <<>>
    <3>1. /\ store' = Suited(answer, t) /\ index' = LiveIndex(store', index)
          /\ ip' = store'[index' + 1].addr /\ socket' = t /\ pc = "Listen"
      BY <1>2, <2>2 DEF ListenOn
    <3>2. /\ index' \in 0 .. Len(store') - 1 /\ ~store'[index' + 1].stale
          /\ \A j \in 1 .. Len(store') :
               store'[j].addr \in Addrs /\ Family[store'[j].addr] = SocketFamily[t]
      BY <2>2, <3>1, ListenEntry
    <3>3. t # "none"
      BY EngineAssumption DEF AllSocketTypes
    <3>4. store' \in Seq(Entry)
      BY DEF TypeOK
    <3> QED
      BY <3>1, <3>2, <3>3, <3>4 DEF PingsUsableAddress
  <2> QED
    BY <2>1, <2>2
<1>3. CASE DnsQuery \/ DnsTick \/ ListenFails \/ CountDrop \/ Exit
  <2>1. ~Pinging'
    BY <1>3 DEF DnsQuery, DnsTick, ListenFails, CountDrop, Exit, Pinging
  <2> QED
    BY <2>1 DEF PingsUsableAddress
<1>4. CASE CacheUntouched /\ (Pinging' => Pinging)
  BY <1>4 DEF CacheUntouched, PingsUsableAddress
<1> QED
  BY <1>1, <1>2, <1>3, <1>4, StepKinds DEF CacheStep

THEOREM Inductive == Spec => []IInv
<1>1. IInv /\ [Next]_vars => IInv'
  BY TypeStep, IndexStep, StoreStep, PingStep DEF IInv
<1> QED
  BY InitIInv, <1>1, PTL DEF Spec

(* The state of the engine, of its cache and channels keeps its types, for *)
(* every resolver, host, channel size and cache.                           *)
THEOREM TypeCorrect == Spec => []TypeOK
<1>1. IInv => TypeOK
  BY DEF IInv
<1> QED
  BY Inductive, <1>1, PTL

(* Whatever the resolver answers and however the socket is reopened, a     *)
(* ping in progress goes to the address its cache entry holds, usable on   *)
(* the open socket.                                                        *)
THEOREM UsableAddress == Spec => []PingsUsableAddress
<1>1. IInv => PingsUsableAddress
  BY DEF IInv
<1> QED
  BY Inductive, <1>1, PTL

(* queryCache.Dropped never meets an address it does not hold: the check   *)
(* "Unknown IP" (ping/dns.go:63) cannot fail.                              *)
THEOREM DropsAreOfKnownAddresses == Spec => [](pc = "Drop" => Holds(store, ip))
<1>1. IInv => (pc = "Drop" => Holds(store, ip))
  <2> SUFFICES ASSUME IInv, pc = "Drop"
               PROVE  Holds(store, ip)
    OBVIOUS
  <2>1. index \in Nat /\ index < Len(store) /\ store[index + 1].addr = ip
    BY DEF IInv, TypeOK, PingsUsableAddress, Pinging
  <2>2. index + 1 \in 1 .. Len(store)
    BY <2>1 DEF IInv, TypeOK
  <2> QED
    BY <2>1, <2>2 DEF Holds
<1> QED
  BY Inductive, <1>1, PTL

-----------------------------------------------------------------------------
(* Where the goroutine is, and what that says of its result and socket.    *)
PhaseInv ==
  /\ pc = "ReportDns" => result = Failure("DNSFailure")
  /\ pc = "Send" => result.kind # "DNSFailure" /\ (result.kind # "Good" => result.age = 0)
  /\ pc \in {"Exit", "Closed"} => cancelled
  /\ closed <=> pc = "Closed"
  /\ pc = "Listen" => socket = "none" /\ inbox = <<>> /\ answer \in Answers /\ Some(answer)

(* The ticker has the remembered period, or there is none after a Faster   *)
(* at the shortest one.                                                    *)
PeriodInv == gap = rateTime \/ (gap = 0 /\ rateTime = 1)

(* While the store may be used: an address is in it once, it is stale when *)
(* it has dropped its allowance, and not before.                           *)
Counted(s) ==
  /\ \A i, j \in 1 .. Len(s) : s[i].addr = s[j].addr => i = j
  /\ \A i \in 1 .. Len(s) :
       /\ s[i].drops <= MaxDrops + 2
       /\ s[i].stale <=> s[i].drops = MaxDrops + 2
CountedInv == Running => Counted(store)

(* A reply in the socket is no older than what the network, the replies    *)
(* before it and the drops since the socket was opened account for; there  *)
(* are sequence numbers for all of them.                                   *)
Room(s) == s # <<>> => Lifetime + InboxCap + (MaxDrops + 2) * Len(s) <= SeqSpace
Young(q, bound) == \A i \in 1 .. Len(q) : q[i] + i <= bound
Pending == IF Unsettled THEN 1 ELSE 0
AgeInv ==
  Running => Room(store) /\ Young(inbox, Lifetime + InboxCap + DropCount + Pending)

(* No ping is under way, and no result to send, at the start.              *)
LEMMA PhaseInit == ASSUME Init PROVE PhaseInv
BY DEF Init, PhaseInv

(* A resolution that failed is reported as such and a ping never is; the   *)
(* goroutine leaves its loop only when the context is done, and closes the *)
(* channel last; the socket it listens on next is a new one, for an answer *)
(* of the resolver.                                                        *)
LEMMA PhaseStep ==
  ASSUME TypeOK, PhaseInv, [Next]_vars PROVE PhaseInv'
<1> USE DEF PhaseInv, cacheVars, netVars, chanVars
<1>1. CASE DnsCached \/ DnsMiss
  BY <1>1 DEF DnsCached, DnsMiss, StartPing
<1>2. CASE DnsQuery
  BY <1>2 DEF DnsQuery
<1>3. CASE DnsFails \/ DnsTick \/ ListenFails
  BY <1>3 DEF DnsFails, DnsTick, ListenFails
<1>4. ASSUME NEW t \in SocketTypes, ListenOn(t) PROVE PhaseInv'
  BY <1>4 DEF ListenOn, StartPing
<1>5. CASE WriteEcho \/ WriteFails
  BY <1>5 DEF WriteEcho, WriteFails, Failure
<1>6. CASE ReadReply \/ ReadTimeout \/ ReadFails
  BY <1>6 DEF ReadReply, Measured, ReadTimeout, ReadFails, Failure, Good
<1>7. CASE SendBuffered \/ SendHandOff
  BY <1>7 DEF SendBuffered, SendHandOff, Sending, Sent
<1>8. CASE CountDrop \/ WaitCancelled \/ WaitDefault \/ TakeTick \/ Exit
  BY <1>8 DEF CountDrop, WaitCancelled, WaitDefault, TakeTick, Exit
<1>9. ASSUME NEW s \in Speeds, WaitSpeed(s) \/ SendSpeed(s) PROVE PhaseInv'
  BY <1>9 DEF WaitSpeed, SendSpeed
<1>10. CASE Client
  BY <1>10 DEF Client, Receive, StartReceive, SeesClose, CallLastIP, GetLastIP
<1>11. CASE Cancel \/ TickerFires \/ Overhear \/ UNCHANGED vars
  BY <1>11 DEF Cancel, TickerFires, Overhear, vars
<1>12. ASSUME NEW a \in wire, Deliver(a) \/ Lose(a) PROVE PhaseInv'
  BY <1>12 DEF Deliver, Lose
<1> QED
  BY <1>1, <1>2, <1>3, <1>4, <1>5, <1>6, <1>7, <1>8, <1>9, <1>10, <1>11, <1>12
     DEF Next, Loop, Environment, Ended

THEOREM PhaseInductive == Spec => []PhaseInv
<1>1. PhaseInv /\ TypeOK /\ [Next]_vars => PhaseInv'
  BY PhaseStep
<1> QED
  BY PhaseInit, <1>1, TypeCorrect, PTL DEF Spec

(* The one check of the cache that can fail is socketedLockFree's, on a    *)
(* socket of a family the resolver has no address of (ping/dns.go:99);     *)
(* whatever the resolver answers, an answer that has one is never lost on  *)
(* the way there, and no drop is of an unknown address.                    *)
THEOREM OnlyTheAnnouncedPanic == Spec => PanicsAsAnnounced
<1>1. IInv /\ PhaseInv /\ [Next]_vars
        => [pc' = "Panic" =>
              pc = "Panic" \/ (pc = "Listen" /\ answer[SocketFamily[socket']] = <<>>)]_vars
  <2> SUFFICES ASSUME IInv, PhaseInv, Next, pc' = "Panic", pc # "Panic"
               PROVE  pc = "Listen" /\ answer[SocketFamily[socket']] = <<>>
    OBVIOUS
  <2>1. CountDrop \/ \E t \in SocketTypes : ListenOn(t)
    BY DEF Next, Loop, Client, Environment, Ended, DnsCached, DnsMiss, DnsQuery,
           DnsFails, DnsTick, ListenFails, WriteEcho, WriteFails, ReadReply, ReadTimeout,
           ReadFails, SendBuffered, SendHandOff, Sent, WaitCancelled, WaitDefault, TakeTick,
           Exit, WaitSpeed, Receive, StartReceive, SeesClose, CallLastIP, GetLastIP, Cancel,
           SendSpeed, TickerFires, Overhear, Deliver, Lose, StartPing, vars
  <2>2. CASE CountDrop
    <3>1. ~Holds(store, ip) /\ pc = "Drop"
      BY <2>2 DEF CountDrop
    <3>2. index + 1 \in 1 .. Len(store) /\ store[index + 1].addr = ip
      BY <3>1 DEF IInv, TypeOK, PingsUsableAddress, Pinging
    <3> QED
      BY <3>1, <3>2 DEF Holds
  <2>3. ASSUME NEW t \in SocketTypes, ListenOn(t)
        PROVE  pc = "Listen" /\ answer[SocketFamily[socket']] = <<>>
    <3>1. /\ Suited(answer, t) = <<>> /\ answer \in Answers
          /\ pc = "Listen" /\ socket' = t
      BY <2>3 DEF ListenOn, StartPing, PhaseInv
    <3>2. t \in AllSocketTypes /\ answer \in [Families -> Seq(Addrs)]
      BY <3>1, EngineAssumption
    <3>3. /\ answer[SocketFamily[t]] \in Seq(Addrs)
          /\ Len(Suited(answer, t)) = Len(answer[SocketFamily[t]])
      BY <3>2, SuitedStore
    <3>4. Len(answer[SocketFamily[t]]) = 0
      BY <3>1, <3>3
    <3>5. answer[SocketFamily[t]] = <<>>
      BY <3>3, <3>4, EmptySeq
    <3> QED
      BY <3>1, <3>5
  <2> QED
    BY <2>1, <2>2, <2>3
<1> QED
  BY <1>1, Inductive, PhaseInductive, PTL DEF Spec, PanicsAsAnnounced

-----------------------------------------------------------------------------
(* The rate                                                                *)

(* Faster and Slower, which are all that the keys of the application send, *)
(* keep the ticker and what is remembered of it together                   *)
(* (buildRateLimiting), but for the shortest period.                       *)
LEMMA PeriodStep ==
  ASSUME TypeOK, PeriodInv, Speeds = {"Faster", "Slower"}, [Next]_vars
  PROVE  /\ PeriodInv'
         /\ speeds'["Faster"] < speeds["Faster"] => gap' <= gap
         /\ speeds'["Slower"] < speeds["Slower"] => gap' > gap
<1> DEFINE goes == /\ PeriodInv'
                   /\ speeds'["Faster"] < speeds["Faster"] => gap' <= gap
                   /\ speeds'["Slower"] < speeds["Slower"] => gap' > gap
<1>a. /\ gap \in Nat /\ rateTime \in Nat /\ speeds \in [Speeds -> Nat]
      /\ speeds["Faster"] \in Nat /\ speeds["Slower"] \in Nat
  BY DEF TypeOK
<1>1. ASSUME NEW s \in Speeds, WaitSpeed(s) PROVE goes
  <2>1. /\ speeds' = [speeds EXCEPT ![s] = @ - 1]
        /\ BuildRateLimiting(Delta(s, rateTime))
    BY <1>1 DEF WaitSpeed
  <2>2. CASE s = "Faster"
    <3>1. Delta(s, rateTime) = rateTime - 1 /\ speeds'["Slower"] = speeds["Slower"]
      BY <1>a, <2>1, <2>2 DEF Delta
    <3>2. PeriodInv' /\ gap' <= gap
      BY <1>a, <2>1, <3>1 DEF BuildRateLimiting, PeriodInv
    <3> QED
      BY <1>a, <3>1, <3>2
  <2>3. CASE s = "Slower"
    <3>1. Delta(s, rateTime) = rateTime + 1 /\ speeds'["Faster"] = speeds["Faster"]
      BY <1>a, <2>1, <2>3 DEF Delta
    <3>2. PeriodInv' /\ gap' > gap
      BY <1>a, <2>1, <3>1 DEF BuildRateLimiting, PeriodInv
    <3> QED
      BY <1>a, <3>1, <3>2
  <2> QED
    BY <2>2, <2>3
<1>2. ASSUME UNCHANGED <<gap, rateTime>>,
             speeds' = speeds \/ \E s \in Speeds : SendSpeed(s)
      PROVE  goes
  <2>1. speeds'["Faster"] >= speeds["Faster"] /\ speeds'["Slower"] >= speeds["Slower"]
    <3>1. CASE speeds' = speeds
      BY <1>a, <3>1
    <3>2. ASSUME NEW s \in Speeds, SendSpeed(s) PROVE <2>1
      <4>1. speeds' = [speeds EXCEPT ![s] = @ + 1]
        BY <3>2 DEF SendSpeed
      <4> QED
        BY <1>a, <4>1
    <3> QED
      BY <1>2, <3>1, <3>2
  <2>2. PeriodInv'
    BY <1>2 DEF PeriodInv
  <2>3. speeds'["Faster"] \in Int /\ speeds'["Slower"] \in Int
    <3>1. CASE speeds' = speeds
      BY <1>a, <3>1
    <3>2. ASSUME NEW s \in Speeds, SendSpeed(s) PROVE <2>3
      <4>1. speeds' = [speeds EXCEPT ![s] = @ + 1]
        BY <3>2 DEF SendSpeed
      <4> QED
        BY <1>a, <4>1
    <3> QED
      BY <1>2, <3>1, <3>2
  <2> QED
    BY <1>a, <2>1, <2>2, <2>3
<1>3. CASE \E s \in Speeds : WaitSpeed(s)
  BY <1>1, <1>3
<1>4. CASE \E s \in Speeds : SendSpeed(s)
  <2>1. UNCHANGED <<gap, rateTime>>
    BY <1>4 DEF SendSpeed
  <2> QED
    BY <1>2, <1>4, <2>1
<1>5. CASE UNCHANGED <<gap, rateTime, speeds>>
  BY <1>2, <1>5
<1>6. \/ \E s \in Speeds : WaitSpeed(s)
      \/ \E s \in Speeds : SendSpeed(s)
      \/ UNCHANGED <<gap, rateTime, speeds>>
  BY DEF Next, Loop, Client, Environment, Ended, DnsCached, DnsMiss, DnsQuery,
         DnsFails, DnsTick, ListenFails, ListenOn, WriteEcho, WriteFails, ReadReply,
         ReadTimeout, ReadFails, SendBuffered, SendHandOff, CountDrop, WaitCancelled,
         WaitDefault, TakeTick, Exit, Receive, StartReceive, SeesClose, CallLastIP,
         GetLastIP, Cancel, TickerFires, Overhear, Deliver, Lose, rateVars, vars
<1> QED
  BY <1>3, <1>4, <1>5, <1>6

(* Faster never slows the pings down and Slower never speeds them up,      *)
(* whatever rate they start from and however the two are mixed             *)
(* (ping/api_implementation.go, buildRateLimiting).                        *)
THEOREM SpeedsGoTheirWay ==
  ASSUME Speeds = {"Faster", "Slower"} PROVE Spec => SpeedChangesGoTheirWay
<1>1. Init => PeriodInv
  BY DEF Init, PeriodInv
<1>2. TypeOK /\ PeriodInv /\ [Next]_vars => PeriodInv'
  BY PeriodStep
<1>3. TypeOK /\ PeriodInv /\ [Next]_vars
        => [/\ speeds'["Faster"] < speeds["Faster"] => gap' <= gap
            /\ speeds'["Slower"] < speeds["Slower"] => gap' > gap]_vars
  BY PeriodStep
<1> QED
  BY <1>1, <1>2, <1>3, TypeCorrect, PTL DEF Spec, SpeedChangesGoTheirWay

-----------------------------------------------------------------------------
(* The allowance of an address                                             *)

(* Of a store that names no address twice, Dropped counts the drop on the  *)
(* entry at the index, and makes it stale when its allowance is used up.   *)
LEMMA DropIsCounted ==
  ASSUME NEW s \in Seq(Entry), NEW i \in 0 .. Len(s) - 1, NEW a,
         Counted(s), s[i + 1].addr = a, ~s[i + 1].stale
  PROVE  LET m == MarkDropped(s, i, a)
         IN  /\ m \in Seq(Entry) /\ Len(m) = Len(s)
             /\ \A j \in 1 .. Len(s) : j # i + 1 => m[j] = s[j]
             /\ m[i + 1].drops = s[i + 1].drops + 1
             /\ Counted(m)
<1> DEFINE p == i + 1
           cur == s[p]
           new == [addr  |-> cur.addr,
                   stale |-> cur.drops > MaxDrops,
                   drops |-> cur.drops + 1]
           m == MarkDropped(s, i, a)
<1>1. MaxDrops \in Nat
  BY CacheAssumption
<1>2. p \in 1 .. Len(s) /\ Holds(s, a)
  BY DEF Holds
<1>3. FirstHolding(s, a) = p
  <2>1. FirstHolding(s, a) \in 1 .. Len(s) /\ s[FirstHolding(s, a)].addr = a
    BY <1>2, FirstHoldingHolds
  <2> HIDE DEF p
  <2> QED
    BY <1>2, <2>1 DEF Counted, p
<1>4. m = [s EXCEPT ![p] = new]
  BY <1>3 DEF MarkDropped
<1>5. cur \in Entry /\ cur.addr = a
  <2> HIDE DEF p
  <2> QED
    BY <1>2 DEF p
<1> HIDE DEF cur
<1>6. /\ new.addr = a /\ new.drops = cur.drops + 1
      /\ new.stale <=> cur.drops > MaxDrops
      /\ new \in Entry /\ cur.drops \in Nat
  <2>1. cur.drops \in Nat /\ cur.addr \in Addrs \cup {NoAddr}
    BY <1>5 DEF Entry
  <2>2. new.addr = a /\ new.drops = cur.drops + 1 /\ (new.stale <=> cur.drops > MaxDrops)
    BY <1>5
  <2>3. new \in Entry
    BY <2>1 DEF Entry
  <2> QED
    BY <2>1, <2>2, <2>3
<1> HIDE DEF new, m
<1>7. cur.drops < MaxDrops + 2 /\ cur.drops # MaxDrops + 2
  <2>1. cur.drops <= MaxDrops + 2 /\ cur.drops # MaxDrops + 2
    BY <1>2 DEF Counted, cur
  <2> QED
    BY <1>1, <1>6, <2>1
<1>8. new.drops <= MaxDrops + 2 /\ (new.stale <=> new.drops = MaxDrops + 2)
  BY <1>1, <1>6, <1>7
<1>9. /\ m \in Seq(Entry) /\ Len(m) = Len(s) /\ m[p] = new
      /\ \A j \in 1 .. Len(s) : j # p => m[j] = s[j]
  <2> HIDE DEF p
  <2> QED
    BY <1>2, <1>4, <1>6
<1>10. \A j \in 1 .. Len(s) : m[j].addr = s[j].addr
  BY <1>6, <1>9
<1>11. Counted(m)
  <2>1. \A j, k \in 1 .. Len(m) : m[j].addr = m[k].addr => j = k
    BY <1>9, <1>10 DEF Counted
  <2>2. ASSUME NEW j \in 1 .. Len(m)
        PROVE  m[j].drops <= MaxDrops + 2 /\ (m[j].stale <=> m[j].drops = MaxDrops + 2)
    <3>1. CASE j = p
      BY <1>8, <1>9, <3>1
    <3>2. CASE j # p
      BY <1>9, <3>2 DEF Counted
    <3> QED
      BY <3>1, <3>2
  <2> QED
    BY <2>1, <2>2 DEF Counted
<1> QED
  BY <1>6, <1>9, <1>11 DEF m, cur

(* A store made of an answer of the resolver has no drops yet, and as many *)
(* entries as the answer has addresses of the socket's family.             *)
LEMMA SuitedIsCounted ==
  ASSUME AnswersDistinct, NEW ans \in Answers, NEW t \in SocketTypes
  PROVE  /\ Counted(Suited(ans, t))
         /\ \A i \in 1 .. Len(Suited(ans, t)) : Suited(ans, t)[i].drops = 0
         /\ SocketFamily[t] \in Families
         /\ Len(Suited(ans, t)) = Len(ans[SocketFamily[t]])
<1> DEFINE f == SocketFamily[t]
           s == Suited(ans, t)
<1>1. /\ ans \in [Families -> Seq(Addrs)] /\ t \in AllSocketTypes
      /\ MaxDrops \in Nat
  BY EngineAssumption, CacheAssumption
<1>2. /\ f \in Families /\ Len(s) = Len(ans[f])
      /\ \A i \in 1 .. Len(s) : s[i] = Fresh(ans[f][i])
  BY <1>1, SuitedStore
<1>3. \A a : Fresh(a).addr = a /\ ~Fresh(a).stale /\ Fresh(a).drops = 0
  BY DEF Fresh
<1>4. \A i, j \in 1 .. Len(ans[f]) : ans[f][i] = ans[f][j] => i = j
  BY <1>2 DEF AnswersDistinct
<1> HIDE DEF s, f
<1>5. \A i \in 1 .. Len(s) : s[i].addr = ans[f][i] /\ ~s[i].stale /\ s[i].drops = 0
  BY <1>2, <1>3
<1>6. Counted(s)
  <2>1. \A i, j \in 1 .. Len(s) : s[i].addr = s[j].addr => i = j
    BY <1>2, <1>4, <1>5
  <2>2. 0 <= MaxDrops + 2 /\ 0 # MaxDrops + 2
    BY <1>1
  <2> QED
    BY <1>5, <2>1, <2>2 DEF Counted
<1> QED
  BY <1>2, <1>5, <1>6 DEF s, f

(* The step of a drop, of the address the ping was sent to.                *)
LEMMA CountDropEffect ==
  ASSUME IInv, CountedInv, CountDrop
  PROVE  /\ store \in Seq(Entry) /\ index + 1 \in 1 .. Len(store)
         /\ store' \in Seq(Entry) /\ Len(store') = Len(store)
         /\ \A j \in 1 .. Len(store) : j # index + 1 => store'[j] = store[j]
         /\ store'[index + 1].drops = store[index + 1].drops + 1
         /\ Counted(store')
         /\ pc' = "Waiting"
<1>1. /\ store \in Seq(Entry) /\ index \in 0 .. Len(store) - 1
      /\ store[index + 1].addr = ip /\ ~store[index + 1].stale
      /\ index + 1 \in 1 .. Len(store)
  BY DEF CountDrop, IInv, TypeOK, PingsUsableAddress, Pinging
<1>2. Counted(store) /\ Holds(store, ip)
  BY <1>1 DEF CountDrop, CountedInv, Running, Pinging, Holds
<1>3. store' = MarkDropped(store, index, ip) /\ pc' = "Waiting"
  BY <1>2 DEF CountDrop
<1> QED
  BY <1>1, <1>2, <1>3, DropIsCounted

(* The step that reopens the socket, when it goes on to a ping.            *)
LEMMA ListenEffect ==
  ASSUME PhaseInv, NEW t \in SocketTypes, ListenOn(t), Running'
  PROVE  /\ answer \in Answers /\ store' = Suited(answer, t)
         /\ pc = "Listen" /\ pc' \in {"Write", "Exit"} /\ inbox = <<>>
         /\ socket' = t /\ inbox' = inbox
<1>1. Suited(answer, t) # <<>>
  BY DEF ListenOn, Running, Pinging
<1> QED
  BY <1>1 DEF ListenOn, PhaseInv, StartPing

LEMMA CountedInit == ASSUME AnswersDistinct, Init PROVE CountedInv
<1>1. CASE store = <<>>
  BY <1>1 DEF CountedInv, Counted
<1>2. ASSUME NEW ans \in Answers, store = Suited(ans, socket) PROVE CountedInv
  <2>1. socket \in SocketTypes
    BY DEF Init
  <2> QED
    BY <1>2, <2>1, SuitedIsCounted DEF CountedInv
<1> QED
  BY <1>1, <1>2 DEF Init

(* The allowance is kept track of from one rebuilding of the store to the  *)
(* next, by the only step that counts a drop.                              *)
LEMMA CountedStep ==
  ASSUME AnswersDistinct, IInv, PhaseInv, CountedInv, [Next]_vars
  PROVE  CountedInv'
<1>1. TypeOK
  BY DEF IInv
<1>2. CASE CountDrop
  BY <1>2, CountDropEffect DEF CountedInv, Counted
<1>3. CASE DnsCached
  BY <1>3 DEF DnsCached, CountedInv, Counted, Running
<1>4. CASE DnsQuery \/ DnsTick \/ ListenFails \/ Exit
  <2>1. ~Running'
    BY <1>4 DEF DnsQuery, DnsTick, ListenFails, Exit, Running, Pinging
  <2> QED
    BY <2>1 DEF CountedInv
<1>5. ASSUME NEW t \in SocketTypes, ListenOn(t) PROVE CountedInv'
  <2>1. CASE ~Running'
    BY <2>1 DEF CountedInv
  <2>2. CASE Running'
    <3>1. Counted(store')
      BY <1>5, <2>2, ListenEffect, SuitedIsCounted
    <3> QED
      BY <3>1 DEF CountedInv, Counted
  <2> QED
    BY <2>1, <2>2
<1>6. CASE CacheUntouched /\ (Running' => Running)
  BY <1>6 DEF CacheUntouched, CountedInv, Counted
<1> QED
  BY <1>1, <1>2, <1>3, <1>4, <1>5, <1>6, StepKinds DEF CacheStep

LEMMA CountedInductive == ASSUME AnswersDistinct PROVE Spec => []CountedInv
<1>1. Init => CountedInv
  BY CountedInit
<1>2. IInv /\ PhaseInv /\ CountedInv /\ [Next]_vars => CountedInv'
  BY CountedStep
<1> QED
  BY <1>1, <1>2, Inductive, PhaseInductive, PTL DEF Spec

(* The resolver is asked again only when every address of the store has    *)
(* dropped more than its allowance of packets, since the socket was        *)
(* opened, if no answer of it names an address twice: Dropped reads the    *)
(* count of the first entry that holds the address, and writes it at the   *)
(* index.                                                                  *)
THEOREM AllowanceIsUsed == ASSUME AnswersDistinct PROVE Spec => QueriesOnlyWhenExhausted
<1>1. IInv /\ CountedInv /\ [Next]_vars
        => [pc = "Dns" /\ pc' = "Query" =>
              \A i \in 1 .. Len(store) : store[i].drops > MaxDrops]_vars
  <2> SUFFICES ASSUME IInv, CountedInv, Next, pc = "Dns", pc' = "Query",
                      NEW i \in 1 .. Len(store)
               PROVE  store[i].drops > MaxDrops
    OBVIOUS
  <2>1. DnsMiss
    BY DEF Next, Loop, Client, Environment, Ended, DnsCached, DnsQuery,
           DnsFails, DnsTick, ListenFails, ListenOn, WriteEcho, WriteFails, ReadReply,
           ReadTimeout, ReadFails, SendBuffered, SendHandOff, Sending, CountDrop,
           WaitCancelled, WaitDefault, TakeTick, Exit, WaitSpeed, SendSpeed,
           Receive, StartReceive, SeesClose, CallLastIP, StartPing,
           GetLastIP, Cancel, TickerFires, Overhear, Deliver, Lose, vars
  <2>2. store[i].drops = MaxDrops + 2
    BY <2>1 DEF DnsMiss, HasLive, CountedInv, Counted, Running
  <2> QED
    BY <2>2, CacheAssumption
<1> QED
  BY <1>1, Inductive, CountedInductive, PTL DEF Spec, QueriesOnlyWhenExhausted

-----------------------------------------------------------------------------
(* The drops counted in a store                                            *)

SumOf(s) ==
  LET upTo[n \in 0 .. Len(s)] == IF n = 0 THEN 0 ELSE upTo[n - 1] + s[n].drops
  IN  upTo[Len(s)]

(* The drops of the first entries of a store, and of all of them.          *)
SumsTo(f, s) ==
  /\ f \in [0 .. Len(s) -> Nat] /\ f[0] = 0
  /\ \A n \in 1 .. Len(s) : f[n] = f[n - 1] + s[n].drops

LEMMA SumExists ==
  ASSUME NEW s \in Seq(Entry)
  PROVE  \E f : SumsTo(f, s) /\ SumOf(s) = f[Len(s)]
<1> DEFINE total == Len(s)
           value(f, n) == IF n = 0 THEN 0 ELSE f[n - 1] + s[n].drops
           Solves(f, n) == f = [m \in 0 .. n |-> value(f, m)]
           S == {n \in Nat : \E f : Solves(f, n)}
<1>0. total \in Nat
  OBVIOUS
<1>1. 0 \in S
  <2> DEFINE f == [m \in 0 .. 0 |-> 0]
  <2>1. Solves(f, 0)
    <3>1. \A m \in 0 .. 0 : value(f, m) = 0
      OBVIOUS
    <3> QED
      BY <3>1
  <2> QED
    BY <2>1
<1>2. \A n \in Nat : n \in S => n + 1 \in S
  <2> SUFFICES ASSUME NEW n \in Nat, n \in S
               PROVE  n + 1 \in S
    OBVIOUS
  <2>1. PICK f : Solves(f, n)
    OBVIOUS
  <2> DEFINE g == [m \in 0 .. n + 1 |-> IF m <= n THEN f[m] ELSE f[n] + s[n + 1].drops]
  <2>2. ASSUME NEW m \in 0 .. n + 1
        PROVE  g[m] = value(g, m)
    <3>1. CASE m = 0
      <4>1. f[0] = 0
        BY <2>1
      <4> QED
        BY <3>1, <4>1
    <3>2. CASE m \in 1 .. n
      <4>1. m \in 0 .. n /\ m - 1 \in 0 .. n + 1 /\ m - 1 <= n /\ m # 0
        BY <3>2
      <4>2. f[m] = f[m - 1] + s[m].drops
        BY <2>1, <4>1
      <4>3. g[m] = f[m] /\ g[m - 1] = f[m - 1]
        BY <4>1
      <4> QED
        BY <4>1, <4>2, <4>3
    <3>3. CASE m = n + 1
      <4>1. g[m] = f[n] + s[n + 1].drops /\ g[n] = f[n] /\ m - 1 = n /\ m # 0
        BY <3>3
      <4> QED
        BY <3>3, <4>1
    <3> QED
      BY <3>1, <3>2, <3>3
  <2>3. g = [m \in 0 .. n + 1 |-> g[m]]
    OBVIOUS
  <2>4. Solves(g, n + 1)
    <3> HIDE DEF g
    <3> QED
      BY <2>2, <2>3
  <2> HIDE DEF g, Solves
  <2> QED
    BY <2>4
<1>3. \E f : Solves(f, total)
  <2> HIDE DEF S
  <2>1. Nat \subseteq S
    BY <1>1, <1>2, NatInductionOnSets
  <2> QED
    BY <1>0, <2>1 DEF S
<1> DEFINE upTo == CHOOSE f : Solves(f, total)
           T == {n \in Nat : n <= total => upTo[n] \in Nat}
<1>4. Solves(upTo, total)
  <2> HIDE DEF Solves
  <2> QED
    BY <1>3
<1>5. SumOf(s) = upTo[total]
  BY DEF SumOf
<1> HIDE DEF upTo
<1>6. \A n \in 1 .. total : s[n] \in Entry
  OBVIOUS
<1>7. \A n \in 1 .. total : s[n].drops \in Nat
  BY <1>6 DEF Entry
<1> HIDE DEF total
<1>8. upTo[0] = 0
  BY <1>0, <1>4
<1>9. \A n \in 1 .. total : upTo[n] = upTo[n - 1] + s[n].drops
  BY <1>0, <1>4
<1>10. \A n \in Nat : n \in T => n + 1 \in T
  <2> SUFFICES ASSUME NEW n \in Nat, n \in T, n + 1 <= total
               PROVE  upTo[n + 1] \in Nat
    OBVIOUS
  <2>1. upTo[n] \in Nat /\ n + 1 \in 1 .. total
    BY <1>0
  <2>2. upTo[n + 1] = upTo[n] + s[n + 1].drops
    BY <1>9, <2>1
  <2> QED
    BY <1>7, <2>1, <2>2
<1>11. \A n \in 0 .. total : upTo[n] \in Nat
  <2>1. 0 \in T
    BY <1>8
  <2>2. Nat \subseteq T
    <3> HIDE DEF T
    <3> QED
      BY <2>1, <1>10, NatInductionOnSets
  <2> QED
    BY <1>0, <2>2
<1>12. upTo \in [0 .. total -> Nat]
  BY <1>4, <1>11
<1>13. SumsTo(upTo, s)
  BY <1>8, <1>9, <1>12 DEF SumsTo, total
<1> QED
  BY <1>5, <1>13 DEF total

(* A store without drops.                                                  *)
LEMMA SumOfFresh ==
  ASSUME NEW s \in Seq(Entry), \A i \in 1 .. Len(s) : s[i].drops = 0
  PROVE  SumOf(s) = 0
<1>1. PICK f : SumsTo(f, s) /\ SumOf(s) = f[Len(s)]
  BY SumExists
<1> DEFINE T == {n \in Nat : n <= Len(s) => f[n] = 0}
<1>2. 0 \in T
  BY <1>1 DEF SumsTo
<1>3. \A n \in Nat : n \in T => n + 1 \in T
  <2> SUFFICES ASSUME NEW n \in Nat, n \in T PROVE n + 1 \in T
    OBVIOUS
  <2>1. ASSUME n + 1 <= Len(s) PROVE f[n + 1] = 0
    <3>1. n + 1 \in 1 .. Len(s) /\ f[n] = 0
      BY <2>1
    <3>2. f[n + 1] = f[n] + s[n + 1].drops
      BY <1>1, <3>1 DEF SumsTo
    <3> QED
      BY <3>1, <3>2
  <2> QED
    BY <2>1
<1>4. Len(s) \in T
  <2> HIDE DEF T
  <2> QED
    BY <1>2, <1>3, NatInductionOnSets
<1> QED
  BY <1>1, <1>4

(* One more drop on one entry is one more drop in the store.               *)
LEMMA SumOfDropped ==
  ASSUME NEW s \in Seq(Entry), NEW m \in Seq(Entry), Len(m) = Len(s),
         NEW p \in 1 .. Len(s), m[p].drops = s[p].drops + 1,
         \A j \in 1 .. Len(s) : j # p => m[j] = s[j]
  PROVE  SumOf(m) = SumOf(s) + 1
<1>1. PICK f : SumsTo(f, s) /\ SumOf(s) = f[Len(s)]
  BY SumExists
<1>2. PICK g : SumsTo(g, m) /\ SumOf(m) = g[Len(m)]
  BY SumExists
<1> DEFINE more(n) == IF n >= p THEN 1 ELSE 0
           T == {n \in Nat : n <= Len(s) => g[n] = f[n] + more(n)}
<1>3. 0 \in T
  BY <1>1, <1>2 DEF SumsTo
<1>4. \A n \in Nat : n \in T => n + 1 \in T
  <2> SUFFICES ASSUME NEW n \in Nat, n \in T, n + 1 <= Len(s)
               PROVE  g[n + 1] = f[n + 1] + more(n + 1)
    OBVIOUS
  <2>1. /\ n + 1 \in 1 .. Len(s) /\ n \in 0 .. Len(s) /\ n + 1 \in 1 .. Len(m)
        /\ g[n] = f[n] + more(n)
    OBVIOUS
  <2>2. /\ f[n + 1] = f[n] + s[n + 1].drops /\ f[n] \in Nat
        /\ g[n + 1] = g[n] + m[n + 1].drops
    <3>1. f[n + 1] = f[n] + s[n + 1].drops /\ f[n] \in Nat
      BY <1>1, <2>1 DEF SumsTo
    <3>2. g[n + 1] = g[n] + m[n + 1].drops
      BY <1>2, <2>1 DEF SumsTo
    <3> QED
      BY <3>1, <3>2
  <2>3. s[n + 1] \in Entry
    BY <2>1
  <2>4. s[n + 1].drops \in Nat
    BY <2>3 DEF Entry
  <2>5. m[n + 1].drops = s[n + 1].drops + (IF n + 1 = p THEN 1 ELSE 0)
    BY <2>1, <2>4
  <2>6. more(n) + (IF n + 1 = p THEN 1 ELSE 0) = more(n + 1)
    OBVIOUS
  <2>7. more(n) \in Nat
    OBVIOUS
  <2> HIDE DEF more, T
  <2> QED
    BY <2>1, <2>2, <2>4, <2>5, <2>6, <2>7
<1>5. Len(s) \in T
  <2> HIDE DEF T
  <2> QED
    BY <1>3, <1>4, NatInductionOnSets
<1>6. g[Len(s)] = f[Len(s)] + 1
  BY <1>5
<1> QED
  BY <1>1, <1>2, <1>6

(* No more drops than the allowance of each address, and fewer than that   *)
(* while an address is not stale.                                          *)
LEMMA SumOfCounted ==
  ASSUME NEW s \in Seq(Entry), Counted(s), NEW p \in 1 .. Len(s), ~s[p].stale
  PROVE  /\ SumOf(s) \in Nat /\ (MaxDrops + 2) * Len(s) \in Nat
         /\ SumOf(s) < (MaxDrops + 2) * Len(s)
<1>1. PICK f : SumsTo(f, s) /\ SumOf(s) = f[Len(s)]
  BY SumExists
<1> DEFINE M == MaxDrops + 2
           less(n) == IF n >= p THEN 1 ELSE 0
           T == {n \in Nat : n <= Len(s) => f[n] + less(n) <= M * n}
<1>2. M \in Nat /\ Len(s) \in Nat
  BY CacheAssumption
<1>3. 0 \in T
  BY <1>1, <1>2 DEF SumsTo
<1>4. \A n \in Nat : n \in T => n + 1 \in T
  <2> SUFFICES ASSUME NEW n \in Nat, n \in T, n + 1 <= Len(s)
               PROVE  f[n + 1] + less(n + 1) <= M * (n + 1)
    OBVIOUS
  <2>1. /\ n + 1 \in 1 .. Len(s) /\ n \in 0 .. Len(s)
        /\ f[n] + less(n) <= M * n
    OBVIOUS
  <2>2. f[n + 1] = f[n] + s[n + 1].drops /\ f[n] \in Nat
    BY <1>1, <2>1 DEF SumsTo
  <2>3. s[n + 1] \in Entry
    BY <2>1
  <2>4. s[n + 1].drops \in Nat
    BY <2>3 DEF Entry
  <2>5. s[n + 1].drops <= M /\ (n + 1 = p => s[n + 1].drops # M)
    BY <2>1 DEF Counted
  <2>6. M * (n + 1) = M * n + M /\ M * n \in Nat
    BY <1>2
  <2>7. less(n) \in Nat /\ less(n + 1) = less(n) + (IF n + 1 = p THEN 1 ELSE 0)
    OBVIOUS
  <2> HIDE DEF M, less, T
  <2> QED
    BY <1>2, <2>1, <2>2, <2>4, <2>5, <2>6, <2>7
<1>5. Len(s) \in T
  <2> HIDE DEF T
  <2> QED
    BY <1>2, <1>3, <1>4, NatInductionOnSets
<1>6. f[Len(s)] + 1 <= M * Len(s)
  BY <1>5
<1>7. f[Len(s)] \in Nat /\ M * Len(s) \in Nat
  <2> HIDE DEF M
  <2> QED
    BY <1>1, <1>2 DEF SumsTo
<1> QED
  BY <1>1, <1>6, <1>7

LEMMA SumType == ASSUME NEW s \in Seq(Entry) PROVE SumOf(s) \in Nat
<1>1. PICK f : SumsTo(f, s) /\ SumOf(s) = f[Len(s)]
  BY SumExists
<1> QED
  BY <1>1 DEF SumsTo

(* DropCount is the sum of the store, in a state and in the next.          *)
LEMMA DropCountIs == DropCount = SumOf(store) /\ DropCount' = SumOf(store')
BY DEF DropCount, SumOf

-----------------------------------------------------------------------------
(* The age of a reply                                                      *)

LEMMA YoungLater ==
  ASSUME NEW q \in Seq(Packets), NEW b \in Nat, NEW c \in Nat, b <= c, Young(q, b)
  PROVE  Young(q, c)
<1>1. \A i \in 1 .. Len(q) : q[i] \in Int
  BY DEF Packets, Stranger
<1> QED
  BY <1>1 DEF Young

LEMMA YoungAged ==
  ASSUME TypeOK, AgeInbox, NEW b \in Nat, Young(inbox, b)
  PROVE  Young(inbox', b + 1)
<1>1. \A i \in 1 .. Len(inbox) : inbox[i] \in Nat \cup {-1}
  BY DEF TypeOK, Packets, Stranger
<1>2. /\ Len(inbox') = Len(inbox)
      /\ \A i \in 1 .. Len(inbox) : inbox'[i] = Older(inbox[i])
  BY DEF AgeInbox, TypeOK
<1>3. ASSUME NEW i \in 1 .. Len(inbox) PROVE inbox'[i] + i <= b + 1
  <2>1. inbox[i] \in Nat \cup {-1} /\ inbox[i] + i <= b /\ inbox'[i] = Older(inbox[i])
    BY <1>1, <1>2 DEF Young
  <2>2. Older(inbox[i]) \in Int /\ Older(inbox[i]) <= inbox[i] + 1
    BY <2>1 DEF Older, Stranger
  <2> QED
    BY <2>1, <2>2
<1> QED
  BY <1>2, <1>3 DEF Young

LEMMA YoungTail ==
  ASSUME NEW q \in Seq(Packets), q # <<>>, NEW b \in Nat, Young(q, b)
  PROVE  Young(Tail(q), b - 1) /\ q[1] \in Packets /\ q[1] + 1 <= b
<1>1. Len(q) > 0 /\ Len(Tail(q)) = Len(q) - 1
  BY EmptySeq
<1>2. ASSUME NEW i \in 1 .. Len(Tail(q)) PROVE Tail(q)[i] + i <= b - 1
  <2>1. Tail(q)[i] = q[i + 1] /\ i + 1 \in 1 .. Len(q)
    BY <1>1
  <2>2. q[i + 1] \in Int /\ q[i + 1] + (i + 1) <= b
    BY <2>1 DEF Young, Packets, Stranger
  <2> QED
    BY <2>1, <2>2
<1> QED
  BY <1>1, <1>2 DEF Young

LEMMA YoungAppend ==
  ASSUME NEW q \in Seq(Packets), NEW b \in Nat, NEW a \in Packets, Young(q, b),
         a + Len(q) + 1 <= b
  PROVE  Young(Append(q, a), b)
<1>1. ASSUME NEW i \in 1 .. Len(q) + 1 PROVE Append(q, a)[i] + i <= b
  <2>1. CASE i = Len(q) + 1
    BY <2>1 DEF Packets, Stranger
  <2>2. CASE i # Len(q) + 1
    BY <2>2 DEF Young
  <2> QED
    BY <2>1, <2>2
<1> QED
  BY <1>1 DEF Young

(* The bound on the age is a number.                                       *)
LEMMA AgeNumbers ==
  ASSUME TypeOK
  PROVE  /\ DropCount \in Nat /\ Pending \in {0, 1}
         /\ Lifetime \in Nat /\ InboxCap \in Nat
         /\ inbox \in Seq(Packets)
<1>1. DropCount \in Nat
  BY SumType, DropCountIs DEF TypeOK
<1> QED
  BY <1>1, EngineAssumption DEF TypeOK, Pending

LEMMA AgePrimed ==
  AgeInv' <=> (Running' => /\ Room(store')
                           /\ Young(inbox', Lifetime + InboxCap + DropCount' + Pending'))
BY DEF AgeInv, Room, Young

LEMMA RoomInit ==
  ASSUME AnswersDistinct, NumbersSuffice, NEW ans \in Answers, NEW t \in SocketTypes
  PROVE  Room(Suited(ans, t))
<1>1. SocketFamily[t] \in Families /\ Len(Suited(ans, t)) = Len(ans[SocketFamily[t]])
  BY SuitedIsCounted
<1>2. Lifetime + InboxCap + (MaxDrops + 2) * Len(ans[SocketFamily[t]]) <= SeqSpace
  BY <1>1 DEF NumbersSuffice
<1> QED
  BY <1>1, <1>2 DEF Room

LEMMA AgeInit ==
  ASSUME AnswersDistinct, NumbersSuffice, Init PROVE AgeInv
<1>1. Room(store)
  <2>1. CASE store = <<>>
    BY <2>1 DEF Room
  <2>2. CASE store # <<>>
    BY <2>2, RoomInit DEF Init
  <2> QED
    BY <2>1, <2>2
<1>2. inbox = <<>>
  BY DEF Init
<1> QED
  BY <1>1, <1>2 DEF AgeInv, Young

(* A step that leaves the store alone and does not settle a ping.          *)
LEMMA AgeKept ==
  ASSUME TypeOK, TypeOK', AgeInv, store' = store, Running' => Running,
         Running' /\ Unsettled => Unsettled',
         Young(inbox, Lifetime + InboxCap + DropCount + Pending)
           => Young(inbox', Lifetime + InboxCap + DropCount + Pending)
  PROVE  AgeInv'
<1> DEFINE old == Lifetime + InboxCap + DropCount + Pending
           new == Lifetime + InboxCap + DropCount' + Pending'
<1>1. SUFFICES ASSUME Running' PROVE Room(store') /\ Young(inbox', new)
  BY AgePrimed
<1>2. DropCount' = DropCount
  BY DropCountIs
<1>3. Pending <= Pending' /\ Pending' \in {0, 1}
  BY <1>1 DEF Pending
<1>4. old \in Nat /\ new \in Nat /\ old <= new
  <2>1. DropCount \in Nat /\ Pending \in {0, 1} /\ Lifetime \in Nat /\ InboxCap \in Nat
    BY AgeNumbers
  <2>2. ASSUME NEW p \in {0, 1}, Pending <= p
        PROVE  /\ Lifetime + InboxCap + DropCount + Pending \in Nat
               /\ Lifetime + InboxCap + DropCount + p \in Nat
               /\ Lifetime + InboxCap + DropCount + Pending <= Lifetime + InboxCap + DropCount + p
    BY <2>1, <2>2
  <2> QED
    BY <1>2, <1>3, <2>2
<1>5. Room(store) /\ Young(inbox', old)
  BY <1>1 DEF AgeInv
<1>6. inbox' \in Seq(Packets)
  BY DEF TypeOK
<1> HIDE DEF old, new
<1> QED
  BY <1>4, <1>5, <1>6, YoungLater

LEMMA AgeStep ==
  ASSUME AnswersDistinct, NumbersSuffice,
         IInv, TypeOK', PhaseInv, CountedInv, AgeInv, [Next]_vars
  PROVE  AgeInv'
<1> DEFINE base == Lifetime + InboxCap + DropCount
<1>1. /\ TypeOK /\ DropCount \in Nat /\ Pending \in {0, 1}
      /\ Lifetime \in Nat /\ InboxCap \in Nat /\ inbox \in Seq(Packets)
      /\ base \in Nat /\ base + Pending \in Nat
  BY AgeNumbers DEF IInv
<1>2. Running => Room(store) /\ Young(inbox, base + Pending)
  BY DEF AgeInv
<1>3. ASSUME ~Running' PROVE AgeInv'
  BY <1>3, AgePrimed
<1>4. ASSUME UNCHANGED <<store, inbox>>, Running' => Running,
             Running' /\ Unsettled => Unsettled'
      PROVE  AgeInv'
  BY <1>1, <1>4, AgeKept
<1>5. CASE DnsCached
  <2>1. UNCHANGED <<store, inbox>> /\ Running /\ ~Unsettled
    BY <1>5 DEF DnsCached, netVars, Running, Unsettled
  <2> QED
    BY <1>4, <2>1
<1>6. CASE DnsMiss \/ DnsFails \/ DnsQuery \/ DnsTick \/ ListenFails \/ Exit
  <2>1. ~Running'
    BY <1>6 DEF DnsMiss, DnsFails, DnsQuery, DnsTick, ListenFails, Exit, Running, Pinging
  <2> QED
    BY <1>3, <2>1
<1>7. ASSUME NEW t \in SocketTypes, ListenOn(t) PROVE AgeInv'
  <2>1. CASE ~Running'
    BY <1>3, <2>1
  <2>2. CASE Running'
    <3>1. answer \in Answers /\ store' = Suited(answer, t) /\ inbox' = <<>>
      BY <1>7, <2>2, ListenEffect
    <3>2. Room(store')
      BY <3>1, RoomInit
    <3> QED
      BY <3>1, <3>2, AgePrimed DEF Young
  <2> QED
    BY <2>1, <2>2
<1>8. CASE WriteEcho \/ WriteFails
  <2>1. /\ AgeInbox /\ store' = store /\ Running /\ ~Unsettled /\ Unsettled'
    BY <1>8 DEF WriteEcho, WriteFails, cacheVars, Running, Pinging, Unsettled, Failure
  <2>2. Pending = 0 /\ Pending' = 1 /\ DropCount' = DropCount
    BY <2>1, DropCountIs DEF Pending
  <2>3. Young(inbox, base)
    BY <1>1, <1>2, <2>1, <2>2
  <2>4. Young(inbox', base + 1)
    <3> HIDE DEF base
    <3> QED
      BY <1>1, <2>1, <2>3, YoungAged
  <2> QED
    BY <1>2, <2>1, <2>2, <2>4, AgePrimed
<1>9. CASE ReadReply
  <2>1. /\ inbox # <<>> /\ inbox' = Tail(inbox) /\ store' = store
        /\ Running /\ Unsettled
    BY <1>9 DEF ReadReply, cacheVars, Running, Pinging, Unsettled
  <2>2. Pending = 1 /\ Pending' \in {0, 1} /\ DropCount' = DropCount
    BY <2>1, DropCountIs DEF Pending
  <2>3. Young(inbox', base)
    <3>1. Young(inbox, base + 1)
      BY <1>2, <2>1, <2>2
    <3>2. base + 1 \in Nat /\ (base + 1) - 1 = base
      BY <1>1
    <3> HIDE DEF base
    <3>3. Young(Tail(inbox), (base + 1) - 1)
      BY <1>1, <2>1, <3>1, <3>2, YoungTail
    <3> QED
      BY <2>1, <3>2, <3>3
  <2>4. ASSUME NEW p \in {0, 1} PROVE Young(inbox', base + p)
    <3>1. base + p \in Nat /\ base <= base + p /\ inbox' \in Seq(Packets)
      BY <1>1 DEF TypeOK
    <3> HIDE DEF base
    <3> QED
      BY <1>1, <2>3, <3>1, YoungLater
  <2>5. Young(inbox', base + Pending')
    BY <2>2, <2>4
  <2> QED
    BY <1>2, <2>1, <2>2, <2>5, AgePrimed
<1>10. CASE ReadTimeout \/ ReadFails
  <2>1. UNCHANGED <<store, inbox>> /\ Running /\ Unsettled'
    BY <1>10 DEF ReadTimeout, ReadFails, cacheVars, netVars, Running, Pinging, Unsettled,
                 Failure
  <2> QED
    BY <1>4, <2>1
<1>11. CASE SendBuffered \/ SendHandOff
  <2>1. Sending /\ Sent /\ UNCHANGED <<store, inbox, result>>
    BY <1>11 DEF SendBuffered, SendHandOff, cacheVars, netVars
  <2>2. CASE pc = "ReportDns"
    <3>1. ~Running'
      BY <2>1, <2>2 DEF Sent, Running, Pinging
    <3> QED
      BY <1>3, <3>1
  <2>3. CASE pc = "Send"
    <3>1. Running /\ (Unsettled => Unsettled')
      BY <2>1, <2>3 DEF Sent, Running, Pinging, Unsettled
    <3> QED
      BY <1>4, <2>1, <3>1
  <2> QED
    BY <2>1, <2>2, <2>3 DEF Sending
<1>12. CASE CountDrop
  <2>1. /\ store \in Seq(Entry) /\ index + 1 \in 1 .. Len(store)
        /\ store' \in Seq(Entry) /\ Len(store') = Len(store)
        /\ \A j \in 1 .. Len(store) : j # index + 1 => store'[j] = store[j]
        /\ store'[index + 1].drops = store[index + 1].drops + 1
        /\ pc' = "Waiting"
    BY <1>12, CountDropEffect
  <2>2. /\ Running /\ Unsettled /\ ~Unsettled' /\ inbox' = inbox
    BY <1>12, <2>1 DEF CountDrop, netVars, Running, Pinging, Unsettled
  <2>3. DropCount' = DropCount + 1
    BY <2>1, SumOfDropped, DropCountIs
  <2>4. Pending = 1 /\ Pending' = 0
    BY <2>2 DEF Pending
  <2>5. Room(store')
    BY <1>2, <2>1, <2>2 DEF Room
  <2>6. Young(inbox', Lifetime + InboxCap + (DropCount + 1) + 0)
    <3>1. Lifetime + InboxCap + (DropCount + 1) + 0 = base + 1
      BY <1>1
    <3> QED
      BY <1>2, <2>2, <2>4, <3>1
  <2> QED
    BY <2>3, <2>4, <2>5, <2>6, AgePrimed
<1>13. CASE WaitCancelled \/ WaitDefault \/ TakeTick
  <2>1. UNCHANGED <<store, inbox>> /\ Running /\ ~Unsettled
    BY <1>13 DEF WaitCancelled, WaitDefault, TakeTick, cacheVars, netVars, Running, Unsettled
  <2> QED
    BY <1>4, <2>1
<1>14. ASSUME NEW s \in Speeds, WaitSpeed(s) \/ SendSpeed(s) PROVE AgeInv'
  <2>1. UNCHANGED <<store, inbox, pc, result>>
    BY <1>14 DEF WaitSpeed, SendSpeed, cacheVars, netVars
  <2> QED
    BY <1>4, <2>1 DEF Running, Pinging, Unsettled
<1>18. CASE Overhear
  <2>1. /\ UNCHANGED <<store, pc, result>> /\ Len(inbox) < InboxCap
        /\ inbox' = Append(inbox, Stranger)
    BY <1>18 DEF Overhear, cacheVars
  <2>2. Stranger \in Packets
    BY DEF Packets
  <2>3. Stranger + Len(inbox) + 1 <= base + Pending
    BY <1>1, <2>1 DEF Stranger
  <2>4. Running => Young(inbox', base + Pending)
    <3> HIDE DEF base
    <3> QED
      BY <1>1, <1>2, <2>1, <2>2, <2>3, YoungAppend
  <2>5. DropCount' = DropCount /\ Pending' = Pending /\ (Running' => Running)
    BY <2>1, DropCountIs DEF Pending, Unsettled, Running, Pinging
  <2> QED
    BY <1>2, <2>1, <2>4, <2>5, AgePrimed
<1>15. CASE Client \/ Cancel \/ TickerFires \/ UNCHANGED vars
  <2>1. UNCHANGED <<store, inbox, pc, result>>
    BY <1>15 DEF Client, Receive, StartReceive, SeesClose, CallLastIP, GetLastIP, Cancel,
                 TickerFires, vars, cacheVars, netVars
  <2> QED
    BY <1>4, <2>1 DEF Running, Pinging, Unsettled
<1>16. ASSUME NEW a \in wire, Lose(a) PROVE AgeInv'
  <2>1. UNCHANGED <<store, inbox, pc, result>>
    BY <1>16 DEF Lose, cacheVars
  <2> QED
    BY <1>4, <2>1 DEF Running, Pinging, Unsettled
<1>17. ASSUME NEW a \in wire, Deliver(a) PROVE AgeInv'
  <2>1. /\ UNCHANGED <<store, pc, result>> /\ Len(inbox) < InboxCap
        /\ inbox' = Append(inbox, a)
    BY <1>17 DEF Deliver, cacheVars
  <2>2. a \in Nat /\ a \in Packets /\ a <= Lifetime
    BY <1>1 DEF TypeOK, Packets
  <2>3. a + Len(inbox) + 1 <= base + Pending
    BY <1>1, <2>1, <2>2
  <2>4. Running => Young(inbox', base + Pending)
    <3> HIDE DEF base
    <3> QED
      BY <1>1, <1>2, <2>1, <2>2, <2>3, YoungAppend
  <2>5. DropCount' = DropCount /\ Pending' = Pending /\ (Running' => Running)
    BY <2>1, DropCountIs DEF Pending, Unsettled, Running, Pinging
  <2> QED
    BY <1>2, <2>1, <2>4, <2>5, AgePrimed
<1> QED
  BY <1>5, <1>6, <1>7, <1>8, <1>9, <1>10, <1>11, <1>12, <1>13, <1>14, <1>15, <1>16, <1>17,
     <1>18 DEF Next, Loop, Environment, Ended

LEMMA AgeInductive ==
  ASSUME AnswersDistinct, NumbersSuffice PROVE Spec => []AgeInv
<1>1. Init => AgeInv
  BY AgeInit
<1>2. IInv /\ IInv' /\ PhaseInv /\ CountedInv /\ AgeInv /\ [Next]_vars => AgeInv'
  BY AgeStep DEF IInv
<1> QED
  BY <1>1, <1>2, Inductive, PhaseInductive, CountedInductive, PTL DEF Spec

(* The reply a ping reads, if it is not a stranger's, is younger than the  *)
(* sequence numbers are many, so the number on it tells whether it answers *)
(* that ping.                                                              *)
LEMMA ReadIsYoung ==
  ASSUME IInv, CountedInv, AgeInv, ReadReply
  PROVE  Head(inbox) = Stranger
           \/ (Head(inbox) \in Nat /\ (Head(inbox) % SeqSpace = 0 => Head(inbox) = 0))
<1>1. /\ TypeOK /\ DropCount \in Nat /\ inbox \in Seq(Packets)
      /\ Lifetime \in Nat /\ InboxCap \in Nat
  BY AgeNumbers DEF IInv
<1>2. pc = "Read" /\ inbox # <<>> /\ Running /\ Pending = 1
  BY DEF ReadReply, Running, Pinging, Pending, Unsettled
<1>3. /\ store \in Seq(Entry) /\ index + 1 \in 1 .. Len(store)
      /\ ~store[index + 1].stale /\ Counted(store)
  BY <1>2 DEF IInv, TypeOK, PingsUsableAddress, Pinging, CountedInv
<1> DEFINE allowed == (MaxDrops + 2) * Len(store)
           h == inbox[1]
<1>4. DropCount < allowed /\ allowed \in Nat
  BY <1>3, SumOfCounted, DropCountIs
<1>5. Lifetime + InboxCap + allowed <= SeqSpace
  <2>1. Len(store) # 0
    BY <1>3
  <2>2. store # <<>>
    BY <2>1
  <2> QED
    BY <1>2, <2>2 DEF AgeInv, Room
<1>6. h \in Packets /\ h + 1 <= Lifetime + InboxCap + DropCount + 1
  <2>1. Young(inbox, Lifetime + InboxCap + DropCount + 1)
    BY <1>2 DEF AgeInv
  <2>2. Lifetime + InboxCap + DropCount + 1 \in Nat
    BY <1>1
  <2> QED
    BY <1>1, <1>2, <2>1, <2>2, YoungTail
<1>7. SeqSpace \in Nat \ {0}
  BY EngineAssumption
<1> HIDE DEF allowed, h
<1>8. Head(inbox) = h
  BY <1>1, <1>2 DEF h
<1>9. ASSUME h \in Nat PROVE h % SeqSpace = h
  <2>1. h < SeqSpace
    BY <1>1, <1>4, <1>5, <1>6, <1>7, <1>9
  <2> QED
    BY <1>7, <1>9, <2>1
<1> QED
  BY <1>6, <1>8, <1>9 DEF Packets

(* Only a raw socket receives the packets of strangers, and closing it     *)
(* drops them.                                                             *)
StrangersInv == \A i \in 1 .. Len(inbox) : inbox[i] = Stranger => Raw(socket)

LEMMA StrangersStep ==
  ASSUME IInv, PhaseInv, StrangersInv, [Next]_vars
  PROVE  StrangersInv'
<1>1. /\ inbox \in Seq(Packets) /\ wire \subseteq Nat
      /\ \A i \in 1 .. Len(inbox) : inbox[i] = Stranger => Raw(socket)
  BY EngineAssumption DEF IInv, TypeOK, StrangersInv
<1>2. CASE inbox' = <<>>
  BY <1>2 DEF StrangersInv
<1>3. CASE UNCHANGED <<inbox, socket>>
  BY <1>1, <1>3 DEF StrangersInv
<1>4. CASE AgeInbox /\ socket' = socket
  <2>1. \A a \in Packets : Older(a) = Stranger => a = Stranger
    BY DEF Older, Packets, Stranger
  <2> QED
    BY <1>1, <1>4, <2>1 DEF AgeInbox, StrangersInv
<1>5. CASE ReadReply
  <2>1. inbox # <<>> /\ inbox' = Tail(inbox) /\ socket' = socket
    BY <1>5 DEF ReadReply
  <2> QED
    BY <1>1, <2>1 DEF StrangersInv
<1>6. CASE Overhear
  <2>1. Raw(socket) /\ socket' = socket
    BY <1>6 DEF Overhear
  <2> QED
    BY <2>1 DEF StrangersInv
<1>7. ASSUME NEW a \in wire, Deliver(a) PROVE StrangersInv'
  <2>1. inbox' = Append(inbox, a) /\ socket' = socket /\ a # Stranger /\ a \in Packets
    BY <1>1, <1>7 DEF Deliver, Stranger, Packets
  <2>2. ASSUME NEW i \in 1 .. Len(inbox'), inbox'[i] = Stranger PROVE Raw(socket)
    <3>1. i \in 1 .. Len(inbox) /\ inbox'[i] = inbox[i]
      BY <1>1, <2>1, <2>2
    <3> QED
      BY <1>1, <2>2, <3>1
  <2> QED
    BY <2>1, <2>2 DEF StrangersInv
<1>8. ASSUME NEW t \in SocketTypes, ListenOn(t) PROVE StrangersInv'
  BY <1>2, <1>8 DEF ListenOn, PhaseInv
<1>9. CASE WriteEcho \/ WriteFails
  BY <1>4, <1>9 DEF WriteEcho, WriteFails
<1>10. CASE DnsCached \/ DnsMiss \/ DnsQuery \/ DnsFails \/ DnsTick \/ ListenFails
            \/ ReadTimeout \/ ReadFails \/ SendBuffered \/ SendHandOff \/ CountDrop
  BY <1>2, <1>3, <1>10 DEF DnsCached, DnsMiss, DnsQuery, DnsFails, DnsTick, ListenFails,
       ReadTimeout, ReadFails, SendBuffered, SendHandOff, CountDrop, netVars
<1>11. CASE Exit \/ WaitCancelled \/ WaitDefault \/ TakeTick \/ Client \/ Cancel
            \/ TickerFires \/ UNCHANGED vars
  BY <1>2, <1>3, <1>11 DEF Exit, WaitCancelled, WaitDefault, TakeTick, Client, Receive,
       StartReceive, SeesClose, CallLastIP, GetLastIP, Cancel, TickerFires, vars, netVars
<1>12. ASSUME NEW s \in Speeds, WaitSpeed(s) \/ SendSpeed(s) PROVE StrangersInv'
  BY <1>3, <1>12 DEF WaitSpeed, SendSpeed, netVars
<1>13. ASSUME NEW a \in wire, Lose(a) PROVE StrangersInv'
  BY <1>3, <1>13 DEF Lose
<1> QED
  BY <1>5, <1>6, <1>7, <1>8, <1>9, <1>10, <1>11, <1>12, <1>13
     DEF Next, Loop, Environment, Ended

LEMMA StrangersAreRaw == Spec => []StrangersInv
<1>1. Init => StrangersInv
  BY DEF Init, StrangersInv
<1>2. IInv /\ PhaseInv /\ StrangersInv /\ [Next]_vars => StrangersInv'
  BY StrangersStep
<1> QED
  BY <1>1, <1>2, Inductive, PhaseInductive, PTL DEF Spec

LEMMA RawIsOverheard ==
  ASSUME TypeOK, Raw(socket)
  PROVE  Overhears
<1>1. socket # "none"
  BY DEF Raw
<1> QED
  BY <1>1 DEF TypeOK, Overhears

LEMMA OwnStep ==
  ASSUME IInv, PhaseInv, CountedInv, AgeInv, StrangersInv, GoodMeansOwnReply, [Next]_vars
  PROVE  GoodMeansOwnReply'
<1> DEFINE own(r) == r.kind = "Good" => r.age = 0 \/ (r.age = Stranger /\ Overhears)
           allOwn(q) == \A i \in 1 .. Len(q) : own(q[i])
           sent(r, s) == r.kind = "Good" => r.age = 0 \/ (r.age = Stranger /\ Raw(s))
<1>1. channel \in Seq(Results) /\ allOwn(channel) /\ TypeOK
  BY DEF IInv, TypeOK, GoodMeansOwnReply
<1>2. pc = "Send" => sent(result, socket)
  BY DEF GoodMeansOwnReply
<1>3. ASSUME pc' # "Send" \/ sent(result', socket'), allOwn(channel')
      PROVE  GoodMeansOwnReply'
  BY <1>3 DEF GoodMeansOwnReply
<1>4. CASE ReadReply
  <2>1. channel' = channel /\ socket' = socket /\ result' \in Measured(Head(inbox))
    BY <1>4 DEF ReadReply, chanVars
  <2>2. CASE Head(inbox) = Stranger
    <3>1. result'.kind = "Good" => result'.age = Stranger
      BY <2>1, <2>2 DEF Measured, Good, Failure
    <3>2. Raw(socket)
      <4>1. inbox \in Seq(Packets) /\ inbox # <<>>
        BY <1>1, <1>4 DEF TypeOK, ReadReply
      <4>2. Head(inbox) = inbox[1] /\ 1 \in 1 .. Len(inbox)
        BY <4>1
      <4> QED
        BY <2>2, <4>2 DEF StrangersInv
    <3> QED
      BY <1>1, <1>3, <2>1, <3>1, <3>2
  <2>3. CASE Head(inbox) # Stranger
    <3>1. result'.kind = "Good" => result'.age = 0
      BY <1>4, <2>1, <2>3, ReadIsYoung DEF Measured, Good, Failure
    <3> QED
      BY <1>1, <1>3, <2>1, <3>1
  <2> QED
    BY <2>2, <2>3
<1>5. CASE WriteFails \/ ReadTimeout \/ ReadFails \/ DnsFails
  <2>1. result'.kind # "Good" /\ channel' = channel
    BY <1>5 DEF WriteFails, ReadTimeout, ReadFails, DnsFails, Failure, chanVars
  <2> QED
    BY <1>1, <1>3, <2>1
<1>6. CASE SendBuffered
  <2>1. Sending /\ channel' = Append(channel, result) /\ pc' # "Send"
    BY <1>6 DEF SendBuffered, Sending, Sent
  <2>2. own(result)
    BY <1>1, <1>2, <2>1, RawIsOverheard DEF Sending, PhaseInv, Failure
  <2>3. allOwn(channel')
    <3>1. ASSUME NEW i \in 1 .. Len(channel') PROVE own(channel'[i])
      <4>1. \/ i \in 1 .. Len(channel) /\ channel'[i] = channel[i]
            \/ channel'[i] = result
        <5> HIDE DEF allOwn
        <5> QED
          BY <1>1, <2>1 DEF TypeOK
      <4> HIDE DEF own
      <4> QED
        BY <1>1, <2>2, <4>1
    <3> QED
      BY <3>1
  <2> QED
    BY <1>3, <2>1, <2>3
<1>7. CASE Receive
  <2>1. /\ channel # <<>> /\ channel' = Tail(channel)
        /\ pc' = pc /\ result' = result /\ socket' = socket
    BY <1>7 DEF Receive, netVars
  <2>2. allOwn(channel')
    <3> HIDE DEF own
    <3> QED
      BY <1>1, <2>1
  <2> QED
    BY <1>2, <1>3, <2>1, <2>2
<1>8. CASE pc' # "Send" /\ channel' = channel
  BY <1>1, <1>3, <1>8
<1>9. CASE UNCHANGED <<pc, result, channel, socket>>
  BY <1>1, <1>2, <1>3, <1>9
<1>10. \/ ReadReply \/ WriteFails \/ ReadTimeout \/ ReadFails \/ DnsFails
       \/ SendBuffered \/ Receive
       \/ pc' # "Send" /\ channel' = channel
       \/ UNCHANGED <<pc, result, channel, socket>>
  BY DEF Next, Loop, Client, Environment, Ended, DnsCached, DnsMiss, DnsQuery, DnsTick,
         ListenFails, ListenOn, WriteEcho, SendHandOff, Sending, Sent, CountDrop,
         WaitCancelled, WaitDefault, TakeTick, Exit, WaitSpeed, SendSpeed, StartReceive,
         SeesClose, CallLastIP, StartPing, GetLastIP, Cancel, TickerFires, Overhear, Deliver, Lose,
         netVars, chanVars, vars
<1> QED
  BY <1>4, <1>5, <1>6, <1>7, <1>8, <1>9, <1>10

(* A packet reported as good is never a reply to an earlier ping of this   *)
(* engine, although replies are told apart only by a number that wraps     *)
(* (pingOnChannel): with 2^16 of them, the drops that make an address      *)
(* stale, and the socket that is closed when every address is, bound how   *)
(* far behind a reply can be.  Nothing binds a stranger's on a raw socket. *)
THEOREM OwnReplyHolds ==
  ASSUME AnswersDistinct, NumbersSuffice PROVE Spec => []GoodMeansOwnReply
<1>1. Init => GoodMeansOwnReply
  <2>1. Init => pc = "Dns" /\ channel = <<>> /\ Len(channel) = 0
    BY DEF Init
  <2> QED
    BY <2>1 DEF GoodMeansOwnReply
<1>2. IInv /\ PhaseInv /\ CountedInv /\ AgeInv /\ StrangersInv /\ GoodMeansOwnReply
        /\ [Next]_vars => GoodMeansOwnReply'
  BY OwnStep
<1> QED
  BY <1>1, <1>2, Inductive, PhaseInductive, CountedInductive, AgeInductive,
     StrangersAreRaw, PTL DEF Spec

-----------------------------------------------------------------------------
(* The stream of results                                                   *)

(* The result of a ping, about to be sent, is one that the stream allows.  *)
LEMMA ResultIsOutcome ==
  ASSUME IInv, PhaseInv, GoodMeansOwnReply, pc = "Send"
  PROVE  result \in {Good(0)} \cup (IF Overhears THEN {Good(Stranger)} ELSE {})
           \cup {Failure(k) : k \in (DropReasons \cup {"InternalErr"}) \ {"DNSFailure"}}
<1>1. /\ result = [kind |-> result.kind, age |-> result.age]
      /\ result.kind \in DropReasons \cup {"Good", "InternalErr"}
  BY DEF IInv, TypeOK, Results
<1>2. CASE result.kind # "Good"
  <2>1. result.kind # "DNSFailure" /\ result.age = 0
    BY <1>2 DEF PhaseInv
  <2> QED
    BY <1>1, <1>2, <2>1 DEF Failure
<1>3. CASE result.kind = "Good"
  <2>1. result.age = 0 \/ (result.age = Stranger /\ Overhears)
    BY <1>3, RawIsOverheard DEF IInv, GoodMeansOwnReply
  <2> QED
    BY <1>1, <1>3, <2>1 DEF Good
<1> QED
  BY <1>2, <1>3

LEMMA StreamInit == ASSUME Init PROVE Stream!Init
BY DEF Init, Stream!Init

(* Every step of the engine is a step of the stream or leaves it alone.    *)
LEMMA StreamStep ==
  ASSUME IInv, PhaseInv, PhaseInv', GoodMeansOwnReply, [Next]_vars
  PROVE  [Stream!Next]_Stream!vars
<1> DEFINE started == pc \in {"Read", "Send"}
<1>1. ASSUME UNCHANGED <<channel, cancelled, closed>>, started' = started
      PROVE  UNCHANGED Stream!vars
  BY <1>1 DEF Stream!vars
<1>2. closed <=> pc = "Closed"
  BY DEF PhaseInv
<1>3. CASE WriteEcho \/ WriteFails
  <2>1. Stream!Start
    BY <1>2, <1>3 DEF WriteEcho, WriteFails, chanVars, Stream!Start
  <2> QED
    BY <2>1 DEF Stream!Next
<1>4. CASE SendBuffered \/ SendHandOff
  <2>1. /\ Sending /\ Sent /\ UNCHANGED <<closed, cancelled, result>>
        /\ Stream!Put(result)
    <3>1. CASE SendBuffered
      <4>1. ChanSize # 0
        BY <3>1, EngineAssumption DEF SendBuffered, IInv, TypeOK
      <4> QED
        BY <3>1, <4>1 DEF SendBuffered, Stream!Put
    <3>2. CASE SendHandOff
      BY <3>2 DEF SendHandOff, Stream!Put
    <3> QED
      BY <1>4, <3>1, <3>2
  <2>2. CASE pc = "Send"
    <3>1. Stream!Report(result)
      BY <1>2, <2>1, <2>2 DEF Sent, Stream!Report
    <3>2. Stream!Next
      BY <2>2, <3>1, ResultIsOutcome DEF Stream!Next
    <3> QED
      BY <3>2
  <2>3. CASE pc = "ReportDns"
    <3>1. Stream!Put(Failure("DNSFailure"))
      BY <2>1, <2>3 DEF PhaseInv
    <3>2. Stream!ReportUnresolved
      BY <1>2, <2>1, <2>3, <3>1 DEF Sent, Stream!ReportUnresolved
    <3> QED
      BY <3>2 DEF Stream!Next
  <2> QED
    BY <2>1, <2>2, <2>3 DEF Sending
<1>5. CASE Receive
  <2>1. Stream!Take
    BY <1>5 DEF Receive, Stream!Take
  <2> QED
    BY <2>1 DEF Stream!Next
<1>6. CASE Exit
  <2>1. Stream!Finish
    BY <1>2, <1>6 DEF Exit, PhaseInv, Stream!Finish
  <2> QED
    BY <2>1 DEF Stream!Next
<1>7. CASE Cancel
  <2>1. Stream!Cancel
    BY <1>7 DEF Cancel, chanVars, Stream!Cancel
  <2> QED
    BY <2>1 DEF Stream!Next
<1>8. CASE DnsCached \/ DnsMiss \/ DnsQuery \/ DnsFails \/ DnsTick \/ ListenFails
  BY <1>1, <1>8 DEF DnsCached, DnsMiss, DnsQuery, DnsFails, DnsTick, ListenFails, StartPing,
                    chanVars
<1>9. ASSUME NEW t \in SocketTypes, ListenOn(t) PROVE UNCHANGED Stream!vars
  BY <1>1, <1>9 DEF ListenOn, StartPing, chanVars
<1>10. CASE ReadReply \/ ReadTimeout \/ ReadFails \/ CountDrop \/ WaitCancelled
            \/ WaitDefault \/ TakeTick
  BY <1>1, <1>10 DEF ReadReply, ReadTimeout, ReadFails, CountDrop, WaitCancelled, WaitDefault,
                     TakeTick, chanVars
<1>11. ASSUME NEW s \in Speeds, WaitSpeed(s) \/ SendSpeed(s) PROVE UNCHANGED Stream!vars
  BY <1>1, <1>11 DEF WaitSpeed, SendSpeed, chanVars
<1>12. CASE StartReceive \/ SeesClose \/ CallLastIP \/ GetLastIP
  BY <1>1, <1>12 DEF StartReceive, SeesClose, CallLastIP, GetLastIP
<1>13. CASE TickerFires \/ Overhear \/ UNCHANGED vars
  BY <1>1, <1>13 DEF TickerFires, Overhear, chanVars, vars
<1>14. ASSUME NEW a \in wire, Deliver(a) \/ Lose(a) PROVE UNCHANGED Stream!vars
  BY <1>1, <1>14 DEF Deliver, Lose, chanVars
<1> QED
  BY <1>3, <1>4, <1>5, <1>6, <1>7, <1>8, <1>9, <1>10, <1>11, <1>12, <1>13, <1>14
     DEF Next, Loop, Client, Environment, Ended

(* The engine, with its cache, socket, retries and rate limiter hidden,    *)
(* implements PingStream: one ping one result, in order, and the channel   *)
(* closed once, after the context is done and with no ping unreported.     *)
THEOREM ImplementsStream ==
  ASSUME AnswersDistinct, NumbersSuffice PROVE Spec => KeepsStreamPromise
<1>1. Init => Stream!Init
  BY StreamInit
<1>2. IInv /\ PhaseInv /\ PhaseInv' /\ GoodMeansOwnReply /\ [Next]_vars
        => [Stream!Next]_Stream!vars
  BY StreamStep
<1> QED
  BY <1>1, <1>2, Inductive, PhaseInductive, OwnReplyHolds, PTL
     DEF Spec, KeepsStreamPromise, Stream!Spec

-----------------------------------------------------------------------------
(* The lag                                                                 *)

(* LagIsCounted with its two abbreviations.                                *)
Lag == Cardinality(wire) + Len(inbox)
LagInv == Running => Lag <= DropCount + Pending

LEMMA LagIs == LagInv <=> LagIsCounted
BY DEF LagInv, Lag, LagIsCounted, Running, Pending

LEMMA LagPrimed ==
  LagInv' <=> (Running' => Cardinality(wire') + Len(inbox') <= DropCount' + Pending')
BY DEF LagInv, Lag

LEMMA WireIsFinite ==
  ASSUME NEW w, w \subseteq 0 .. Lifetime
  PROVE  IsFiniteSet(w) /\ Cardinality(w) \in Nat
<1>1. Lifetime \in Nat
  BY EngineAssumption
<1>2. IsFiniteSet(0 .. Lifetime)
  BY <1>1, FS_Interval
<1>3. IsFiniteSet(w)
  BY <1>2, FS_Subset
<1> QED
  BY <1>3, FS_CardinalityType

(* A new ping adds at most its own request to those under way.             *)
LEMMA AgedIsNoMore ==
  ASSUME TypeOK
  PROVE  /\ Cardinality(Aged) <= Cardinality(wire)
         /\ Cardinality(Aged \cup {0}) <= Cardinality(wire) + 1
<1> DEFINE older == {w + 1 : w \in wire}
           f == [w \in wire |-> w + 1]
<1>1. wire \subseteq 0 .. Lifetime /\ IsFiniteSet(wire) /\ Cardinality(wire) \in Nat
  BY WireIsFinite DEF TypeOK
<1>2. f \in Surjection(wire, older)
  BY DEF Surjection
<1>3. IsFiniteSet(older) /\ Cardinality(older) <= Cardinality(wire)
  <2> HIDE DEF f, older
  <2> QED
    BY <1>1, <1>2, FS_Surjection
<1>4. Aged \in SUBSET older
  BY DEF Aged
<1>5. IsFiniteSet(Aged) /\ Cardinality(Aged) <= Cardinality(older)
  <2> HIDE DEF older
  <2> QED
    BY <1>3, <1>4, FS_Subset
<1>6. Cardinality(Aged) \in Nat /\ Cardinality(older) \in Nat
  <2> HIDE DEF older
  <2> QED
    BY <1>3, <1>5, FS_CardinalityType
<1>7. Cardinality(Aged \cup {0}) \in {Cardinality(Aged), Cardinality(Aged) + 1}
  BY <1>5, FS_AddElement
<1> HIDE DEF older
<1> QED
  BY <1>1, <1>3, <1>5, <1>6, <1>7

LEMMA LagNumbers ==
  ASSUME TypeOK
  PROVE  /\ Cardinality(wire) \in Nat /\ Len(inbox) \in Nat
         /\ DropCount \in Nat /\ Pending \in {0, 1}
<1>1. wire \subseteq 0 .. Lifetime /\ Len(inbox) \in Nat
  BY DEF TypeOK
<1>2. Cardinality(wire) \in Nat
  BY <1>1, WireIsFinite
<1> QED
  BY <1>1, <1>2, AgeNumbers

LEMMA LagInit == ASSUME Init PROVE LagInv
<1>1. TypeOK /\ wire = {} /\ inbox = <<>>
  BY InitIInv DEF IInv, Init
<1>2. Cardinality(wire) = 0 /\ Len(inbox) = 0
  BY <1>1, FS_EmptySet
<1>3. \A d \in Nat, p \in {0, 1} : 0 + 0 <= d + p
  OBVIOUS
<1>4. DropCount \in Nat /\ Pending \in {0, 1}
  BY <1>1, LagNumbers
<1> QED
  BY <1>2, <1>3, <1>4 DEF LagInv, Lag

(* A step of the network adds nothing to what is unread.                   *)
LEMMA NetworkLag ==
  ASSUME TypeOK, ~Duplicates, NEW a \in wire, Deliver(a) \/ Lose(a)
  PROVE  Cardinality(wire') + Len(inbox') <= Cardinality(wire) + Len(inbox)
<1>1. IsFiniteSet(wire) /\ Cardinality(wire) \in Nat /\ Len(inbox) \in Nat
      /\ inbox \in Seq(Packets)
  <2>1. wire \subseteq 0 .. Lifetime /\ Len(inbox) \in Nat /\ inbox \in Seq(Packets)
    BY DEF TypeOK
  <2> QED
    BY <2>1, WireIsFinite
<1>2. Cardinality(wire \ {a}) = Cardinality(wire) - 1
  BY <1>1, FS_RemoveElement
<1>3. wire' = wire \ {a}
  BY DEF Deliver, Lose
<1>4. Len(inbox') <= Len(inbox) + 1 /\ Len(inbox') \in Nat
  BY <1>1 DEF Deliver, Lose
<1> QED
  BY <1>1, <1>2, <1>3, <1>4

LEMMA LagStep ==
  ASSUME AnswersDistinct, ~Duplicates, \A t \in SocketTypes : ~Raw(t),
         IInv, TypeOK', PhaseInv, CountedInv, LagInv, [Next]_vars
  PROVE  LagInv'
<1> DEFINE lag == Cardinality(wire) + Len(inbox)
           left == Cardinality(wire') + Len(inbox')
<1>1. /\ TypeOK /\ Cardinality(wire) \in Nat /\ Len(inbox) \in Nat
      /\ DropCount \in Nat /\ Pending \in {0, 1} /\ inbox \in Seq(Packets)
  BY LagNumbers DEF IInv, TypeOK
<1>2. Running => lag <= DropCount + Pending
  BY DEF LagInv, Lag
<1>3. /\ Cardinality(wire') \in Nat /\ Len(inbox') \in Nat
      /\ Pending' \in {0, 1}
  <2>1. wire' \subseteq 0 .. Lifetime /\ Len(inbox') \in Nat
    BY DEF TypeOK
  <2>2. Cardinality(wire') \in Nat
    BY <2>1, WireIsFinite
  <2> QED
    BY <2>1, <2>2 DEF Pending
<1>4. ASSUME ~Running' PROVE LagInv'
  BY <1>4, LagPrimed
<1>5. ASSUME store' = store, left <= lag, Running' => Running,
             Running' /\ Unsettled => Unsettled'
      PROVE  LagInv'
  <2>1. DropCount' = DropCount /\ (Running' => Pending <= Pending')
    BY <1>5, DropCountIs DEF Pending
  <2>2. ASSUME Running' PROVE left <= DropCount + Pending'
    <3>1. lag <= DropCount + Pending /\ Pending <= Pending' /\ Pending' \in {0, 1}
      BY <1>2, <1>3, <1>5, <2>1, <2>2
    <3>2. \A p \in {0, 1} : Pending <= p => left <= DropCount + p
      BY <1>1, <1>3, <1>5, <3>1
    <3> QED
      BY <3>1, <3>2
  <2> QED
    BY <2>1, <2>2, LagPrimed
<1>6. CASE DnsCached
  <2>1. UNCHANGED <<store, inbox, wire>> /\ Running /\ ~Unsettled
    BY <1>6 DEF DnsCached, netVars, Running, Unsettled
  <2>2. left <= lag
    BY <1>1, <2>1
  <2> QED
    BY <1>5, <2>1, <2>2
<1>7. CASE DnsMiss \/ DnsFails \/ DnsQuery \/ DnsTick \/ ListenFails \/ Exit
  <2>1. ~Running'
    BY <1>7 DEF DnsMiss, DnsFails, DnsQuery, DnsTick, ListenFails, Exit, Running, Pinging
  <2> QED
    BY <1>4, <2>1
<1>8. ASSUME NEW t \in SocketTypes, ListenOn(t) PROVE LagInv'
  <2>1. CASE ~Running'
    BY <1>4, <2>1
  <2>2. CASE Running'
    <3>1. inbox' = <<>> /\ wire' = {}
      BY <1>8, <2>2, ListenEffect DEF ListenOn
    <3>2. Cardinality(wire') = 0 /\ Len(inbox') = 0
      BY <3>1, FS_EmptySet
    <3>3. DropCount' \in Nat /\ Pending' \in {0, 1}
      BY SumType, DropCountIs DEF TypeOK, Pending
    <3>4. \A d \in Nat, p \in {0, 1} : 0 + 0 <= d + p
      OBVIOUS
    <3> QED
      BY <3>2, <3>3, <3>4, LagPrimed
  <2> QED
    BY <2>1, <2>2
<1>9. CASE WriteEcho \/ WriteFails
  <2>1. /\ AgeInbox /\ store' = store /\ Running /\ ~Unsettled /\ Unsettled'
        /\ wire' \in {Aged, Aged \cup {0}}
    BY <1>9 DEF WriteEcho, WriteFails, cacheVars, Running, Pinging, Unsettled, Failure
  <2>2. Pending = 0 /\ Pending' = 1 /\ DropCount' = DropCount
    BY <2>1, DropCountIs DEF Pending
  <2>3. Cardinality(wire') <= Cardinality(wire) + 1
    <3>1. /\ Cardinality(Aged) <= Cardinality(wire)
          /\ Cardinality(Aged \cup {0}) <= Cardinality(wire) + 1
      BY <1>1, AgedIsNoMore
    <3>2. CASE wire' = Aged
      BY <1>1, <1>3, <3>1, <3>2
    <3>3. CASE wire' = Aged \cup {0}
      BY <3>1, <3>3
    <3> QED
      BY <2>1, <3>2, <3>3
  <2>4. Len(inbox') = Len(inbox)
    BY <1>1, <2>1 DEF AgeInbox
  <2>5. left <= DropCount + 1
    BY <1>1, <1>2, <1>3, <2>1, <2>2, <2>3, <2>4
  <2> QED
    BY <2>2, <2>5, LagPrimed
<1>10. CASE ReadReply
  <2>1. /\ inbox # <<>> /\ inbox' = Tail(inbox) /\ store' = store /\ wire' = wire
        /\ Running /\ Unsettled
    BY <1>10 DEF ReadReply, cacheVars, Running, Pinging, Unsettled
  <2>2. Pending = 1 /\ Pending' \in {0, 1} /\ DropCount' = DropCount
    BY <2>1, DropCountIs DEF Pending
  <2>3. Len(inbox') = Len(inbox) - 1
    BY <1>1, <2>1
  <2>4. \A p \in {0, 1} : left <= DropCount + p
    BY <1>1, <1>2, <2>1, <2>2, <2>3
  <2> QED
    BY <2>2, <2>4, LagPrimed
<1>11. CASE ReadTimeout \/ ReadFails
  <2>1. UNCHANGED <<store, inbox, wire>> /\ Running /\ Unsettled'
    BY <1>11 DEF ReadTimeout, ReadFails, cacheVars, netVars, Running, Pinging, Unsettled,
                 Failure
  <2>2. left <= lag
    BY <1>1, <2>1
  <2> QED
    BY <1>5, <2>1, <2>2
<1>12. CASE SendBuffered \/ SendHandOff
  <2>1. Sending /\ Sent /\ UNCHANGED <<store, inbox, wire, result>>
    BY <1>12 DEF SendBuffered, SendHandOff, cacheVars, netVars
  <2>2. CASE pc = "ReportDns"
    <3>1. ~Running'
      BY <2>1, <2>2 DEF Sent, Running, Pinging
    <3> QED
      BY <1>4, <3>1
  <2>3. CASE pc = "Send"
    <3>1. Running /\ (Unsettled => Unsettled')
      BY <2>1, <2>3 DEF Sent, Running, Pinging, Unsettled
    <3>2. left <= lag
      BY <1>1, <2>1
    <3> QED
      BY <1>5, <2>1, <3>1, <3>2
  <2> QED
    BY <2>1, <2>2, <2>3 DEF Sending
<1>13. CASE CountDrop
  <2>1. /\ store \in Seq(Entry) /\ index + 1 \in 1 .. Len(store)
        /\ store' \in Seq(Entry) /\ Len(store') = Len(store)
        /\ \A j \in 1 .. Len(store) : j # index + 1 => store'[j] = store[j]
        /\ store'[index + 1].drops = store[index + 1].drops + 1
        /\ pc' = "Waiting"
    BY <1>13, CountDropEffect
  <2>2. /\ Running /\ Unsettled /\ ~Unsettled' /\ UNCHANGED <<inbox, wire>>
    BY <1>13, <2>1 DEF CountDrop, netVars, Running, Pinging, Unsettled
  <2>3. DropCount' = DropCount + 1
    BY <2>1, SumOfDropped, DropCountIs
  <2>4. Pending = 1 /\ Pending' = 0
    BY <2>2 DEF Pending
  <2>5. left <= (DropCount + 1) + 0
    BY <1>1, <1>2, <2>2, <2>4
  <2> QED
    BY <2>3, <2>4, <2>5, LagPrimed
<1>14. CASE WaitCancelled \/ WaitDefault \/ TakeTick
  <2>1. UNCHANGED <<store, inbox, wire>> /\ Running /\ ~Unsettled
    BY <1>14 DEF WaitCancelled, WaitDefault, TakeTick, cacheVars, netVars, Running, Unsettled
  <2>2. left <= lag
    BY <1>1, <2>1
  <2> QED
    BY <1>5, <2>1, <2>2
<1>15. ASSUME UNCHANGED <<store, inbox, wire, pc, result>> PROVE LagInv'
  <2>1. left <= lag
    BY <1>1, <1>15
  <2> QED
    BY <1>5, <1>15, <2>1 DEF Running, Pinging, Unsettled
<1>16. ASSUME NEW s \in Speeds, WaitSpeed(s) \/ SendSpeed(s) PROVE LagInv'
  BY <1>15, <1>16 DEF WaitSpeed, SendSpeed, cacheVars, netVars
<1>17. CASE Client \/ Cancel \/ TickerFires \/ UNCHANGED vars
  BY <1>15, <1>17 DEF Client, Receive, StartReceive, SeesClose, CallLastIP, GetLastIP,
                      Cancel, TickerFires, vars, cacheVars, netVars
<1>19. CASE Overhear
  BY <1>1, <1>19, RawIsOverheard DEF Overhear, Overhears
<1>18. ASSUME NEW a \in wire, Deliver(a) \/ Lose(a) PROVE LagInv'
  <2>1. UNCHANGED <<store, pc, result>>
    BY <1>18 DEF Deliver, Lose, cacheVars
  <2>2. left <= lag
    BY <1>1, <1>18, NetworkLag
  <2> QED
    BY <1>5, <2>1, <2>2 DEF Running, Pinging, Unsettled
<1> QED
  BY <1>6, <1>7, <1>8, <1>9, <1>10, <1>11, <1>12, <1>13, <1>14, <1>16, <1>17, <1>18,
     <1>19 DEF Next, Loop, Environment, Ended

(* On unprivileged sockets and a network that duplicates nothing, the      *)
(* replies nobody has read are never more than the drops counted since the *)
(* socket was opened: a late reply is always paid for by a drop.           *)
THEOREM LagIsCountedHolds ==
  ASSUME AnswersDistinct, ~Duplicates, \A t \in SocketTypes : ~Raw(t)
  PROVE  Spec => []LagIsCounted
<1>1. Init => LagInv
  BY LagInit
<1>2. IInv /\ IInv' /\ PhaseInv /\ CountedInv /\ LagInv /\ [Next]_vars => LagInv'
  BY LagStep DEF IInv
<1>3. LagInv => LagIsCounted
  BY LagIs
<1> QED
  BY <1>1, <1>2, <1>3, Inductive, PhaseInductive, CountedInductive, PTL DEF Spec
=============================================================================
