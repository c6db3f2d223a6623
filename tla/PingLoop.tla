------------------------------ MODULE PingLoop ------------------------------
(***************************************************************************)
(* The ping engine of ping/: the goroutine started by startChannel, with   *)
(* dnsRetry and pingOnChannel inlined, its rate limiter, its socket, the   *)
(* cache of addresses it shares with LastIP under a mutex, and the client  *)
(* that reads the result channel.  The resolver, the network and the       *)
(* cancellation of the context are the environment.                        *)
(*                                                                         *)
(* Sequence numbers.  A reply carries the sequence number of its request.  *)
(* Requests are numbered by a counter that wraps at SeqSpace, so only the  *)
(* age of a reply matters: how many pings were started after the one it    *)
(* answers.  The reply carries the current number iff its age is a         *)
(* multiple of SeqSpace, and answers the current request iff it is 0.      *)
(* Durations are in units of the 250ms that one Speed message changes.     *)
(***************************************************************************)
EXTENDS QueryCache, Integers, FiniteSets

CONSTANTS
  Answers,       (* what LookupIP may return: by family, in order          *)
  SocketTypes,   (* the networks of listenList this host can listen on     *)
  DeadAddrs,     (* addresses that never answer                            *)
  SeqSpace,      (* 2^16 in the code: seq is a uint16                      *)
  Lifetime,      (* pings after which the network has forgotten a request  *)
  InboxCap,      (* replies the socket's receive buffer holds              *)
  Duplicates,    (* whether the network may deliver a reply twice          *)
  ChanSize,      (* capacity of the client's channel                       *)
  AsksLastIP,    (* whether the client calls LastIP                        *)
  InitialGap,    (* time between pings at the start, 0: no limit           *)
  Speeds,        (* the Speed messages that may be sent                    *)
  MaxPending,    (* bound: Speed messages not yet received                 *)
  MaxGap         (* bound: the slowest rate                                *)

AllSocketTypes == {"udp4", "udp6", "ip4", "ip6"}
SocketFamily == [t \in AllSocketTypes |-> IF t \in {"udp4", "ip4"} THEN "v4" ELSE "v6"]

(* An unprivileged ICMP socket receives only the replies to its own        *)
(* requests; a raw one receives every ICMP packet of its family, those of  *)
(* other processes' pings included: a stranger, in place of an age.        *)
Raw(t) == t \in {"ip4", "ip6"}
Stranger == -1
Packets == Nat \cup {Stranger}
Overhears == \E t \in SocketTypes : Raw(t)

ASSUME EngineAssumption ==
  /\ Answers \subseteq [Families -> Seq(Addrs)]
  /\ \A ans \in Answers : \A f \in Families : \A i \in 1 .. Len(ans[f]) :
       Family[ans[f][i]] = f
  /\ SocketTypes \subseteq AllSocketTypes /\ SocketTypes # {}
  /\ DeadAddrs \subseteq Addrs
  /\ SeqSpace \in Nat \ {0} /\ Lifetime \in Nat /\ InboxCap \in Nat
  /\ Duplicates \in BOOLEAN /\ AsksLastIP \in BOOLEAN
  /\ ChanSize \in Nat /\ MaxPending \in Nat /\ MaxGap \in Nat
  /\ InitialGap \in 0 .. MaxGap
  /\ Speeds \subseteq {"Faster", "Slower", "Fastest"}

VARIABLES
  pc,        (* where the goroutine of startChannel is                     *)
  store,     (* p.addresses.store                                          *)
  index,     (* p.addresses.index                                          *)
  answer,    (* the last answer of the resolver                            *)
  socket,    (* p.addrType of the open p.connect, or "none"                *)
  ip,        (* the address being pinged                                   *)
  wire,      (* ages of the requests whose reply may still arrive          *)
  inbox,     (* ages of the replies waiting in the socket, and strangers,  *)
             (* oldest first                                               *)
  result,    (* the PingResults about to be sent                           *)
  channel,   (* contents of the client channel                             *)
  closed,    (* whether the client channel has been closed                 *)
  client,    (* what the client is doing                                   *)
  cancelled, (* ctx.Done()                                                 *)
  gap,       (* period of the ticker, 0 when rateLimit is nil              *)
  rateTime,  (* p.ratelimitTime                                            *)
  tick,      (* whether rateLimit.C holds a tick                           *)
  speeds     (* Speed messages waiting on the speed channel                *)

cacheVars == <<store, index, answer>>
netVars   == <<socket, wire, inbox>>
rateVars  == <<gap, rateTime, tick, speeds>>
chanVars  == <<channel, closed, client>>
vars == <<pc, cacheVars, netVars, ip, result, chanVars, cancelled, rateVars>>

(* The places where dnsRetry holds p.addresses.m.                          *)
InDnsRetry == {"Query", "ReportDns", "DnsTick", "Listen"}
Locked == pc \in InDnsRetry

Steps == InDnsRetry \cup
  {"Dns", "Write", "Read", "Send", "Drop", "Waiting", "Tick", "Exit", "Closed", "Panic"}

(* A result is what its DropReason and InternalErr tell a client apart.    *)
(* For a good packet, age says which request the measured reply answered,  *)
(* if any request of this engine.                                          *)
Good(age)   == [kind |-> "Good", age |-> age]
Failure(k)  == [kind |-> k, age |-> 0]
DropReasons == {"Timeout", "DNSFailure", "BadResponse"}
Results == [kind: DropReasons \cup {"Good", "InternalErr"}, age: Packets]
NoResult == Failure("InternalErr")

All(ans) == FreshStore(ans["v4"] \o ans["v6"])

(* Mutants: the addresses of the other family are not filtered out; they   *)
(* are the ones kept.                                                      *)
AllFamilies(ans, t) == All(ans)
OtherFamily(ans, t) == FreshStore(ans[IF SocketFamily[t] = "v4" THEN "v6" ELSE "v4"])
Suited(ans, t) == FreshStore(ans[SocketFamily[t]])
Some(ans) == ans["v4"] \o ans["v6"] # <<>>
NoAnswer == [f \in Families |-> <<>>]

-----------------------------------------------------------------------------
(* CreateFlexibleChannel: the socket is open, and the first query, limited *)
(* to the family of the socket, has either filled the cache or failed.     *)
Init ==
  /\ pc = "Dns"
  /\ socket \in SocketTypes
  /\ \/ store = <<>>
     \/ \E ans \in Answers : store = Suited(ans, socket)
  /\ index = 0
  /\ answer = NoAnswer
  /\ ip = NoAddr
  /\ wire = {} /\ inbox = <<>>
  /\ result = NoResult
  /\ channel = <<>> /\ closed = FALSE
  /\ client = IF AsksLastIP THEN "AskIP" ELSE "Recv"
  /\ cancelled = FALSE
  /\ gap = InitialGap /\ rateTime = InitialGap
  /\ tick = FALSE
  /\ speeds = [s \in Speeds |-> 0]

-----------------------------------------------------------------------------
(* The goroutine of startChannel.                                          *)

(* The check of ctx that run makes when dnsRetry has returned.             *)
StartPing == pc' = IF cancelled THEN "Exit" ELSE "Write"

(* dnsRetry: the fast path, the cache has an address.                      *)
DnsCached ==
  /\ pc = "Dns" /\ HasLive(store)
  /\ index' = LiveIndex(store, index)
  /\ ip' = store[index' + 1].addr
  /\ StartPing
  /\ UNCHANGED <<store, answer, netVars, result, chanVars, cancelled, rateVars>>

(* dnsRetry: nothing usable in the cache, so the mutex stays locked from   *)
(* here until an address is found or ctx is seen to be done.               *)
DnsMiss ==
  /\ pc = "Dns" /\ ~HasLive(store)
  /\ pc' = "Query"
  /\ UNCHANGED <<cacheVars, netVars, ip, result, chanVars, cancelled, rateVars>>

(* _DNSQuery for any family succeeds; then closer() closes the socket, and *)
(* with it go the replies nobody read.                                     *)
DnsQuery ==
  /\ pc = "Query"
  /\ \E ans \in Answers :
       /\ Some(ans)
       /\ store' = All(ans)
       /\ answer' = ans
  /\ index' = 0
  /\ socket' = "none" /\ inbox' = <<>>
  /\ pc' = "Listen"
  /\ UNCHANGED <<ip, wire, result, chanVars, cancelled, rateVars>>

DnsFails ==
  /\ pc = "Query"
  /\ result' = Failure("DNSFailure")
  /\ pc' = "ReportDns"
  /\ UNCHANGED <<cacheVars, netVars, ip, chanVars, cancelled, rateVars>>

(* Mutant: ctx is not looked at between two rounds.                        *)
DnsTickIgnoresCtx ==
  /\ pc = "DnsTick"
  /\ gap # 0 => tick
  /\ tick' = FALSE
  /\ store' = Clear(store)
  /\ pc' = "Query"
  /\ UNCHANGED <<index, answer, netVars, ip, result, chanVars, cancelled,
                 gap, rateTime, speeds>>

(* The rest of a failed round: wait for the rate limiter, zero the store,  *)
(* and give up if ctx is done.                                             *)
DnsTick ==
  /\ pc = "DnsTick"
  /\ gap # 0 => tick
  /\ tick' = FALSE
  /\ store' = Clear(store)
  /\ pc' = IF cancelled THEN "Exit" ELSE "Query"
  /\ UNCHANGED <<index, answer, netVars, ip, result, chanVars, cancelled,
                 gap, rateTime, speeds>>

(* startListening fails: give up if ctx is done, else query again.         *)
ListenFails ==
  /\ pc = "Listen"
  /\ pc' = IF cancelled THEN "Exit" ELSE "Query"
  /\ answer' = NoAnswer
  /\ UNCHANGED <<store, index, netVars, ip, result, chanVars, cancelled, rateVars>>

(* startListening succeeds: socketedLockFree keeps the addresses of the    *)
(* family of the new socket, and panics when there is none.                *)
ListenOn(t) ==
  /\ pc = "Listen"
  /\ socket' = t
  /\ wire' = IF Raw(t) THEN wire ELSE {}
  /\ answer' = NoAnswer
  /\ IF Suited(answer, t) = <<>>
     THEN /\ pc' = "Panic"
          /\ UNCHANGED <<store, index, ip>>
     ELSE /\ store' = Suited(answer, t)
          /\ index' = LiveIndex(store', index)
          /\ ip' = store'[index' + 1].addr
          /\ StartPing
  /\ UNCHANGED <<inbox, result, chanVars, cancelled, rateVars>>

(* A new ping is started: every earlier request is one ping older, and the *)
(* network has forgotten the ones past their lifetime.                     *)
Aged == {a \in {w + 1 : w \in wire} : a <= Lifetime}
Older(a) == IF a = Stranger THEN Stranger ELSE a + 1
AgeInbox == inbox' = [i \in 1 .. Len(inbox) |-> Older(inbox[i])]

WriteEcho ==
  /\ pc = "Write"
  /\ wire' = IF ip \in DeadAddrs THEN Aged ELSE Aged \cup {0}
  /\ AgeInbox
  /\ pc' = "Read"
  /\ UNCHANGED <<cacheVars, socket, ip, result, chanVars, cancelled, rateVars>>

WriteFails ==
  /\ pc = "Write"
  /\ wire' = Aged
  /\ AgeInbox
  /\ result' = Failure("InternalErr")
  /\ pc' = "Send"
  /\ UNCHANGED <<cacheVars, socket, ip, chanVars, cancelled, rateVars>>

(* Mutant: the sequence number of the reply is not compared.               *)
ReadAnyReply ==
  /\ pc = "Read" /\ inbox # <<>>
  /\ inbox' = Tail(inbox)
  /\ result' = Good(Head(inbox))
  /\ pc' = "Send"
  /\ UNCHANGED <<cacheVars, socket, wire, ip, chanVars, cancelled, rateVars>>

(* What a packet is reported as: it is measured as the answer iff it is an *)
(* echo reply with the sequence number of this ping.  Neither its ID nor   *)
(* its source is looked at, so that a stranger may be; or it may have      *)
(* another number, not be a reply, or not be an echo at all.               *)
Measured(a) ==
  IF a = Stranger
  THEN {Good(Stranger), Failure("BadResponse"), Failure("InternalErr")}
  ELSE {IF a % SeqSpace = 0 THEN Good(a) ELSE Failure("BadResponse")}

(* pingRead returns the oldest packet in the socket.                       *)
ReadReply ==
  /\ pc = "Read" /\ inbox # <<>>
  /\ inbox' = Tail(inbox)
  /\ result' \in Measured(Head(inbox))
  /\ pc' = "Send"
  /\ UNCHANGED <<cacheVars, socket, wire, ip, chanVars, cancelled, rateVars>>

(* Mutant: a timeout is counted but never reported.                        *)
ReadTimeoutUnreported ==
  /\ pc = "Read"
  /\ pc' = "Drop"
  /\ UNCHANGED <<cacheVars, netVars, ip, result, chanVars, cancelled, rateVars>>

(* The deadline expires, or is collapsed because ctx is done.  A reply may *)
(* be in the socket by then: the deadline is looked at first.              *)
ReadTimeout ==
  /\ pc = "Read"
  /\ result' = Failure(IF cancelled THEN "InternalErr" ELSE "Timeout")
  /\ pc' = "Send"
  /\ UNCHANGED <<cacheVars, netVars, ip, chanVars, cancelled, rateVars>>

(* The socket fails instead.                                               *)
ReadFails ==
  /\ pc = "Read"
  /\ result' = Failure("InternalErr")
  /\ pc' = "Send"
  /\ UNCHANGED <<cacheVars, netVars, ip, chanVars, cancelled, rateVars>>

(* What the client does when it has read a result: a client that does not  *)
(* ask for LastIP goes straight back to the channel.                       *)
AfterRead == IF AsksLastIP THEN "Free" ELSE "Recv"

(* A completed send on the client channel.  Neither send watches ctx.      *)
Sending == pc \in {"ReportDns", "Send"}
Sent ==
  pc' = IF pc = "ReportDns" THEN "DnsTick"
        ELSE IF result.kind = "Good" THEN "Waiting" ELSE "Drop"

SendBuffered ==
  /\ Sending /\ Len(channel) < ChanSize
  /\ channel' = Append(channel, result)
  /\ Sent
  /\ UNCHANGED <<cacheVars, netVars, ip, result, closed, client, cancelled, rateVars>>

(* An unbuffered channel: sender and receiver meet.                        *)
SendHandOff ==
  /\ Sending /\ ChanSize = 0 /\ client = "Recv"
  /\ Sent
  /\ client' = AfterRead
  /\ UNCHANGED <<cacheVars, netVars, ip, result, channel, closed, cancelled, rateVars>>

(* p.addresses.Dropped(ip), which panics on an address it does not hold.   *)
CountDrop ==
  /\ pc = "Drop"
  /\ IF Holds(store, ip)
     THEN /\ store' = MarkDropped(store, index, ip)
          /\ pc' = "Waiting"
     ELSE /\ pc' = "Panic"
          /\ UNCHANGED store
  /\ UNCHANGED <<index, answer, netVars, ip, result, chanVars, cancelled, rateVars>>

(* WAITING: a cancelled context and a Speed message are taken in any order *)
(* when both are there; the default branch runs only when neither is.      *)
WaitCancelled ==
  /\ pc = "Waiting" /\ cancelled
  /\ pc' = "Exit"
  /\ UNCHANGED <<cacheVars, netVars, ip, result, chanVars, cancelled, rateVars>>

(* Speed.Delta *)
Delta(s, d) ==
  CASE s = "Faster"  -> d - 1
    [] s = "Slower"  -> d + 1
    [] s = "Fastest" -> 0

(* Mutants: the period is not checked to be positive; the new period is    *)
(* not remembered for the next Speed message.                              *)
RateUnchecked(d) == gap' = d /\ rateTime' = d /\ tick' = FALSE

RateForgotten(d) ==
  /\ gap' = IF d > 0 THEN d ELSE 0
  /\ tick' = FALSE
  /\ UNCHANGED rateTime

(* The ticker is replaced by one of the new period.  A period that is not  *)
(* positive means no ticker, and leaves p.ratelimitTime as it was.         *)
BuildRateLimiting(d) ==
  /\ gap' = IF d > 0 THEN d ELSE 0
  /\ rateTime' = IF d > 0 THEN d ELSE rateTime
  /\ tick' = FALSE

WaitSpeed(s) ==
  /\ pc = "Waiting" /\ speeds[s] > 0
  /\ speeds' = [speeds EXCEPT ![s] = @ - 1]
  /\ BuildRateLimiting(Delta(s, rateTime))
  /\ UNCHANGED <<pc, cacheVars, netVars, ip, result, chanVars, cancelled>>

WaitDefault ==
  /\ pc = "Waiting" /\ ~cancelled /\ \A s \in Speeds : speeds[s] = 0
  /\ pc' = IF gap = 0 THEN "Dns" ELSE "Tick"
  /\ UNCHANGED <<cacheVars, netVars, ip, result, chanVars, cancelled, rateVars>>

(* Blocked on rateLimit.C: neither ctx nor the speed channel is watched.   *)
TakeTick ==
  /\ pc = "Tick" /\ tick
  /\ tick' = FALSE
  /\ pc' = "Dns"
  /\ UNCHANGED <<cacheVars, netVars, ip, result, chanVars, cancelled,
                 gap, rateTime, speeds>>

(* The deferred calls: the closers, then close(client).                    *)
Exit ==
  /\ pc = "Exit"
  /\ socket' = "none" /\ inbox' = <<>>
  /\ closed' = TRUE
  /\ pc' = "Closed"
  /\ UNCHANGED <<cacheVars, wire, ip, result, channel, client, cancelled, rateVars>>

-----------------------------------------------------------------------------
(* The client: one goroutine that reads the channel and, when AsksLastIP,  *)
(* calls LastIP first (RunPing) and any number of times between two reads. *)
Receive ==
  /\ client = "Recv" /\ channel # <<>>
  /\ channel' = Tail(channel)
  /\ client' = AfterRead
  /\ UNCHANGED <<pc, cacheVars, netVars, ip, result, closed, cancelled, rateVars>>

StartReceive ==
  /\ client = "Free"
  /\ client' = "Recv"
  /\ UNCHANGED <<pc, cacheVars, netVars, ip, result, channel, closed, cancelled, rateVars>>

SeesClose ==
  /\ client = "Recv" /\ channel = <<>> /\ closed
  /\ client' = "Done"
  /\ UNCHANGED <<pc, cacheVars, netVars, ip, result, channel, closed, cancelled, rateVars>>

CallLastIP ==
  /\ AsksLastIP /\ client \in {"Free", "Done"}
  /\ client' = "AskIP"
  /\ UNCHANGED <<pc, cacheVars, netVars, ip, result, channel, closed, cancelled, rateVars>>

(* GetLastIP formats the entry at the index: a zeroed entry is a nil       *)
(* pointer dereference.                                                    *)
GetLastIP ==
  /\ client = "AskIP" /\ ~Locked
  /\ client' = IF store # <<>> /\ store[index + 1].addr = NoAddr
               THEN "Panic" ELSE "Free"
  /\ UNCHANGED <<pc, cacheVars, netVars, ip, result, channel, closed, cancelled, rateVars>>

-----------------------------------------------------------------------------
(* The environment.                                                        *)

Cancel ==
  /\ ~cancelled
  /\ cancelled' = TRUE
  /\ UNCHANGED <<pc, cacheVars, netVars, ip, result, chanVars, rateVars>>

(* A key press of the user, or a library client: somebody sends a Speed.   *)
SendSpeed(s) ==
  /\ \A t \in Speeds : speeds[t] < MaxPending
  /\ s = "Slower" => rateTime + speeds[s] < MaxGap
  /\ speeds' = [speeds EXCEPT ![s] = @ + 1]
  /\ UNCHANGED <<pc, cacheVars, netVars, ip, result, chanVars, cancelled, gap, rateTime, tick>>

(* A ticker drops the tick when the last one was not taken.                *)
TickerFires ==
  /\ gap # 0 /\ ~tick
  /\ tick' = TRUE
  /\ UNCHANGED <<pc, cacheVars, netVars, ip, result, chanVars, cancelled, gap, rateTime, speeds>>

(* Replies arrive late, in any order, twice, or never.                     *)
Deliver(a) ==
  /\ socket # "none" /\ Len(inbox) < InboxCap
  /\ inbox' = Append(inbox, a)
  /\ \/ wire' = wire \ {a}
     \/ Duplicates /\ wire' = wire
  /\ UNCHANGED <<pc, cacheVars, socket, ip, result, chanVars, cancelled, rateVars>>

(* A packet for somebody else on this host.                                *)
Overhear ==
  /\ socket # "none" /\ Raw(socket) /\ Len(inbox) < InboxCap
  /\ inbox' = Append(inbox, Stranger)
  /\ UNCHANGED <<pc, cacheVars, socket, wire, ip, result, chanVars, cancelled, rateVars>>

Lose(a) ==
  /\ wire' = wire \ {a}
  /\ UNCHANGED <<pc, cacheVars, socket, inbox, ip, result, chanVars, cancelled, rateVars>>

-----------------------------------------------------------------------------
Loop ==
  \/ DnsCached \/ DnsMiss \/ DnsQuery \/ DnsFails \/ DnsTick
  \/ ListenFails \/ \E t \in SocketTypes : ListenOn(t)
  \/ WriteEcho \/ WriteFails
  \/ ReadReply \/ ReadTimeout \/ ReadFails
  \/ SendBuffered \/ SendHandOff \/ CountDrop
  \/ WaitDefault \/ TakeTick \/ Exit

Client == Receive \/ StartReceive \/ SeesClose \/ CallLastIP \/ GetLastIP

Environment ==
  \/ Cancel \/ TickerFires \/ Overhear
  \/ \E s \in Speeds : SendSpeed(s)
  \/ \E a \in wire : Deliver(a) \/ Lose(a)

(* Everything has ended: the goroutine is gone and the client saw the      *)
(* close, or a panic has taken the program with it.                        *)
Ended == ((pc = "Closed" /\ client = "Done") \/ pc = "Panic") /\ UNCHANGED vars

Next ==
  \/ Loop \/ WaitCancelled \/ \E s \in Speeds : WaitSpeed(s)
  \/ Client \/ Environment \/ Ended

(* The goroutine runs, its select does not pass over a ready case for      *)
(* ever, the client comes back to the channel however often it asks for    *)
(* LastIP, and a ticker ticks.                                             *)
Fairness ==
  /\ WF_vars(Loop)
  /\ WF_vars(WaitCancelled)
  /\ \A s \in Speeds : WF_vars(WaitSpeed(s))
  /\ WF_vars(Receive) /\ SF_vars(StartReceive) /\ WF_vars(SeesClose) /\ WF_vars(GetLastIP)
  /\ WF_vars(TickerFires)

Spec == Init /\ [][Next]_vars /\ Fairness

-----------------------------------------------------------------------------
(* What the environment may be relied on for; the theorems that need one   *)
(* of these name it.                                                       *)

(* The resolver names no address twice.                                    *)
AnswersDistinct ==
  \A ans \in Answers, f \in Families : \A i, j \in 1 .. Len(ans[f]) :
    ans[f][i] = ans[f][j] => i = j

(* There are more sequence numbers than pings between a request and the    *)
(* reading of its reply: those the network keeps it for, those that read   *)
(* what is before it in the socket, and those that drop a packet and read  *)
(* nothing, of which the cache allows MaxDrops + 2 for an address.         *)
NumbersSuffice ==
  \A ans \in Answers, f \in Families :
    Lifetime + InboxCap + (MaxDrops + 2) * Len(ans[f]) <= SeqSpace

-----------------------------------------------------------------------------
(* Properties                                                              *)

(* The variables have their types: the cache of ping/dns.go:28, the state  *)
(* of startChannel and of its channels (api_implementation.go:29).         *)
TypeOK ==
  /\ pc \in Steps
  /\ store \in Seq(Entry) /\ index \in Nat
  /\ answer \in [Families -> Seq(Addrs)]
  /\ socket \in SocketTypes \cup {"none"}
  /\ ip \in Addrs \cup {NoAddr}
  /\ wire \subseteq 0 .. Lifetime /\ inbox \in Seq(Packets)
  /\ result \in Results
  /\ channel \in Seq(Results) /\ Len(channel) <= ChanSize
  /\ closed \in BOOLEAN /\ cancelled \in BOOLEAN
  /\ client \in {"AskIP", "Free", "Recv", "Done", "Panic"}
  /\ gap \in Nat /\ rateTime \in Nat /\ tick \in BOOLEAN
  /\ speeds \in [Speeds -> Nat]

(* A ping is in progress, from the choice of its address to the count of   *)
(* its drop.                                                               *)
Pinging == pc \in {"Write", "Read", "Send", "Drop"}

(* The mutex is free during a ping, yet the entry the ping was chosen from *)
(* stays what it was: the index still points at the address being pinged,  *)
(* the address has not gone stale, and it is of the family the socket can  *)
(* send to (dnsRetry, then pingOnChannel and Dropped, with the store       *)
(* rebuilt, zeroed and re-indexed in between two pings).                   *)
PingsUsableAddress ==
  Pinging =>
    /\ index < Len(store)
    /\ store[index + 1].addr = ip /\ ip \in Addrs
    /\ ~store[index + 1].stale
    /\ socket # "none" /\ Family[ip] = SocketFamily[socket]

(* Of the checks of the cache only socketedLockFree's can fail, and only   *)
(* as its comment says: when the socket that could be opened is of a       *)
(* family the resolver's answer has no address of.  A drop is never one of *)
(* an address the store does not hold ("Unknown IP"), although the mutex   *)
(* was free since the address was chosen (dns.go:61, 99-104).              *)
PanicsAsAnnounced ==
  [][pc' = "Panic" =>
       pc = "Panic" \/ (pc = "Listen" /\ answer[SocketFamily[socket']] = <<>>)]_vars

(* A packet reported as good is a reply to that very ping, not to an       *)
(* earlier one that timed out, although replies are told apart only by a   *)
(* sequence number that wraps; on a raw socket, where nothing else is      *)
(* compared, it may be a stranger's (pingOnChannel).                       *)
GoodMeansOwnReply ==
  /\ pc = "Send" /\ result.kind = "Good" =>
       result.age = 0 \/ (result.age = Stranger /\ Raw(socket))
  /\ \A i \in 1 .. Len(channel) : channel[i].kind = "Good" =>
       channel[i].age = 0 \/ (channel[i].age = Stranger /\ Overhears)

DropCount ==
  LET upTo[n \in 0 .. Len(store)] ==
        IF n = 0 THEN 0 ELSE upTo[n - 1] + store[n].drops
  IN  upTo[Len(store)]

(* The request of the current ping is on its way or its reply unread.      *)
Unsettled == pc \in {"Read", "Drop"} \/ (pc = "Send" /\ result.kind # "Good")

(* Where there are no strangers, the replies nobody has read yet are no    *)
(* more than the drops the cache has counted since the socket was opened:  *)
(* a late reply, which makes the pings after it read each other's replies, *)
(* is paid for by a drop, so the lag ends when the addresses are stale and *)
(* the socket is reopened.                                                 *)
LagIsCounted ==
  Pinging \/ pc \in {"Dns", "Waiting", "Tick"} =>
    Cardinality(wire) + Len(inbox) <= DropCount + (IF Unsettled THEN 1 ELSE 0)

(* The resolver is asked again only when every address of the store has    *)
(* dropped more packets than the maxDrops it is allowed (dns.go:154-157):  *)
(* none is given up earlier, for what other addresses dropped or because   *)
(* the store was rebuilt or indexed anew.                                  *)
QueriesOnlyWhenExhausted ==
  [][pc = "Dns" /\ pc' = "Query" =>
       \A i \in 1 .. Len(store) : store[i].drops > MaxDrops]_vars

(* While no address is missing, Faster never slows the pings down and      *)
(* Slower never speeds them up, whatever p.ratelimitTime remembers of an   *)
(* earlier rate (gap 0 is no limit at all).                                *)
SpeedChangesGoTheirWay ==
  [][/\ speeds'["Faster"] < speeds["Faster"] => gap' <= gap
     /\ speeds'["Slower"] < speeds["Slower"] => gap' > gap]_vars

(* The goroutine ends after a cancellation wherever it was blocked,        *)
(* unless it reports a failed resolution, with the mutex held, to a client *)
(* that waits for that mutex in LastIP, or the client died in LastIP.      *)
HangsOnlyInLastIP ==
  cancelled ~> (closed \/ (pc = "ReportDns" /\ client = "AskIP") \/ client = "Panic")

(* The engine implements the stream it promises: a ping is started when    *)
(* its request is written and stays so until its result is on the channel. *)
Stream == INSTANCE PingStream WITH
  Outcomes   <- {Good(0)} \cup (IF Overhears THEN {Good(Stranger)} ELSE {})
                  \cup {Failure(k) : k \in (DropReasons \cup {"InternalErr"}) \ {"DNSFailure"}},
  Unresolved <- Failure("DNSFailure"),
  Capacity   <- ChanSize,
  stream     <- channel,
  started    <- pc \in {"Read", "Send"},
  done       <- cancelled,
  ended      <- closed

(* The engine, its cache, socket, retries and rate limiter hidden, keeps   *)
(* every promise of PingStream, one ping one result first of all.          *)
KeepsStreamPromise == Stream!Spec

(* An address that never answers is given up: the pings move to another    *)
(* address or the resolver is asked again.                                 *)
DeadAddressAbandoned ==
  (pc = "Write" /\ ip \in DeadAddrs)
    ~> (ip \notin DeadAddrs \/ pc = "Query" \/ cancelled)

-----------------------------------------------------------------------------
(* What the comments of the code claim and the code does not do.           *)

(* "most consumers will want to have a [queryCache.GetLastIP] value as     *)
(* soon as this method returns" (ping/api.go:170): LastIP returns.         *)
LastIPReturns == client = "AskIP" ~> client # "AskIP"
=============================================================================
