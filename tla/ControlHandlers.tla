---------------------------- MODULE ControlHandlers --------------------------
(***************************************************************************)
(* Every handler of a client and of the server preserves ControlInv.       *)
(*                                                                         *)
(* The first part has facts about ascending sequences of messages and      *)
(* about the connections of module Connections, the second the steps of a  *)
(* client, the third those of the server.                                  *)
(***************************************************************************)
EXTENDS ControlInvariant, SequenceTheorems, TLAPS


(* Nothing in flight is in order.                                          *)
LEMMA AscendingEmpty ==
    ASSUME NEW R, NEW lo, NEW hi
    PROVE  Ascending(R, <<>>, lo, hi)
BY DEF Ascending

(* A message that ranks above everything sent may follow.                  *)
LEMMA AscendingAppend ==
    ASSUME NEW M, NEW R \in [M -> Nat], NEW s \in Seq(M), NEW m \in M,
           NEW lo \in Nat, NEW hi \in Nat, NEW hi2 \in Nat,
           Ascending(R, s, lo, hi), hi < R[m], lo < R[m], R[m] <= hi2
    PROVE  Ascending(R, s \o <<m>>, lo, hi2)
<1> DEFINE t == s \o <<m>>
<1>1. t \in Seq(M) /\ Len(t) = Len(s) + 1 /\ t[Len(s) + 1] = m
    OBVIOUS
<1>2. \A i \in 1 .. Len(s) : t[i] = s[i] /\ s[i] \in M
    OBVIOUS
<1>3. Len(s) \in Nat /\ R[m] \in Nat /\ \A i \in 1 .. Len(s) : R[s[i]] \in Nat
    BY <1>2
<1> HIDE DEF t
<1>a. ASSUME NEW i \in 1 .. Len(t), i # Len(s) + 1
      PROVE  i \in 1 .. Len(s)
    BY <1>a, <1>1, <1>3
<1>4. ASSUME NEW i \in 1 .. Len(t)
      PROVE  lo < R[t[i]] /\ R[t[i]] <= hi2
    <2>1. CASE i = Len(s) + 1
        BY <2>1, <1>1
    <2>2. CASE i # Len(s) + 1
        <3>1. i \in 1 .. Len(s)
            BY <2>2, <1>a
        <3>2. lo < R[s[i]] /\ R[s[i]] <= hi
            BY <3>1 DEF Ascending
        <3> QED BY <3>1, <3>2, <1>2, <1>3
    <2> QED BY <2>1, <2>2
<1>5. ASSUME NEW i \in 1 .. Len(t), NEW j \in 1 .. Len(t), i < j
      PROVE  R[t[i]] < R[t[j]]
    <2>1. i \in 1 .. Len(s)
        BY <1>5, <1>1, <1>3
    <2>2. CASE j = Len(s) + 1
        <3>1. R[s[i]] <= hi
            BY <2>1 DEF Ascending
        <3> QED BY <3>1, <2>1, <2>2, <1>1, <1>2, <1>3
    <2>3. CASE j # Len(s) + 1
        <3>1. j \in 1 .. Len(s)
            BY <2>3, <1>a
        <3>2. R[s[i]] < R[s[j]]
            BY <3>1, <2>1, <1>5 DEF Ascending
        <3> QED BY <3>1, <3>2, <2>1, <1>2
    <2> QED BY <2>2, <2>3
<1> QED BY <1>4, <1>5 DEF Ascending, t

(* What remains after a read ranks above what was read.                    *)
LEMMA AscendingTail ==
    ASSUME NEW M, NEW R \in [M -> Nat], NEW s \in Seq(M), s # <<>>,
           NEW lo \in Nat, NEW hi \in Nat, Ascending(R, s, lo, hi)
    PROVE  /\ Head(s) \in M /\ Tail(s) \in Seq(M)
           /\ lo < R[Head(s)] /\ R[Head(s)] <= hi
           /\ Ascending(R, Tail(s), R[Head(s)], hi)
<1>1. /\ Head(s) = s[1] /\ Head(s) \in M /\ Tail(s) \in Seq(M) /\ Len(s) \in Nat
      /\ Len(s) >= 1 /\ Len(Tail(s)) = Len(s) - 1
    OBVIOUS
<1>2. \A i \in 1 .. Len(Tail(s)) :
          Tail(s)[i] = s[i + 1] /\ i + 1 \in 1 .. Len(s) /\ s[i + 1] \in M
    BY <1>1
<1>3. lo < R[Head(s)] /\ R[Head(s)] <= hi
    BY <1>1 DEF Ascending
<1>4. \A i \in 1 .. Len(Tail(s)) :
          R[Head(s)] < R[Tail(s)[i]] /\ R[Tail(s)[i]] <= hi
    BY <1>1, <1>2 DEF Ascending
<1>5. \A i, j \in 1 .. Len(Tail(s)) : i < j => R[Tail(s)[i]] < R[Tail(s)[j]]
    BY <1>1, <1>2 DEF Ascending
<1> QED BY <1>1, <1>3, <1>4, <1>5 DEF Ascending

(* What survives a reset is in order.                                      *)
LEMMA AscendingPrefix ==
    ASSUME NEW M, NEW R \in [M -> Nat], NEW s \in Seq(M), NEW t \in Prefixes(s),
           NEW lo \in Nat, NEW hi \in Nat, Ascending(R, s, lo, hi)
    PROVE  t \in Seq(M) /\ Ascending(R, t, lo, hi)
<1>1. PICK n \in 0 .. Len(s) : t = SubSeq(s, 1, n)
    BY DEF Prefixes
<1>2. t \in Seq(M) /\ Len(t) = n /\ \A i \in 1 .. n : t[i] = s[i] /\ i \in 1 .. Len(s)
    BY <1>1
<1>3. t \in Seq(M) /\ \A i \in 1 .. Len(t) : t[i] = s[i] /\ i \in 1 .. Len(s)
    BY <1>2
<1> QED BY <1>3 DEF Ascending

(* The bounds may be widened.                                              *)
LEMMA AscendingWiden ==
    ASSUME NEW M, NEW R \in [M -> Nat], NEW s \in Seq(M),
           NEW lo \in Nat, NEW hi \in Nat, NEW lo2 \in Nat, NEW hi2 \in Nat,
           Ascending(R, s, lo, hi), lo2 <= lo, hi <= hi2
    PROVE  Ascending(R, s, lo2, hi2)
<1>1. \A i \in 1 .. Len(s) : s[i] \in M
    OBVIOUS
<1> QED BY <1>1 DEF Ascending

LEMMA DownRankType == DownRank \in [ServerMsg -> 1 .. 10] /\ DownRank \in [ServerMsg -> Nat]
BY DEF DownRank, ServerMsg, ServerByte, ServerPayload

LEMMA UpRankType == UpRank \in [ClientMsg -> 1 .. 5] /\ UpRank \in [ClientMsg -> Nat]
BY DEF UpRank, ClientMsg, ClientByte, ClientPayload

(* No message has the rank of the client's TEST_END.                       *)
LEMMA NothingAtTestEnd ==
    ASSUME NEW s \in Seq(ServerMsg), NEW hi \in Nat, Ascending(DownRank, s, 4, hi)
    PROVE  Ascending(DownRank, s, 5, hi)
<1>1. \A i \in 1 .. Len(s) : s[i] \in ServerMsg
    OBVIOUS
<1>2. \A m \in ServerMsg : DownRank[m] \in Nat /\ DownRank[m] # 5
    BY DEF DownRank, ServerMsg, ServerByte, ServerPayload
<1>3. \A i \in 1 .. Len(s) : DownRank[s[i]] \in Nat /\ DownRank[s[i]] # 5
    BY <1>1, <1>2
<1> QED BY <1>3 DEF Ascending

-----------------------------------------------------------------------------
LEMMA HasEmpty == \A m : ~Has(<<>>, m)
BY DEF Has

LEMMA HasAppend ==
    ASSUME NEW M, NEW s \in Seq(M), NEW m \in M, NEW x \in M
    PROVE  Has(s \o <<m>>, x) <=> Has(s, x) \/ x = m
<1>1. Len(s \o <<m>>) = Len(s) + 1 /\ (s \o <<m>>)[Len(s) + 1] = m /\ Len(s) \in Nat
    OBVIOUS
<1>2. \A i \in 1 .. Len(s) : (s \o <<m>>)[i] = s[i]
    OBVIOUS
<1> QED BY <1>1, <1>2 DEF Has

LEMMA HasTail ==
    ASSUME NEW M, NEW s \in Seq(M), s # <<>>, NEW x \in M
    PROVE  /\ Has(Tail(s), x) => Has(s, x)
           /\ Has(s, x) /\ Head(s) # x => Has(Tail(s), x)
<1>1. Head(s) = s[1] /\ Len(s) \in Nat /\ Len(s) >= 1 /\ Len(Tail(s)) = Len(s) - 1
    OBVIOUS
<1>2. \A i \in 1 .. Len(Tail(s)) : Tail(s)[i] = s[i + 1] /\ i + 1 \in 1 .. Len(s)
    BY <1>1
<1>3. Has(Tail(s), x) => Has(s, x)
    BY <1>2 DEF Has
<1>4. ASSUME Has(s, x), Head(s) # x
      PROVE  Has(Tail(s), x)
    <2>1. PICK i \in 1 .. Len(s) : s[i] = x
        BY <1>4 DEF Has
    <2>2. i # 1
        BY <2>1, <1>1, <1>4
    <2>3. i - 1 \in 1 .. Len(Tail(s)) /\ Tail(s)[i - 1] = x
        BY <2>1, <2>2, <1>1
    <2> QED BY <2>3 DEF Has
<1> QED BY <1>3, <1>4

(* A prefix that holds a message holds every message of lower rank.        *)
LEMMA HasPrefix ==
    ASSUME NEW M, NEW R \in [M -> Nat], NEW s \in Seq(M), NEW t \in Prefixes(s),
           NEW lo, NEW hi, Ascending(R, s, lo, hi), NEW x \in M, NEW y \in M
    PROVE  /\ Has(t, y) => Has(s, y)
           /\ Has(t, y) /\ Has(s, x) /\ R[x] < R[y] => Has(t, x)
<1>1. PICK n \in 0 .. Len(s) : t = SubSeq(s, 1, n)
    BY DEF Prefixes
<1>2. t \in Seq(M) /\ Len(t) = n /\ n <= Len(s) /\ n \in Nat /\ Len(s) \in Nat
    BY <1>1
<1>3. \A i \in 1 .. n : t[i] = s[i] /\ i \in 1 .. Len(s)
    BY <1>1, <1>2
<1>4. Has(t, y) => Has(s, y)
    BY <1>2, <1>3 DEF Has
<1>5. ASSUME Has(t, y), Has(s, x), R[x] < R[y]
      PROVE  Has(t, x)
    <2>1. PICK i \in 1 .. n : s[i] = y /\ i \in 1 .. Len(s)
        BY <1>5, <1>2, <1>3 DEF Has
    <2>2. PICK j \in 1 .. Len(s) : s[j] = x
        BY <1>5 DEF Has
    <2>3. i < j => R[s[i]] < R[s[j]]
        BY <2>1, <2>2 DEF Ascending
    <2>4. R[x] \in Nat /\ R[y] \in Nat
        OBVIOUS
    <2>5. j <= i
        BY <2>1, <2>2, <2>3, <2>4, <1>5
    <2>6. j \in 1 .. n /\ t[j] = x
        BY <2>1, <2>2, <2>5, <1>2, <1>3
    <2> QED BY <2>6, <1>2 DEF Has
<1> QED BY <1>4, <1>5

-----------------------------------------------------------------------------
(* Channels keep their type, and only the channel named is touched.        *)
LEMMA WrittenFacts ==
    ASSUME NEW M, NEW chan \in [Conns -> Seq(M)], NEW peer, NEW k \in Conns,
           NEW msgs \in Seq(M)
    PROVE  LET w == Written(chan, peer, k, msgs) IN
           /\ w \in [Conns -> Seq(M)]
           /\ \A j \in Conns : j # k => w[j] = chan[j]
           /\ peer[k] = "open" => w[k] = chan[k] \o msgs
           /\ peer[k] # "open" => w[k] = chan[k]
BY DEF Written

LEMMA UnreadFacts ==
    ASSUME NEW M, NEW chan \in [Conns -> Seq(M)], NEW k \in Conns, chan[k] # <<>>
    PROVE  LET u == Unread(chan, k) IN
           /\ u \in [Conns -> Seq(M)]
           /\ \A j \in Conns : j # k => u[j] = chan[j]
           /\ u[k] = Tail(chan[k])
BY DEF Unread

LEMMA PrefixFacts ==
    ASSUME NEW M, NEW s \in Seq(M), NEW t \in Prefixes(s)
    PROVE  t \in Seq(M)
BY DEF Prefixes

LEMMA WholePrefix ==
    ASSUME NEW M, NEW s \in Seq(M)
    PROVE  s \in Prefixes(s)
<1>1. SubSeq(s, 1, Len(s)) = s /\ Len(s) \in 0 .. Len(s)
    OBVIOUS
<1> QED BY <1>1 DEF Prefixes

LEMMA SurvivingCloseFacts ==
    ASSUME NEW M, NEW in, NEW out \in [Conns -> Seq(M)], NEW k \in Conns,
           NEW x \in SurvivingClose(in, out, k)
    PROVE  /\ x \in [Conns -> Seq(M)]
           /\ \A j \in Conns : j # k => x[j] = out[j]
           /\ x[k] \in Prefixes(out[k])
<1>1. PICK s \in (IF in[k] = <<>> THEN {out[k]} ELSE Prefixes(out[k])) :
          x = [out EXCEPT ![k] = s]
    BY DEF SurvivingClose
<1>2. s \in Prefixes(out[k])
    BY <1>1, WholePrefix
<1>3. s \in Seq(M)
    BY <1>2, PrefixFacts
<1> QED BY <1>1, <1>2, <1>3

-----------------------------------------------------------------------------
(* The facts above for what the client sends and the server reads.         *)
LEMMA UpWritten ==
    ASSUME NEW chan \in [Conns -> Seq(ClientMsg)], NEW peer, NEW k \in Conns,
           NEW msgs \in Seq(ClientMsg)
    PROVE  /\ Written(chan, peer, k, msgs) \in [Conns -> Seq(ClientMsg)]
           /\ \A j \in Conns : j # k => Written(chan, peer, k, msgs)[j] = chan[j]
           /\ peer[k] = "open" => Written(chan, peer, k, msgs)[k] = chan[k] \o msgs
           /\ peer[k] # "open" => Written(chan, peer, k, msgs) = chan
BY DEF Written

LEMMA UpUnread ==
    ASSUME NEW chan \in [Conns -> Seq(ClientMsg)], NEW k \in Conns, chan[k] # <<>>
    PROVE  /\ Unread(chan, k) \in [Conns -> Seq(ClientMsg)]
           /\ \A j \in Conns : j # k => Unread(chan, k)[j] = chan[j]
           /\ Unread(chan, k)[k] = Tail(chan[k])
           /\ Head(chan[k]) \in ClientMsg
BY DEF Unread

LEMMA UpClose ==
    ASSUME NEW in, NEW out \in [Conns -> Seq(ClientMsg)], NEW k \in Conns,
           NEW x \in SurvivingClose(in, out, k)
    PROVE  /\ x \in [Conns -> Seq(ClientMsg)]
           /\ \A j \in Conns : j # k => x[j] = out[j]
           /\ x[k] \in Prefixes(out[k])
BY SurvivingCloseFacts, Zenon

LEMMA UpAppend ==
    ASSUME NEW s \in Seq(ClientMsg), NEW m \in ClientMsg, NEW lo \in Nat, NEW hi \in Nat,
           Ascending(UpRank, s, lo, hi), hi < UpRank[m], lo < UpRank[m]
    PROVE  Ascending(UpRank, s \o <<m>>, lo, UpRank[m])
<1>1. UpRank[m] \in Nat
    BY UpRankType
<1> QED BY <1>1, UpRankType, AscendingAppend

LEMMA UpSend ==
    ASSUME NEW chan \in [Conns -> Seq(ClientMsg)], NEW peer, NEW k \in Conns,
           NEW m \in ClientMsg, NEW lo \in Nat, NEW hi \in Nat, NEW hi2 \in Nat,
           Ascending(UpRank, chan[k], lo, hi), hi < UpRank[m], lo < UpRank[m], UpRank[m] <= hi2
    PROVE  Ascending(UpRank, Written(chan, peer, k, <<m>>)[k], lo, hi2)
<1>1. chan[k] \in Seq(ClientMsg) /\ UpRank \in [ClientMsg -> Nat] /\ UpRank[m] \in Nat
    BY UpRankType
<1>2. CASE peer[k] = "open"
    <2>1. Ascending(UpRank, chan[k] \o <<m>>, lo, hi2)
        BY <1>1, AscendingAppend
    <2> QED BY <1>2, <2>1 DEF Written
<1>3. CASE peer[k] # "open"
    <2>1. hi <= hi2 /\ lo <= lo
        BY <1>1
    <2>2. Ascending(UpRank, chan[k], lo, hi2)
        BY <1>1, <2>1, AscendingWiden
    <2> QED BY <1>3, <2>2 DEF Written
<1> QED BY <1>2, <1>3

LEMMA UpRead ==
    ASSUME NEW chan \in [Conns -> Seq(ClientMsg)], NEW k \in Conns, chan[k] # <<>>,
           NEW lo \in Nat, NEW hi \in Nat, Ascending(UpRank, chan[k], lo, hi)
    PROVE  /\ Ascending(UpRank, Unread(chan, k)[k], UpRank[Head(chan[k])], hi)
           /\ lo < UpRank[Head(chan[k])] /\ UpRank[Head(chan[k])] <= hi
           /\ UpRank[Head(chan[k])] \in Nat
<1>1. chan[k] \in Seq(ClientMsg) /\ UpRank \in [ClientMsg -> Nat]
    BY UpRankType
<1>2. /\ Ascending(UpRank, Tail(chan[k]), UpRank[Head(chan[k])], hi)
      /\ lo < UpRank[Head(chan[k])] /\ UpRank[Head(chan[k])] <= hi
      /\ Head(chan[k]) \in ClientMsg
    BY <1>1, AscendingTail
<1> QED BY <1>1, <1>2, UpUnread

LEMMA UpPrefix ==
    ASSUME NEW s \in Seq(ClientMsg), NEW t \in Prefixes(s), NEW lo \in Nat, NEW hi \in Nat,
           Ascending(UpRank, s, lo, hi)
    PROVE  Ascending(UpRank, t, lo, hi)
BY UpRankType, AscendingPrefix

LEMMA UpWiden ==
    ASSUME NEW s \in Seq(ClientMsg), NEW lo \in Nat, NEW hi \in Nat, NEW lo2 \in Nat,
           NEW hi2 \in Nat, Ascending(UpRank, s, lo, hi), lo2 <= lo, hi <= hi2
    PROVE  Ascending(UpRank, s, lo2, hi2)
BY UpRankType, AscendingWiden

(* The facts above for what the server sends and the client reads.         *)
LEMMA DownWritten ==
    ASSUME NEW chan \in [Conns -> Seq(ServerMsg)], NEW peer, NEW k \in Conns,
           NEW msgs \in Seq(ServerMsg)
    PROVE  /\ Written(chan, peer, k, msgs) \in [Conns -> Seq(ServerMsg)]
           /\ \A j \in Conns : j # k => Written(chan, peer, k, msgs)[j] = chan[j]
           /\ peer[k] = "open" => Written(chan, peer, k, msgs)[k] = chan[k] \o msgs
           /\ peer[k] # "open" => Written(chan, peer, k, msgs) = chan
BY DEF Written

LEMMA DownUnread ==
    ASSUME NEW chan \in [Conns -> Seq(ServerMsg)], NEW k \in Conns, chan[k] # <<>>
    PROVE  /\ Unread(chan, k) \in [Conns -> Seq(ServerMsg)]
           /\ \A j \in Conns : j # k => Unread(chan, k)[j] = chan[j]
           /\ Unread(chan, k)[k] = Tail(chan[k])
           /\ Head(chan[k]) \in ServerMsg
BY DEF Unread

LEMMA DownClose ==
    ASSUME NEW in, NEW out \in [Conns -> Seq(ServerMsg)], NEW k \in Conns,
           NEW x \in SurvivingClose(in, out, k)
    PROVE  /\ x \in [Conns -> Seq(ServerMsg)]
           /\ \A j \in Conns : j # k => x[j] = out[j]
           /\ x[k] \in Prefixes(out[k])
BY SurvivingCloseFacts, Zenon

LEMMA DownAppend ==
    ASSUME NEW s \in Seq(ServerMsg), NEW m \in ServerMsg, NEW lo \in Nat, NEW hi \in Nat,
           Ascending(DownRank, s, lo, hi), hi < DownRank[m], lo < DownRank[m]
    PROVE  Ascending(DownRank, s \o <<m>>, lo, DownRank[m])
<1>1. DownRank[m] \in Nat
    BY DownRankType
<1> QED BY <1>1, DownRankType, AscendingAppend

LEMMA DownSend ==
    ASSUME NEW chan \in [Conns -> Seq(ServerMsg)], NEW peer, NEW k \in Conns,
           NEW m \in ServerMsg, NEW lo \in Nat, NEW hi \in Nat, NEW hi2 \in Nat,
           Ascending(DownRank, chan[k], lo, hi), hi < DownRank[m], lo < DownRank[m], DownRank[m] <= hi2
    PROVE  Ascending(DownRank, Written(chan, peer, k, <<m>>)[k], lo, hi2)
<1>1. chan[k] \in Seq(ServerMsg) /\ DownRank \in [ServerMsg -> Nat] /\ DownRank[m] \in Nat
    BY DownRankType
<1>2. CASE peer[k] = "open"
    <2>1. Ascending(DownRank, chan[k] \o <<m>>, lo, hi2)
        BY <1>1, AscendingAppend
    <2> QED BY <1>2, <2>1 DEF Written
<1>3. CASE peer[k] # "open"
    <2>1. hi <= hi2 /\ lo <= lo
        BY <1>1
    <2>2. Ascending(DownRank, chan[k], lo, hi2)
        BY <1>1, <2>1, AscendingWiden
    <2> QED BY <1>3, <2>2 DEF Written
<1> QED BY <1>2, <1>3

LEMMA DownRead ==
    ASSUME NEW chan \in [Conns -> Seq(ServerMsg)], NEW k \in Conns, chan[k] # <<>>,
           NEW lo \in Nat, NEW hi \in Nat, Ascending(DownRank, chan[k], lo, hi)
    PROVE  /\ Ascending(DownRank, Unread(chan, k)[k], DownRank[Head(chan[k])], hi)
           /\ lo < DownRank[Head(chan[k])] /\ DownRank[Head(chan[k])] <= hi
           /\ DownRank[Head(chan[k])] \in Nat
<1>1. chan[k] \in Seq(ServerMsg) /\ DownRank \in [ServerMsg -> Nat]
    BY DownRankType
<1>2. /\ Ascending(DownRank, Tail(chan[k]), DownRank[Head(chan[k])], hi)
      /\ lo < DownRank[Head(chan[k])] /\ DownRank[Head(chan[k])] <= hi
      /\ Head(chan[k]) \in ServerMsg
    BY <1>1, AscendingTail
<1> QED BY <1>1, <1>2, DownUnread

LEMMA DownPrefix ==
    ASSUME NEW s \in Seq(ServerMsg), NEW t \in Prefixes(s), NEW lo \in Nat, NEW hi \in Nat,
           Ascending(DownRank, s, lo, hi)
    PROVE  Ascending(DownRank, t, lo, hi)
BY DownRankType, AscendingPrefix

LEMMA DownWiden ==
    ASSUME NEW s \in Seq(ServerMsg), NEW lo \in Nat, NEW hi \in Nat, NEW lo2 \in Nat,
           NEW hi2 \in Nat, Ascending(DownRank, s, lo, hi), lo2 <= lo, hi <= hi2
    PROVE  Ascending(DownRank, s, lo2, hi2)
BY DownRankType, AscendingWiden

(* The numbers of the server precede DISPLAY_RESULTS, so they survive a    *)
(* reset that spares it.                                                   *)
LEMMA DownHasPrefix ==
    ASSUME NEW s \in Seq(ServerMsg), NEW t \in Prefixes(s),
           NEW lo \in Nat, NEW hi \in Nat, Ascending(DownRank, s, lo, hi)
    PROVE  /\ Has(t, "DISPLAY_RESULTS") => Has(s, "DISPLAY_RESULTS")
           /\ Has(t, "DISPLAY_RESULTS") /\ Has(s, "results") => Has(t, "results")
<1>1. /\ "DISPLAY_RESULTS" \in ServerMsg /\ "results" \in ServerMsg
      /\ DownRank["results"] < DownRank["DISPLAY_RESULTS"]
    BY DEF ServerMsg, ServerByte, ServerPayload, DownRank
<1> QED BY <1>1, DownRankType, HasPrefix

(* Two messages in one write: an error and its numbers, or TEST_START and  *)
(* TEST_RUNNING.                                                           *)
LEMMA DownSendTwo ==
    ASSUME NEW chan \in [Conns -> Seq(ServerMsg)], NEW peer, NEW k \in Conns,
           NEW m1 \in ServerMsg, NEW m2 \in ServerMsg, NEW lo \in Nat, NEW hi \in Nat,
           Ascending(DownRank, chan[k], lo, hi), hi < DownRank[m1], lo < DownRank[m1],
           DownRank[m1] < DownRank[m2]
    PROVE  Ascending(DownRank, Written(chan, peer, k, <<m1, m2>>)[k], lo, DownRank[m2])
<1> DEFINE s == chan[k]
<1>0. s \in Seq(ServerMsg) /\ DownRank[m1] \in Nat /\ DownRank[m2] \in Nat
    BY DownRankType
<1>1. lo < DownRank[m2] /\ hi <= DownRank[m2] /\ lo <= lo
    BY <1>0
<1>2. CASE peer[k] = "open"
    <2>1. Ascending(DownRank, s \o <<m1>>, lo, DownRank[m1])
        BY <1>0, DownAppend
    <2>2. s \o <<m1>> \in Seq(ServerMsg)
        BY <1>0
    <2>3. Ascending(DownRank, (s \o <<m1>>) \o <<m2>>, lo, DownRank[m2])
        BY <1>0, <1>1, <2>1, <2>2, DownAppend
    <2>4. (s \o <<m1>>) \o <<m2>> = s \o <<m1, m2>>
        <3> DEFINE a == (s \o <<m1>>) \o <<m2>>
                   b == s \o <<m1, m2>>
        <3>1. a \in Seq(ServerMsg) /\ Len(a) = Len(s) + 2
            BY <1>0
        <3>2. b \in Seq(ServerMsg) /\ Len(b) = Len(s) + 2
            BY <1>0
        <3>3. \A i \in 1 .. Len(s) + 2 : a[i] = b[i]
            <4>1. /\ \A i \in 1 .. Len(s) : (s \o <<m1>>)[i] = s[i]
                  /\ (s \o <<m1>>)[Len(s) + 1] = m1 /\ Len(s \o <<m1>>) = Len(s) + 1
                BY <1>0
            <4>2. /\ \A i \in 1 .. Len(s) + 1 : a[i] = (s \o <<m1>>)[i]
                  /\ a[Len(s) + 2] = m2
                BY <4>1, <2>2, <1>0
            <4>3. /\ \A i \in 1 .. Len(s) : b[i] = s[i]
                  /\ b[Len(s) + 1] = m1 /\ b[Len(s) + 2] = m2
                BY <1>0
            <4> HIDE DEF a, b
            <4> QED BY <4>1, <4>2, <4>3, <1>0
        <3> HIDE DEF a, b
        <3>4. a = b
            BY <3>1, <3>2, <3>3, SeqEqual
        <3> QED BY <3>4 DEF a, b
    <2> QED BY <1>2, <2>3, <2>4 DEF Written
<1>3. CASE peer[k] # "open"
    <2>1. Ascending(DownRank, s, lo, DownRank[m2])
        BY <1>0, <1>1, DownWiden
    <2> QED BY <1>3, <2>1 DEF Written
<1> QED BY <1>2, <1>3

LEMMA WrittenHas ==
    ASSUME NEW chan \in [Conns -> Seq(ServerMsg)], NEW peer, NEW k \in Conns,
           NEW msgs \in Seq(ServerMsg), NEW x
    PROVE  /\ Has(chan[k], x) => Has(Written(chan, peer, k, msgs)[k], x)
           /\ Has(Written(chan, peer, k, msgs)[k], x) => Has(chan[k], x) \/ Has(msgs, x)
           /\ peer[k] = "open" /\ Has(msgs, x) => Has(Written(chan, peer, k, msgs)[k], x)
<1> DEFINE s == chan[k]
           t == s \o msgs
<1>0. s \in Seq(ServerMsg) /\ Len(s) \in Nat /\ Len(msgs) \in Nat
    OBVIOUS
<1>1. /\ Len(t) = Len(s) + Len(msgs)
      /\ \A i \in 1 .. Len(s) : t[i] = s[i]
      /\ \A i \in 1 .. Len(msgs) : t[Len(s) + i] = msgs[i]
    BY <1>0
<1> HIDE DEF t
<1>2. Has(s, x) => Has(t, x)
    BY <1>0, <1>1 DEF Has
<1>3. Has(msgs, x) => Has(t, x)
    <2> SUFFICES ASSUME NEW i \in 1 .. Len(msgs), msgs[i] = x PROVE Has(t, x)
        BY DEF Has
    <2>1. Len(s) + i \in 1 .. Len(t) /\ t[Len(s) + i] = x
        BY <1>0, <1>1
    <2> QED BY <2>1 DEF Has
<1>4. ASSUME NEW i \in 1 .. Len(t), t[i] = x PROVE Has(s, x) \/ Has(msgs, x)
    <2>1. CASE i \in 1 .. Len(s)
        BY <1>1, <1>4, <2>1 DEF Has
    <2>2. CASE i \notin 1 .. Len(s)
        <3>1. i - Len(s) \in 1 .. Len(msgs) /\ i = Len(s) + (i - Len(s))
            BY <1>0, <1>1, <2>2
        <3>2. msgs[i - Len(s)] = x
            BY <1>1, <1>4, <3>1
        <3> QED BY <3>1, <3>2 DEF Has
    <2> QED BY <2>1, <2>2
<1>5. Has(t, x) => Has(s, x) \/ Has(msgs, x)
    BY <1>4 DEF Has
<1>6. Written(chan, peer, k, msgs)[k] = IF peer[k] = "open" THEN t ELSE s
    BY DEF Written, t
<1> QED BY <1>2, <1>3, <1>5, <1>6

-----------------------------------------------------------------------------
(* The client.                                                             *)


PerClient(c) == ClientPlace(c) /\ Accounted(c) /\ Ordered(c) /\ Heard(c) /\ Reported(c)

LEMMA InvParts ==
    ControlInv <=> /\ TypeOK /\ ServerPlace /\ CookiesOnly
                   /\ \A c \in Clients : PerClient(c)
BY DEF ControlInv, PerClient

LEMMA CtrlConn ==
    ASSUME NEW c \in Clients
    PROVE  /\ Ctrl(c) \in Conns /\ IsControl(Ctrl(c)) /\ Owner(Ctrl(c)) = c
           /\ Ctrl(c) # NoConn
           /\ \A d \in Clients : Ctrl(d) = Ctrl(c) => d = c
           /\ \A k \in Conns : IsControl(k) /\ Owner(k) = c => k = Ctrl(c)
BY ConnectionsAssumption DEF Ctrl, Conns, IsControl, Owner, MaxStreams

-----------------------------------------------------------------------------
LEMMA InitInv == Init => ControlInv
<1> SUFFICES ASSUME Init PROVE ControlInv
    OBVIOUS
<1> USE DEF Init, NetInit, ClientInit, ServerInit
<1>1. TypeOK
    <2>a. \A E : <<>> \in Seq(E)
        OBVIOUS
    <2>1. NetTypeOK
        BY <2>a DEF NetTypeOK, End
    <2>2. ClientTypeOK
        BY ConnectionsAssumption DEF ClientTypeOK, ClientState, ClientAlive, MaxStreams
    <2>3. ServerTypeOK
        <3>1. sstreams \in Seq([conn : Conns, sender : BOOLEAN])
            BY <2>a
        <3>2. sopt \in SUBSET TestOption /\ reported \subseteq Clients
            OBVIOUS
        <3> QED BY <3>1, <3>2 DEF ServerTypeOK, ServerState, ServerPc
    <2> QED BY <2>1, <2>2, <2>3 DEF TypeOK
<1>2. ServerPlace
    BY DEF ServerPlace
<1>3. CookiesOnly
    BY DEF CookiesOnly, DataConns
<1>4. ASSUME NEW c \in Clients PROVE PerClient(c)
    <2> USE CtrlConn
    <2>1. up[Ctrl(c)] = <<>> /\ down[Ctrl(c)] = <<>>
        OBVIOUS
    <2>2. ClientPlace(c)
        BY DEF ClientPlace, LiveState
    <2>3. Accounted(c)
        BY DEF Accounted, Waiting, InBacklog
    <2>4. Ordered(c)
        BY <2>1, AscendingEmpty DEF Ordered, ReadBy, ClientSent
    <2>5. Reported(c)
        BY <2>1, HasEmpty DEF Reported
    <2>6. Heard(c)
        BY DEF Heard
    <2> QED BY <2>2, <2>3, <2>4, <2>5, <2>6 DEF PerClient
<1> QED BY <1>1, <1>2, <1>3, <1>4, InvParts

-----------------------------------------------------------------------------
(* What a step of client c leaves alone: the server's variables and the    *)
(* other clients.                                                          *)
OthersKept(c) ==
    /\ UNCHANGED srvvars
    /\ UNCHANGED <<srv, backlog>>
    /\ \A d \in Clients : d # c =>
          /\ cstate'[d] = cstate[d] /\ cpc'[d] = cpc[d] /\ cmode'[d] = cmode[d]
          /\ cstreams'[d] = cstreams[d] /\ cpeer'[d] = cpeer[d]
          /\ cli'[Ctrl(d)] = cli[Ctrl(d)] /\ up'[Ctrl(d)] = up[Ctrl(d)]
          /\ down'[Ctrl(d)] = down[Ctrl(d)]

LEMMA OthersKeptInv ==
    ASSUME ControlInv, NEW c \in Clients, OthersKept(c),
           TypeOK', CookiesOnly', PerClient(c)'
    PROVE  ControlInv'
<1>1. ServerPlace'
    BY DEF ControlInv, ServerPlace, OthersKept, srvvars
<1>2. ASSUME NEW d \in Clients, d # c PROVE PerClient(d)'
    <2> USE <1>2 DEF OthersKept, srvvars
    <2>0. PerClient(d)
        BY InvParts
    <2>1. ClientPlace(d)'
        BY <2>0 DEF PerClient, ClientPlace
    <2>2. Accounted(d)'
        BY <2>0 DEF PerClient, Accounted, Waiting, InBacklog
    <2>3. Ordered(d)'
        BY <2>0 DEF PerClient, Ordered, SentBy, ReadBy
    <2>4. Reported(d)'
        BY <2>0 DEF PerClient, Reported
    <2>5. Heard(d)'
        BY <2>0 DEF PerClient, Heard, SentBy
    <2> QED BY <2>1, <2>2, <2>3, <2>4, <2>5 DEF PerClient
<1>3. \A d \in Clients : PerClient(d)'
    BY <1>2
<1> QED BY <1>1, <1>3 DEF ControlInv, PerClient

(* A live client has sent at most its results.                             *)
LEMMA LiveSent ==
    ASSUME NEW c \in Clients, ClientPlace(c), cpc[c] \in ClientAlive
    PROVE  /\ ClientSent(cpc[c], cstate[c]) \in 0 .. 4
           /\ ClientRead(cstate[c]) \in 0 .. 6
BY DEF ClientPlace, ClientSent, ClientRead, ClientAlive, LiveState, TestState,
       ServerByte, ServerMsg, DownRank

LEMMA ServerRanks ==
    \A k : /\ ReadBy(k) \in Nat /\ ReadBy(k) <= 5
          /\ SentBy(k) \in Nat /\ SentBy(k) <= 10
<1>1. \A pc, st : ServerRead(pc, st) \in Nat /\ ServerRead(pc, st) <= 5
    BY DEF ServerRead
<1>2. \A st \in ServerByte : DownRank[st] \in 0 .. 10
    BY DownRankType DEF ServerMsg
<1>3. \A pc, st : ServerSent(pc, st) \in Nat /\ ServerSent(pc, st) <= 10
    BY <1>2 DEF ServerSent
<1> QED BY <1>1, <1>3 DEF ReadBy, SentBy

LEMMA ClientRanks ==
    \A pc, st : /\ ClientSent(pc, st) \in Nat /\ ClientSent(pc, st) <= 5
               /\ ClientRead(st) \in Nat /\ ClientRead(st) <= 10
<1>1. \A st \in ServerByte : DownRank[st] \in 0 .. 10
    BY DownRankType DEF ServerMsg
<1>2. \A st : ClientRead(st) \in Nat /\ ClientRead(st) <= 10
    BY <1>1 DEF ClientRead
<1>3. \A pc, st : ClientSent(pc, st) \in Nat /\ ClientSent(pc, st) <= 5
    BY DEF ClientSent
<1> QED BY <1>2, <1>3

(* However a client ends, what it leaves in its connections is in order.   *)
LEMMA ClientExitInv ==
    ASSUME ControlInv, NEW c \in Clients, cpc[c] \in ClientAlive,
           NEW pc \in {"ok", "failed", "killed"}, NEW st \in ClientState,
           NEW dn, NEW msgs \in {<<>>, <<"IPERF_DONE">>, <<"CLIENT_TERMINATE">>},
           ClientExit(c, pc, st, dn, msgs), UNCHANGED srvvars,
           Waiting(Ctrl(c)) => st \in {"0", "CLIENT_TERMINATE"},
           ClientRead(st) < 2 => cstreams[c] = 0,
           pc = "ok" => c \in reported /\ cpeer[c]
    PROVE  ControlInv'
<1> DEFINE k == Ctrl(c)
           w == Written(up, srv, k, msgs)
<1>0. TypeOK /\ NetTypeOK /\ ClientTypeOK /\ ServerTypeOK /\ PerClient(c) /\ CookiesOnly
    BY InvParts DEF TypeOK
<1>k. k \in Conns /\ Owner(k) = c /\ IsControl(k)
    BY CtrlConn
<1>1. up \in [Conns -> Seq(ClientMsg)]
    BY <1>0 DEF NetTypeOK
<1>m. msgs \in Seq(ClientMsg) /\ msgs \in {<<>>} \cup {<<m>> : m \in {"IPERF_DONE", "CLIENT_TERMINATE"}}
    <2>1. "IPERF_DONE" \in ClientMsg /\ "CLIENT_TERMINATE" \in ClientMsg
        BY DEF ClientMsg, ClientByte
    <2>2. CASE msgs = <<>>
        BY <2>2
    <2>3. CASE msgs = <<"IPERF_DONE">>
        BY <2>1, <2>3
    <2>4. CASE msgs = <<"CLIENT_TERMINATE">>
        BY <2>1, <2>4
    <2> QED BY <2>2, <2>3, <2>4
<1>w. up' \in SurvivingClose(dn, w, k) /\ w = Written(up, srv, k, msgs)
    BY DEF ClientExit
<1> HIDE DEF w, k
<1>2. w \in [Conns -> Seq(ClientMsg)] /\ \A j \in Conns : j # k => w[j] = up[j]
    <2>1. /\ Written(up, srv, k, msgs) \in [Conns -> Seq(ClientMsg)]
          /\ \A j \in Conns : j # k => Written(up, srv, k, msgs)[j] = up[j]
        <3>1. msgs \in Seq(ClientMsg)
            BY <1>m
        <3> QED BY <1>1, <3>1, <1>k DEF Written
    <2> QED BY <2>1, <1>w, Zenon
<1>u. ASSUME NEW lo \in Nat, NEW hi \in Nat, Ascending(UpRank, up[k], lo, hi),
             lo <= hi, hi < 5
      PROVE  Ascending(UpRank, w[k], lo, 5)
    <2>1. CASE msgs = <<>>
        <3>1. w[k] = up[k] /\ up[k] \in Seq(ClientMsg)
            BY <2>1, <1>1, <1>k, <1>w DEF Written
        <3> QED BY <3>1, <1>u, UpWiden
    <2>2. ASSUME NEW m \in {"IPERF_DONE", "CLIENT_TERMINATE"}, msgs = <<m>>
          PROVE  Ascending(UpRank, w[k], lo, 5)
        <3>1. m \in ClientMsg /\ UpRank[m] = 5
            BY DEF ClientMsg, ClientByte, UpRank
        <3>2. hi < UpRank[m] /\ lo < UpRank[m] /\ UpRank[m] <= 5 /\ 5 \in Nat
            BY <3>1, <1>u
        <3>3. Ascending(UpRank, Written(up, srv, k, <<m>>)[k], lo, 5)
            BY <3>1, <3>2, <1>u, <1>1, <1>k, UpSend, Zenon
        <3> QED BY <2>2, <3>3, <1>w
    <2> QED BY <2>1, <2>2, <1>m
<1>3. /\ up' \in [Conns -> Seq(ClientMsg)]
      /\ \A j \in Conns : j # k => up'[j] = up[j]
      /\ up'[k] \in Prefixes(w[k])
    <2>1. up' \in SurvivingClose(dn, w, k) /\ w \in [Conns -> Seq(ClientMsg)] /\ k \in Conns
        BY <1>w, <1>2, <1>k, Zenon
    <2>2. /\ up' \in [Conns -> Seq(ClientMsg)]
          /\ \A j \in Conns : j # k => up'[j] = w[j]
          /\ up'[k] \in Prefixes(w[k])
        BY <2>1, UpClose, Zenon
    <2> QED BY <2>2, <1>2, Zenon
<1> USE DEF k
<1>4. /\ cstate'[c] = st /\ cpc'[c] = pc /\ cstreams'[c] = cstreams[c]
      /\ cpeer' = cpeer /\ cmode' = cmode
      /\ cli'[k] # "open" /\ down'[k] = <<>> /\ srv' = srv /\ backlog' = backlog
    BY <1>0, <1>k DEF ClientExit, NetTypeOK, ClientTypeOK, End
<1>5. TypeOK'
    <2>1. NetTypeOK'
        BY <1>0, <1>3 DEF NetTypeOK, ClientExit, End
    <2>2. ClientTypeOK'
        BY <1>0 DEF ClientTypeOK, ClientExit, ClientEnded
    <2>3. ServerTypeOK'
        BY <1>0 DEF ServerTypeOK, srvvars
    <2> QED BY <2>1, <2>2, <2>3 DEF TypeOK
<1>6. CookiesOnly'
    BY <1>0, <1>3, <1>k DEF CookiesOnly, DataConns
<1>7. OthersKept(c)
    <2>1. \A d \in Clients : d # c => Ctrl(d) \in Conns /\ Ctrl(d) # k /\ Owner(Ctrl(d)) = d
        BY CtrlConn
    <2> QED BY <2>1, <1>3, <1>0 DEF OthersKept, ClientExit, NetTypeOK, ClientTypeOK
<1>8. ClientPlace(c)'
    BY <1>0, <1>4 DEF PerClient, ClientPlace, ClientAlive
<1>9. Accounted(c)'
    BY <1>0, <1>4 DEF PerClient, Accounted, Waiting, InBacklog, srvvars
<1>10. Ordered(c)'
    <2> DEFINE sent == ClientSent(cpc[c], cstate[c])
    <2>1. /\ Ascending(UpRank, up[k], ReadBy(k), sent) /\ sent \in 0 .. 4
          /\ ReadBy(k) \in Nat /\ ReadBy(k) <= sent
        BY <1>0, LiveSent, ServerRanks DEF PerClient, Ordered
    <2> HIDE DEF sent
    <2>2. Ascending(UpRank, w[k], ReadBy(k), 5)
        BY <2>1, <1>u
    <2>3. Ascending(UpRank, up'[k], ReadBy(k), 5)
        BY <2>1, <2>2, <1>2, <1>3, <1>k, UpPrefix
    <2>4. ClientSent(cpc'[c], cstate'[c]) = 5 /\ ReadBy(k)' = ReadBy(k)
        BY <1>4 DEF ClientSent, ReadBy, srvvars
    <2> QED BY <2>1, <2>3, <2>4, <1>4, AscendingEmpty DEF Ordered
<1>11. Reported(c)'
    BY <1>0, <1>4, HasEmpty DEF PerClient, Reported, srvvars
<1>12. Heard(c)'
    BY <1>4 DEF Heard
<1> QED BY <1>5, <1>6, <1>7, <1>8, <1>9, <1>10, <1>11, <1>12, OthersKeptInv DEF PerClient

-----------------------------------------------------------------------------
(* A step after which client c goes on, at pc and in state st: it leaves   *)
(* the other clients alone, and what it reads and writes is in order.      *)
OnlyTouches(c) ==
    /\ cworkers' \in [Clients -> SUBSET {"send", "recv"}]
    /\ cstreams' \in [Clients -> 0 .. MaxStreams]
    /\ cpeer' \in [Clients -> BOOLEAN]
    /\ up' \in [Conns -> Seq(ClientMsg)] /\ down' \in [Conns -> Seq(ServerMsg)]
    /\ \A d \in Clients : d # c => /\ cstreams'[d] = cstreams[d]
                                 /\ cpeer'[d] = cpeer[d]
                                 /\ up'[Ctrl(d)] = up[Ctrl(d)]
                                 /\ down'[Ctrl(d)] = down[Ctrl(d)]
InOrder(c, pc, st) ==
    /\ Waiting(Ctrl(c)) => st = "0" /\ down'[Ctrl(c)] = <<>>
    /\ Ascending(DownRank, down'[Ctrl(c)], ClientRead(st), SentBy(Ctrl(c)))
    /\ Ascending(UpRank, up'[Ctrl(c)], ReadBy(Ctrl(c)), ClientSent(pc, st))
    /\ ClientSent(cpc[c], cstate[c]) <= ClientSent(pc, st)
    /\ down[Ctrl(c)] = <<>> => down'[Ctrl(c)] = <<>>
    /\ cli[Ctrl(c)] = "open" => ClientHeard(st) <= SentBy(Ctrl(c))
NothingLost(c) ==
    /\ cpeer[c] => cpeer'[c]
    /\ Has(down'[Ctrl(c)], "DISPLAY_RESULTS") => Has(down[Ctrl(c)], "DISPLAY_RESULTS")
    /\ Has(down[Ctrl(c)], "results") => cpeer'[c] \/ Has(down'[Ctrl(c)], "results")

LEMMA ClientGoesInv ==
    ASSUME ControlInv, NEW c \in Clients, cpc[c] \in ClientAlive,
           NEW pc \in {"loop", "create", "stream", "results"}, NEW st \in LiveState,
           ClientGoes(c, pc, st), UNCHANGED srvvars, CookiesOnly',
           OnlyTouches(c), InOrder(c, pc, st), NothingLost(c),
           ClientRead(st) < 2 => cstreams'[c] = 0,
           pc \in {"create", "stream"} =>
               st = "CREATE_STREAMS" /\ cstreams'[c] < StreamCount(cmode[c])
    PROVE  ControlInv'
<1> USE DEF OnlyTouches, InOrder, NothingLost
<1> DEFINE k == Ctrl(c)
<1>0. TypeOK /\ NetTypeOK /\ ClientTypeOK /\ ServerTypeOK /\ PerClient(c)
    BY InvParts DEF TypeOK
<1>k. k \in Conns
    BY CtrlConn
<1>1. TypeOK'
    <2>1. NetTypeOK'
        BY <1>0 DEF NetTypeOK, ClientGoes
    <2>2. ClientTypeOK'
        <3>1. st \in ClientState
            BY DEF LiveState, TestState, ClientState, ServerByte
        <3> QED BY <3>1, <1>0 DEF ClientTypeOK, ClientGoes, ClientAlive
    <2>3. ServerTypeOK'
        BY <1>0 DEF ServerTypeOK, srvvars
    <2> QED BY <2>1, <2>2, <2>3 DEF TypeOK
<1>2. OthersKept(c)
    BY <1>0, CtrlConn DEF OthersKept, ClientGoes, NetTypeOK, ClientTypeOK
<1>3. /\ cstate'[c] = st /\ cpc'[c] = pc /\ cmode' = cmode /\ cli' = cli
      /\ srv' = srv /\ backlog' = backlog
    BY <1>0 DEF ClientGoes, ClientTypeOK
<1>4. ClientPlace(c)'
    BY <1>0, <1>3 DEF PerClient, ClientPlace
<1>5. Accounted(c)'
    BY <1>0, <1>3 DEF PerClient, Accounted, Waiting, InBacklog, srvvars
<1>6. Ordered(c)'
    <2>1. ReadBy(k)' = ReadBy(k) /\ SentBy(k)' = SentBy(k)
        BY DEF ReadBy, SentBy, srvvars
    <2>2. ReadBy(k) <= ClientSent(cpc[c], cstate[c]) /\ ReadBy(k) \in Nat
        BY <1>0, ServerRanks DEF PerClient, Ordered
    <2>3. ClientSent(pc, st) \in Nat /\ ClientSent(cpc[c], cstate[c]) \in Nat
        BY ClientRanks
    <2>4. ReadBy(k) <= ClientSent(pc, st)
        BY <2>2, <2>3
    <2> QED BY <2>1, <2>4, <1>3 DEF Ordered
<1>7. Reported(c)'
    <2> QED BY <1>0, <1>3 DEF PerClient, Reported, srvvars
<1>8. Heard(c)'
    BY <1>3 DEF Heard, SentBy, srvvars
<1> QED BY <1>1, <1>2, <1>4, <1>5, <1>6, <1>7, <1>8, OthersKeptInv DEF PerClient

-----------------------------------------------------------------------------
(* What a step of client c starts from.                                    *)
LEMMA ClientFacts ==
    ASSUME ControlInv, NEW c \in Clients
    PROVE  /\ up \in [Conns -> Seq(ClientMsg)] /\ down \in [Conns -> Seq(ServerMsg)]
           /\ cstate[c] \in ClientState /\ cstreams[c] \in 0 .. MaxStreams
           /\ cstreams \in [Clients -> 0 .. MaxStreams]
           /\ cworkers \in [Clients -> SUBSET {"send", "recv"}]
           /\ cpeer \in [Clients -> BOOLEAN] /\ cmode[c] \in Modes
           /\ ClientPlace(c) /\ Accounted(c)
           /\ Ascending(DownRank, down[Ctrl(c)], ClientRead(cstate[c]), SentBy(Ctrl(c)))
           /\ Ascending(UpRank, up[Ctrl(c)], ReadBy(Ctrl(c)), ClientSent(cpc[c], cstate[c]))
           /\ ReadBy(Ctrl(c)) <= ClientSent(cpc[c], cstate[c])
           /\ Heard(c) /\ Reported(c) /\ CookiesOnly
           /\ Ctrl(c) \in Conns
BY CtrlConn DEF ControlInv, TypeOK, NetTypeOK, ClientTypeOK, Ordered

LEMMA CleanupAndFailInv ==
    ASSUME ControlInv, NEW c \in Clients, cpc[c] \in ClientAlive,
           NEW st \in ClientState, NEW dn, CleanupAndFail(c, st, dn), UNCHANGED srvvars,
           Waiting(Ctrl(c)) => st = cstate[c],
           ClientRead(st) < 2 => cstreams[c] = 0
    PROVE  ControlInv'
<1>1. PICK msgs \in {<<>>, <<"IPERF_DONE">>, <<"CLIENT_TERMINATE">>} :
          ClientExit(c, "failed", st, dn, msgs)
    BY DEF CleanupAndFail, iperf_client_end
<1>2. Waiting(Ctrl(c)) => st \in {"0", "CLIENT_TERMINATE"}
    BY ClientFacts DEF Accounted
<1> QED BY <1>1, <1>2, ClientExitInv

(* A message of the server that the client reads in state cstate[c].       *)
LEMMA ClientReads ==
    ASSUME ControlInv, NEW c \in Clients, NEW m \in ServerMsg, ClientSees(Ctrl(c), m)
    PROVE  /\ Unread(down, Ctrl(c)) \in [Conns -> Seq(ServerMsg)]
           /\ \A j \in Conns : j # Ctrl(c) => Unread(down, Ctrl(c))[j] = down[j]
           /\ Ascending(DownRank, Unread(down, Ctrl(c))[Ctrl(c)], DownRank[m], SentBy(Ctrl(c)))
           /\ ClientRead(cstate[c]) < DownRank[m] /\ DownRank[m] <= SentBy(Ctrl(c))
           /\ ~Waiting(Ctrl(c)) /\ down[Ctrl(c)] # <<>>
           /\ \A x \in ServerMsg : Has(Unread(down, Ctrl(c))[Ctrl(c)], x) => Has(down[Ctrl(c)], x)
           /\ \A x \in ServerMsg : x # m /\ Has(down[Ctrl(c)], x)
                                    => Has(Unread(down, Ctrl(c))[Ctrl(c)], x)
<1> DEFINE k == Ctrl(c)
<1>0. down \in [Conns -> Seq(ServerMsg)] /\ k \in Conns /\ Accounted(c)
      /\ Ascending(DownRank, down[k], ClientRead(cstate[c]), SentBy(k))
    BY ClientFacts
<1>1. down[k] # <<>> /\ Head(down[k]) = m
    BY DEF ClientSees
<1>2. ~Waiting(k)
    BY <1>0, <1>1 DEF Accounted
<1>3. /\ Unread(down, k) \in [Conns -> Seq(ServerMsg)]
      /\ \A j \in Conns : j # k => Unread(down, k)[j] = down[j]
      /\ Unread(down, k)[k] = Tail(down[k])
    BY <1>0, <1>1, DownUnread
<1>4. ClientRead(cstate[c]) \in Nat /\ SentBy(k) \in Nat
    BY ClientRanks, ServerRanks
<1>5. /\ Ascending(DownRank, Unread(down, k)[k], DownRank[Head(down[k])], SentBy(k))
      /\ ClientRead(cstate[c]) < DownRank[Head(down[k])]
      /\ DownRank[Head(down[k])] <= SentBy(k)
    BY <1>0, <1>1, <1>4, DownRead
<1>6. ASSUME NEW x \in ServerMsg
      PROVE  /\ Has(Tail(down[k]), x) => Has(down[k], x)
             /\ x # m /\ Has(down[k], x) => Has(Tail(down[k]), x)
    <2>1. down[k] \in Seq(ServerMsg)
        BY <1>0
    <2> QED BY <2>1, <1>1, HasTail
<1> QED BY <1>1, <1>2, <1>3, <1>5, <1>6

(* A write of the client on its control connection.                        *)
LEMMA ClientWrites ==
    ASSUME ControlInv, NEW c \in Clients, NEW m \in ClientMsg,
           ClientSent(cpc[c], cstate[c]) < UpRank[m]
    PROVE  /\ Written(up, srv, Ctrl(c), <<m>>) \in [Conns -> Seq(ClientMsg)]
           /\ \A j \in Conns : j # Ctrl(c) => Written(up, srv, Ctrl(c), <<m>>)[j] = up[j]
           /\ Ascending(UpRank, Written(up, srv, Ctrl(c), <<m>>)[Ctrl(c)],
                        ReadBy(Ctrl(c)), UpRank[m])
<1> DEFINE k == Ctrl(c)
           sent == ClientSent(cpc[c], cstate[c])
<1>0. up \in [Conns -> Seq(ClientMsg)] /\ k \in Conns
      /\ Ascending(UpRank, up[k], ReadBy(k), sent) /\ ReadBy(k) <= sent
    BY ClientFacts
<1>1. <<m>> \in Seq(ClientMsg)
    OBVIOUS
<1>2. ReadBy(k) \in Nat /\ sent \in Nat /\ UpRank[m] \in Nat
    BY ClientRanks, ServerRanks, UpRankType
<1>3. sent < UpRank[m] /\ ReadBy(k) < UpRank[m] /\ UpRank[m] <= UpRank[m]
    BY <1>0, <1>2
<1> HIDE DEF k, sent
<1>4. Ascending(UpRank, Written(up, srv, k, <<m>>)[k], ReadBy(k), UpRank[m])
    BY <1>0, <1>2, <1>3, UpSend, Zenon
<1>5. /\ Written(up, srv, k, <<m>>) \in [Conns -> Seq(ClientMsg)]
      /\ \A j \in Conns : j # k => Written(up, srv, k, <<m>>)[j] = up[j]
    BY <1>0, <1>1 DEF Written
<1> QED BY <1>4, <1>5 DEF k

(* Writing on a control connection puts nothing else on the data streams.  *)
LEMMA CookiesKept ==
    ASSUME ControlInv, NEW c \in Clients,
           \A j \in Conns : j # Ctrl(c) => up'[j] = up[j]
    PROVE  CookiesOnly'
<1>1. CookiesOnly /\ \A j \in DataConns : j \in Conns /\ j # Ctrl(c)
    BY ClientFacts, CtrlConn DEF DataConns
<1> QED BY <1>1 DEF CookiesOnly, DataConns

LEMMA SendCookieInv ==
    ASSUME ControlInv, NEW c \in Clients, SendCookie(c), UNCHANGED srvvars
    PROVE  ControlInv'
<1>0. cpc[c] = "dialled" /\ cpc[c] \in ClientAlive /\ cstate[c] = "0"
    BY ClientFacts DEF SendCookie, ClientAlive, ClientPlace
<1>1. CASE /\ up' = Written(up, srv, Ctrl(c), <<"cookie">>)
           /\ ClientGoes(c, "loop", cstate[c])
           /\ UNCHANGED <<down, cstreams, cworkers, cpeer>>
    <2>1. /\ "cookie" \in ClientMsg /\ UpRank["cookie"] = 1 /\ "0" \in LiveState
          /\ ClientSent(cpc[c], cstate[c]) = 0 /\ ClientSent("loop", "0") = 1
        BY <1>0 DEF ClientMsg, ClientPayload, UpRank, ClientSent, LiveState
    <2>2. /\ up' \in [Conns -> Seq(ClientMsg)]
          /\ \A j \in Conns : j # Ctrl(c) => up'[j] = up[j]
          /\ Ascending(UpRank, up'[Ctrl(c)], ReadBy(Ctrl(c)), ClientSent("loop", "0"))
        BY <1>1, <2>1, ClientWrites
    <2>3. CookiesOnly'
        BY <2>2, CookiesKept
    <2>4. OnlyTouches(c)
        BY <1>1, <2>2, CtrlConn, ClientFacts DEF OnlyTouches
    <2>5. InOrder(c, "loop", "0")
        BY <1>0, <1>1, <2>1, <2>2, ClientFacts DEF InOrder, Accounted, Heard
    <2>6. NothingLost(c)
        BY <1>1 DEF NothingLost
    <2>7. cstreams'[c] = 0
        <3>1. ClientRead("0") = 0
            BY DEF ClientRead, ServerByte
        <3> QED BY <3>1, <1>0, <1>1, ClientFacts DEF ClientPlace
    <2> QED BY <1>0, <1>1, <2>1, <2>3, <2>4, <2>5, <2>6, <2>7, ClientGoesInv
<1>2. CASE CleanupAndFail(c, cstate[c], down)
    BY <1>0, <1>2, ClientFacts, CleanupAndFailInv DEF ClientPlace
<1> QED BY <1>1, <1>2 DEF SendCookie

(* A message answered by a payload: PARAM_EXCHANGE and EXCHANGE_RESULTS.   *)
LEMMA AnswerInv ==
    ASSUME ControlInv, NEW c \in Clients, UNCHANGED srvvars,
           NEW m \in {"PARAM_EXCHANGE", "EXCHANGE_RESULTS"}, NEW payload \in ClientMsg,
           NEW pc \in {"loop", "results"}, Answer(c, m, payload, pc),
           UpRank[payload] = ClientSent(pc, m), UpRank[payload] \in {2, 4},
           m = "PARAM_EXCHANGE" => UpRank[payload] = 2,
           m = "EXCHANGE_RESULTS" => UpRank[payload] = 4
    PROVE  ControlInv'
<1>0. /\ cpc[c] = "loop" /\ cpc[c] \in ClientAlive /\ ClientSees(Ctrl(c), m)
      /\ m \in ServerMsg /\ m \in LiveState /\ m \in ClientState
    BY DEF Answer, Reads, ClientAlive, ServerMsg, ServerByte, LiveState, TestState,
           ClientState
<1>1. /\ DownRank[m] = ClientRead(m) /\ ClientRead(cstate[c]) < ClientRead(m)
      /\ ClientRead(m) = (IF m = "PARAM_EXCHANGE" THEN 1 ELSE 6)
      /\ ClientSees(Ctrl(c), m)
    <2>1. DownRank[m] = ClientRead(m) /\ ClientRead(m) = (IF m = "PARAM_EXCHANGE" THEN 1 ELSE 6)
        BY DEF DownRank, ClientRead, ServerMsg, ServerByte
    <2> QED BY <1>0, <2>1, ClientReads
<1>2. ClientSent(cpc[c], cstate[c]) < UpRank[payload]
    <2>1. cstate[c] \in LiveState
        BY <1>0, ClientFacts DEF ClientPlace
    <2>2. \A st \in LiveState : ClientRead(st) < 1 => ClientSent("loop", st) <= 1
        BY DEF LiveState, TestState, ClientRead, ClientSent, DownRank, ServerMsg, ServerByte
    <2>a. \A st \in LiveState : ClientRead(st) < 6 => ClientSent("loop", st) <= 3
        BY DEF LiveState, TestState, ClientRead, ClientSent, DownRank, ServerMsg, ServerByte
    <2>b. ClientSent(cpc[c], cstate[c]) \in Nat
        BY ClientRanks
    <2>3. ClientRead(cstate[c]) \in Nat
        BY ClientRanks
    <2>5. CASE m = "PARAM_EXCHANGE"
        <3>1. ClientRead(cstate[c]) < 1 /\ UpRank[payload] = 2
            BY <2>5, <1>1
        <3>2. ClientSent(cpc[c], cstate[c]) <= 1
            BY <3>1, <1>0, <2>1, <2>2
        <3> QED BY <3>1, <3>2, <2>b
    <2>6. CASE m = "EXCHANGE_RESULTS"
        <3>1. ClientRead(cstate[c]) < 6 /\ UpRank[payload] = 4
            BY <2>6, <1>1
        <3>2. ClientSent(cpc[c], cstate[c]) <= 3
            BY <3>1, <1>0, <2>1, <2>a
        <3> QED BY <3>1, <3>2, <2>b
    <2> QED BY <2>5, <2>6
<1>3. CASE /\ up' = Written(up, srv, Ctrl(c), <<payload>>)
           /\ down' = Unread(down, Ctrl(c))
           /\ ClientGoes(c, pc, m)
           /\ UNCHANGED <<cstreams, cworkers, cpeer>>
    <2>1. /\ up' \in [Conns -> Seq(ClientMsg)]
          /\ \A j \in Conns : j # Ctrl(c) => up'[j] = up[j]
          /\ Ascending(UpRank, up'[Ctrl(c)], ReadBy(Ctrl(c)), ClientSent(pc, m))
        BY <1>2, <1>3, ClientWrites
    <2>2. /\ down' \in [Conns -> Seq(ServerMsg)]
          /\ \A j \in Conns : j # Ctrl(c) => down'[j] = down[j]
          /\ Ascending(DownRank, down'[Ctrl(c)], ClientRead(m), SentBy(Ctrl(c)))
          /\ ~Waiting(Ctrl(c)) /\ down[Ctrl(c)] # <<>> /\ DownRank[m] <= SentBy(Ctrl(c))
          /\ \A x \in ServerMsg : Has(down'[Ctrl(c)], x) => Has(down[Ctrl(c)], x)
          /\ \A x \in ServerMsg : x # m /\ Has(down[Ctrl(c)], x) => Has(down'[Ctrl(c)], x)
        BY <1>0, <1>1, <1>3, ClientReads
    <2>3. CookiesOnly'
        BY <2>1, CookiesKept
    <2>4. OnlyTouches(c)
        BY <1>3, <2>1, <2>2, CtrlConn, ClientFacts DEF OnlyTouches
    <2>5. InOrder(c, pc, m)
        <3>1. ClientSent(cpc[c], cstate[c]) <= ClientSent(pc, m)
            BY <1>2, ClientRanks
        <3>2. ClientHeard(m) <= SentBy(Ctrl(c))
            BY <1>1, <2>2 DEF ClientHeard
        <3> QED BY <3>1, <3>2, <2>1, <2>2 DEF InOrder
    <2>6. NothingLost(c)
        <3>1. "results" \in ServerMsg /\ "DISPLAY_RESULTS" \in ServerMsg /\ "results" # m
            BY DEF ServerMsg, ServerByte, ServerPayload
        <3> QED BY <1>3, <2>2, <3>1 DEF NothingLost
    <2>7. ClientRead(m) < 2 => cstreams'[c] = 0
        BY <1>1, <1>3, ClientFacts, ClientRanks DEF ClientPlace
    <2> QED BY <1>0, <1>3, <2>3, <2>4, <2>5, <2>6, <2>7, ClientGoesInv
<1>4. CASE CleanupAndFail(c, m, Unread(down, Ctrl(c)))
    <2>1. ~Waiting(Ctrl(c))
        BY <1>0, ClientReads
    <2>2. ClientRead(m) < 2 => cstreams[c] = 0
        BY <1>1, ClientFacts, ClientRanks DEF ClientPlace
    <2> QED BY <1>0, <1>4, <2>1, <2>2, CleanupAndFailInv
<1> QED BY <1>3, <1>4 DEF Answer

LEMMA HandleParamExchangeInv ==
    ASSUME ControlInv, NEW c \in Clients, HandleParamExchange(c), UNCHANGED srvvars
    PROVE  ControlInv'
<1>1. "params" \in ClientMsg /\ UpRank["params"] = 2 /\ ClientSent("loop", "PARAM_EXCHANGE") = 2
    BY DEF ClientMsg, ClientPayload, UpRank, ClientSent
<1> QED BY <1>1, AnswerInv DEF HandleParamExchange

LEMMA HandleExchangeResultsInv ==
    ASSUME ControlInv, NEW c \in Clients, HandleExchangeResults(c), UNCHANGED srvvars
    PROVE  ControlInv'
<1>1. /\ "results" \in ClientMsg /\ UpRank["results"] = 4
      /\ ClientSent("results", "EXCHANGE_RESULTS") = 4
    BY DEF ClientMsg, ClientPayload, UpRank, ClientSent
<1> QED BY <1>1, AnswerInv DEF HandleExchangeResults

(* A message that changes the client's state and is not answered.          *)
LEMMA OnlyReadsInv ==
    ASSUME ControlInv, NEW c \in Clients, UNCHANGED srvvars,
           NEW m \in {"CREATE_STREAMS", "TEST_START", "TEST_RUNNING"},
           NEW pc \in {"loop", "create"}, Reads(c, m),
           down' = Unread(down, Ctrl(c)), ClientGoes(c, pc, m),
           cworkers' \in [Clients -> SUBSET {"send", "recv"}],
           UNCHANGED <<up, cstreams, cpeer>>,
           pc = "create" => m = "CREATE_STREAMS"
    PROVE  ControlInv'
<1>0. /\ cpc[c] = "loop" /\ cpc[c] \in ClientAlive /\ ClientSees(Ctrl(c), m)
      /\ m \in ServerMsg /\ m \in LiveState
    BY DEF Reads, ClientAlive, ServerMsg, ServerByte, LiveState, TestState
<1>1. /\ DownRank[m] = ClientRead(m) /\ ClientRead(m) \in {2, 3, 4}
      /\ m = "CREATE_STREAMS" => ClientRead(m) = 2
    BY DEF DownRank, ClientRead, ServerMsg, ServerByte
<1>2. /\ down' \in [Conns -> Seq(ServerMsg)]
      /\ \A j \in Conns : j # Ctrl(c) => down'[j] = down[j]
      /\ Ascending(DownRank, down'[Ctrl(c)], ClientRead(m), SentBy(Ctrl(c)))
      /\ ClientRead(cstate[c]) < ClientRead(m)
      /\ ~Waiting(Ctrl(c)) /\ down[Ctrl(c)] # <<>> /\ DownRank[m] <= SentBy(Ctrl(c))
      /\ \A x \in ServerMsg : Has(down'[Ctrl(c)], x) => Has(down[Ctrl(c)], x)
      /\ \A x \in ServerMsg : x # m /\ Has(down[Ctrl(c)], x) => Has(down'[Ctrl(c)], x)
    BY <1>0, <1>1, ClientReads
<1>3. CookiesOnly'
    BY CookiesKept
<1>4. OnlyTouches(c)
    BY <1>2, CtrlConn, ClientFacts DEF OnlyTouches
<1>5. ClientSent(cpc[c], cstate[c]) <= ClientSent(pc, m) /\ ClientSent(pc, m) = 2
    <2>1. cstate[c] \in LiveState
        BY <1>0, ClientFacts DEF ClientPlace
    <2>2. \A st \in LiveState : ClientRead(st) < 4 => ClientSent("loop", st) <= 2
        BY DEF LiveState, TestState, ClientRead, ClientSent, DownRank, ServerMsg, ServerByte
    <2>3. ClientSent(pc, m) = 2
        BY DEF ClientSent
    <2>a. ClientRead(cstate[c]) \in Nat
        BY ClientRanks
    <2>4. ClientRead(cstate[c]) < 4
        BY <2>a, <1>1, <1>2
    <2> QED BY <1>0, <2>1, <2>2, <2>3, <2>4
<1>6. InOrder(c, pc, m)
    <2>1. Ascending(UpRank, up'[Ctrl(c)], ReadBy(Ctrl(c)), ClientSent(pc, m))
        <3>1. up[Ctrl(c)] \in Seq(ClientMsg)
              /\ Ascending(UpRank, up[Ctrl(c)], ReadBy(Ctrl(c)), ClientSent(cpc[c], cstate[c]))
            BY ClientFacts
        <3>2. ReadBy(Ctrl(c)) \in Nat /\ ClientSent(cpc[c], cstate[c]) \in Nat
              /\ ReadBy(Ctrl(c)) <= ReadBy(Ctrl(c)) /\ ClientSent(pc, m) \in Nat
            BY ServerRanks, ClientRanks
        <3> QED BY <3>1, <3>2, <1>5, UpWiden
    <2>2. ClientHeard(m) <= SentBy(Ctrl(c))
        BY <1>1, <1>2 DEF ClientHeard
    <2> QED BY <2>1, <2>2, <1>2, <1>5 DEF InOrder
<1>7. NothingLost(c)
    <2>1. "results" \in ServerMsg /\ "DISPLAY_RESULTS" \in ServerMsg /\ "results" # m
        BY DEF ServerMsg, ServerByte, ServerPayload
    <2> QED BY <1>2, <2>1 DEF NothingLost
<1>8. pc = "create" => cstreams'[c] < StreamCount(cmode[c])
    <2>1. StreamCount(cmode[c]) > 0
        BY ConnectionsAssumption DEF StreamCount
    <2>2. ClientRead(cstate[c]) < 2 => cstreams[c] = 0
        BY ClientFacts DEF ClientPlace
    <2> QED BY <2>1, <2>2, <1>1, <1>2
<1> QED BY <1>0, <1>1, <1>3, <1>4, <1>6, <1>7, <1>8, ClientGoesInv

LEMMA HandleCreateStreamsInv ==
    ASSUME ControlInv, NEW c \in Clients, HandleCreateStreams(c), UNCHANGED srvvars
    PROVE  ControlInv'
BY OnlyReadsInv, ClientFacts DEF HandleCreateStreams

LEMMA HandleTestStartInv ==
    ASSUME ControlInv, NEW c \in Clients, HandleTestStart(c), UNCHANGED srvvars
    PROVE  ControlInv'
BY OnlyReadsInv, ClientFacts DEF HandleTestStart

LEMMA HandleTestRunningInv ==
    ASSUME ControlInv, NEW c \in Clients, HandleTestRunning(c), UNCHANGED srvvars
    PROVE  ControlInv'
<1>1. cmode[c] \in {"SENDER", "RECEIVER", "BIDIRECTIONAL"}
    BY ClientFacts, ClientAssumption
<1>2. WorkerKinds(cmode[c]) \in SUBSET {"send", "recv"}
    BY <1>1 DEF WorkerKinds
<1>3. cworkers' \in [Clients -> SUBSET {"send", "recv"}]
    BY <1>2, ClientFacts DEF HandleTestRunning
<1> QED BY <1>3, OnlyReadsInv DEF HandleTestRunning

LEMMA get_resultsInv ==
    ASSUME ControlInv, NEW c \in Clients, get_results(c), UNCHANGED srvvars
    PROVE  ControlInv'
<1>0. cpc[c] = "results" /\ cpc[c] \in ClientAlive /\ cstate[c] \in LiveState
    BY ClientFacts DEF get_results, ClientAlive, ClientPlace
<1>1. CASE /\ ClientSees(Ctrl(c), "results")
           /\ down' = Unread(down, Ctrl(c))
           /\ cpeer' = [cpeer EXCEPT ![c] = TRUE]
           /\ ClientGoes(c, "loop", cstate[c])
           /\ UNCHANGED <<up, cstreams, cworkers>>
    <2>1. /\ "results" \in ServerMsg /\ DownRank["results"] = 7
          /\ "DISPLAY_RESULTS" \in ServerMsg
        BY DEF ServerMsg, ServerByte, ServerPayload, DownRank
    <2>2. /\ down' \in [Conns -> Seq(ServerMsg)]
          /\ \A j \in Conns : j # Ctrl(c) => down'[j] = down[j]
          /\ Ascending(DownRank, down'[Ctrl(c)], 7, SentBy(Ctrl(c)))
          /\ ClientRead(cstate[c]) < 7
          /\ ~Waiting(Ctrl(c)) /\ down[Ctrl(c)] # <<>>
          /\ \A x \in ServerMsg : Has(down'[Ctrl(c)], x) => Has(down[Ctrl(c)], x)
        BY <1>1, <2>1, ClientReads
    <2>3. CookiesOnly'
        BY <1>1, CookiesKept
    <2>4. OnlyTouches(c)
        BY <1>1, <2>2, CtrlConn, ClientFacts DEF OnlyTouches
    <2>5. InOrder(c, "loop", cstate[c])
        <3>1. ClientSent(cpc[c], cstate[c]) = ClientSent("loop", cstate[c])
            BY <1>0 DEF ClientSent
        <3>2. down'[Ctrl(c)] \in Seq(ServerMsg) /\ ClientRead(cstate[c]) \in Nat
              /\ SentBy(Ctrl(c)) \in Nat /\ ClientRead(cstate[c]) <= 7 /\ 7 \in Nat
              /\ SentBy(Ctrl(c)) <= SentBy(Ctrl(c))
            BY <2>2, ClientFacts, ClientRanks, ServerRanks
        <3>3. Ascending(DownRank, down'[Ctrl(c)], ClientRead(cstate[c]), SentBy(Ctrl(c)))
            BY <2>2, <3>2, DownWiden, Zenon
        <3>4. ClientSent("loop", cstate[c]) \in Nat
            BY ClientRanks
        <3> QED BY <1>1, <2>2, <3>1, <3>3, <3>4, ClientFacts DEF InOrder, Heard
    <2>6. NothingLost(c)
        BY <1>1, <2>1, <2>2, ClientFacts DEF NothingLost
    <2>7. ClientRead(cstate[c]) < 2 => cstreams'[c] = 0
        BY <1>1, ClientFacts DEF ClientPlace
    <2> QED BY <1>0, <1>1, <2>3, <2>4, <2>5, <2>6, <2>7, ClientGoesInv
<1>2. CASE \E dn : CleanupAndFail(c, cstate[c], dn)
    BY <1>0, <1>2, ClientFacts, CleanupAndFailInv DEF ClientPlace
<1> QED BY <1>1, <1>2 DEF get_results

LEMMA SendStreamCookieInv ==
    ASSUME ControlInv, NEW c \in Clients, SendStreamCookie(c), UNCHANGED srvvars
    PROVE  ControlInv'
<1> DEFINE n == cstreams[c] + 1
           k == <<c, n>>
           pc == IF n = StreamCount(cmode[c]) THEN "loop" ELSE "create"
           st == "CREATE_STREAMS"
<1>0. /\ cpc[c] = "stream" /\ cpc[c] \in ClientAlive /\ cstate[c] = st
      /\ cstreams[c] < StreamCount(cmode[c])
    BY ClientFacts DEF SendStreamCookie, ClientAlive, ClientPlace
<1>1. CASE /\ up' = Written(up, srv, k, <<"cookie">>)
           /\ cstreams' = [cstreams EXCEPT ![c] = n]
           /\ ClientGoes(c, pc, cstate[c])
           /\ UNCHANGED <<down, cworkers, cpeer>>
    <2>1. n \in 1 .. MaxStreams /\ n <= StreamCount(cmode[c]) /\ k \in Conns /\ ~IsControl(k)
        <3>1. NumStreams \in Nat /\ NumStreams > 0 /\ cstreams[c] \in Nat
            BY ConnectionsAssumption, ClientFacts DEF MaxStreams
        <3>2. StreamCount(cmode[c]) \in Nat /\ StreamCount(cmode[c]) <= MaxStreams
              /\ MaxStreams \in Nat
            BY <3>1 DEF StreamCount, MaxStreams
        <3>3. n \in 1 .. MaxStreams /\ n <= StreamCount(cmode[c])
            BY <3>1, <3>2, <1>0
        <3> HIDE DEF n
        <3>4. k \in Conns /\ ~IsControl(k)
            BY <3>2, <3>3 DEF Conns, IsControl
        <3> QED BY <3>3, <3>4
    <2>2. up \in [Conns -> Seq(ClientMsg)] /\ "cookie" \in ClientMsg /\ <<"cookie">> \in Seq(ClientMsg)
        BY ClientFacts DEF ClientMsg, ClientPayload
    <2> HIDE DEF k, n, pc
    <2>3. /\ up' \in [Conns -> Seq(ClientMsg)]
          /\ \A j \in Conns : j # k => up'[j] = up[j]
          /\ up'[k] = up[k] \/ up'[k] = up[k] \o <<"cookie">>
        BY <1>1, <2>1, <2>2 DEF Written
    <2>4. CookiesOnly'
        <3>1. ASSUME NEW j \in DataConns, NEW i \in 1 .. Len(up'[j])
              PROVE  up'[j][i] = "cookie"
            <4>1. j \in Conns /\ \A h \in 1 .. Len(up[j]) : up[j][h] = "cookie"
                BY ClientFacts DEF CookiesOnly, DataConns
            <4>2. CASE up'[j] = up[j]
                BY <4>1, <4>2
            <4>3. CASE up'[j] = up[j] \o <<"cookie">>
                BY <4>1, <4>3, <2>2
            <4> QED BY <4>1, <4>2, <4>3, <2>3
        <3>2. DataConns' = DataConns
            BY DEF DataConns, Conns, IsControl
        <3> QED BY <3>1, <3>2 DEF CookiesOnly
    <2>5. \A d \in Clients : up'[Ctrl(d)] = up[Ctrl(d)]
        BY <2>1, <2>3, CtrlConn
    <2>6. OnlyTouches(c)
        BY <1>1, <2>1, <2>3, <2>5, ClientFacts DEF OnlyTouches
    <2>7. pc \in {"loop", "create"} /\ st \in LiveState /\ ClientRead(st) = 2
        BY DEF pc, LiveState, TestState, ClientRead, DownRank, ServerByte, ServerMsg
    <2>8. InOrder(c, pc, st)
        <3>1. ClientSent(cpc[c], cstate[c]) = ClientSent(pc, st) /\ ClientSent(pc, st) \in Nat
            BY <1>0, <2>7, ClientRanks DEF ClientSent
        <3>2. ~Waiting(Ctrl(c))
            BY <1>0, ClientFacts DEF Accounted
        <3>3. Ascending(UpRank, up'[Ctrl(c)], ReadBy(Ctrl(c)), ClientSent(pc, st))
            BY <2>5, <3>1, ClientFacts
        <3>4. Ascending(DownRank, down'[Ctrl(c)], ClientRead(st), SentBy(Ctrl(c)))
            BY <1>0, <1>1, ClientFacts
        <3> QED BY <1>0, <1>1, <3>1, <3>2, <3>3, <3>4, ClientFacts DEF InOrder, Heard
    <2>9. NothingLost(c)
        BY <1>1 DEF NothingLost
    <2>10. pc = "create" => cstreams'[c] < StreamCount(cmode[c])
        BY <1>1, <2>1, ClientFacts, ConnectionsAssumption DEF pc, StreamCount
    <2> QED BY <1>0, <1>1, <2>4, <2>6, <2>7, <2>8, <2>9, <2>10, ClientGoesInv
<1>2. CASE CleanupAndFail(c, cstate[c], down)
    BY <1>0, <1>2, ClientFacts, CleanupAndFailInv DEF ClientPlace
<1> QED BY <1>1, <1>2 DEF SendStreamCookie

LEMMA TestDoneInv ==
    ASSUME ControlInv, NEW c \in Clients, TestDone(c), UNCHANGED srvvars
    PROVE  ControlInv'
<1>0. /\ cpc[c] = "loop" /\ cpc[c] \in ClientAlive /\ cstate[c] = "TEST_RUNNING"
      /\ "TEST_END" \in LiveState /\ "TEST_END" \in ClientState
    BY DEF TestDone, ClientAlive, LiveState, TestState, ClientState
<1>1. ClientRead("TEST_RUNNING") = 4 /\ ClientRead("TEST_END") = 5
    BY DEF ClientRead, DownRank, ServerByte, ServerMsg
<1>w. ~Waiting(Ctrl(c))
    BY <1>0, ClientFacts DEF Accounted
<1>2. CASE /\ cworkers' = [cworkers EXCEPT ![c] = @ \ {"send"}]
           /\ up' = Written(up, srv, Ctrl(c), <<"TEST_END">>)
           /\ ClientGoes(c, "loop", "TEST_END")
           /\ UNCHANGED <<down, cstreams, cpeer>>
    <2>1. /\ "TEST_END" \in ClientMsg /\ UpRank["TEST_END"] = 3
          /\ ClientSent(cpc[c], cstate[c]) = 2 /\ ClientSent("loop", "TEST_END") = 3
        BY <1>0 DEF ClientMsg, ClientByte, UpRank, ClientSent
    <2>2. /\ up' \in [Conns -> Seq(ClientMsg)]
          /\ \A j \in Conns : j # Ctrl(c) => up'[j] = up[j]
          /\ Ascending(UpRank, up'[Ctrl(c)], ReadBy(Ctrl(c)), ClientSent("loop", "TEST_END"))
        BY <1>2, <2>1, ClientWrites
    <2>3. CookiesOnly'
        BY <2>2, CookiesKept
    <2>4. OnlyTouches(c)
        BY <1>2, <2>2, CtrlConn, ClientFacts DEF OnlyTouches
    <2>5. InOrder(c, "loop", "TEST_END")
        <3>1. down[Ctrl(c)] \in Seq(ServerMsg) /\ SentBy(Ctrl(c)) \in Nat
              /\ Ascending(DownRank, down[Ctrl(c)], 4, SentBy(Ctrl(c)))
            BY <1>0, <1>1, ClientFacts, ServerRanks
        <3>2. Ascending(DownRank, down[Ctrl(c)], 5, SentBy(Ctrl(c)))
            BY <3>1, NothingAtTestEnd
        <3>3. cli[Ctrl(c)] = "open" => ClientHeard("TEST_END") <= SentBy(Ctrl(c))
            BY <1>0, <1>1, ClientFacts DEF Heard, ClientHeard
        <3> QED BY <1>1, <1>2, <1>w, <2>1, <2>2, <3>2, <3>3 DEF InOrder
    <2>6. NothingLost(c)
        BY <1>2 DEF NothingLost
    <2> QED BY <1>0, <1>1, <1>2, <2>3, <2>4, <2>5, <2>6, ClientGoesInv
<1>3. CASE CleanupAndFail(c, "TEST_END", down)
    BY <1>0, <1>1, <1>3, <1>w, CleanupAndFailInv
<1> QED BY <1>2, <1>3 DEF TestDone

-----------------------------------------------------------------------------
(* A connection joins the end of the backlog.                              *)
LEMMA BacklogAppend ==
    ASSUME backlog \in Seq(Conns), NEW k \in Conns, backlog' = Append(backlog, k)
    PROVE  /\ backlog' \in Seq(Conns)
           /\ InBacklog(k)'
           /\ \A j \in Conns : j # k => (InBacklog(j)' <=> InBacklog(j))
           /\ \A j \in Conns : j # k \/ ~InBacklog(k) =>
                 ((\A i, h \in 1 .. Len(backlog) : backlog[i] = j /\ backlog[h] = j => i = h)
                  => (\A i, h \in 1 .. Len(backlog') : backlog'[i] = j /\ backlog'[h] = j => i = h))
<1>1. /\ backlog' \in Seq(Conns) /\ Len(backlog') = Len(backlog) + 1
      /\ backlog'[Len(backlog) + 1] = k /\ Len(backlog) \in Nat
      /\ \A i \in 1 .. Len(backlog) : backlog'[i] = backlog[i]
    OBVIOUS
<1>2. InBacklog(k)'
    BY <1>1 DEF InBacklog
<1>3. ASSUME NEW j \in Conns, j # k PROVE InBacklog(j)' <=> InBacklog(j)
    BY <1>1, <1>3 DEF InBacklog
<1>4. ASSUME NEW j \in Conns, j # k \/ ~InBacklog(k),
             \A i, h \in 1 .. Len(backlog) : backlog[i] = j /\ backlog[h] = j => i = h,
             NEW i \in 1 .. Len(backlog'), NEW h \in 1 .. Len(backlog'),
             backlog'[i] = j, backlog'[h] = j
      PROVE  i = h
    <2>1. CASE j # k
        <3>1. i \in 1 .. Len(backlog) /\ h \in 1 .. Len(backlog)
            BY <1>1, <1>4, <2>1
        <3> QED BY <1>1, <1>4, <3>1
    <2>2. CASE j = k /\ ~InBacklog(k)
        <3>1. \A x \in 1 .. Len(backlog) : backlog[x] # k
            BY <2>2 DEF InBacklog
        <3>2. i = Len(backlog) + 1 /\ h = Len(backlog) + 1
            BY <1>1, <1>4, <2>2, <3>1
        <3> QED BY <3>2
    <2> QED BY <1>4, <2>1, <2>2
<1> QED BY <1>1, <1>2, <1>3, <1>4

(* Somebody else's dialling, or one of client d's own streams.             *)
LEMMA DialledKeeps ==
    ASSUME ControlInv, NEW k \in Conns, Dialled(k), UNCHANGED srvvars,
           NEW d \in Clients, k # Ctrl(d),
           cstate'[d] = cstate[d], cmode'[d] = cmode[d], cstreams'[d] = cstreams[d],
           cpeer'[d] = cpeer[d],
           cpc'[d] = cpc[d] \/ (cpc[d] = "create" /\ cpc'[d] = "stream")
    PROVE  PerClient(d)'
<1> DEFINE j == Ctrl(d)
<1>0. /\ PerClient(d) /\ j \in Conns /\ backlog \in Seq(Conns)
      /\ cli \in [Conns -> End] /\ srv \in [Conns -> End]
    BY InvParts, CtrlConn DEF TypeOK, NetTypeOK
<1>1. /\ cli'[j] = cli[j] /\ srv'[j] = srv[j] /\ up' = up /\ down' = down
      /\ backlog' = Append(backlog, k)
    BY <1>0 DEF Dialled
<1>2. /\ InBacklog(j)' <=> InBacklog(j)
      /\ (\A i, h \in 1 .. Len(backlog) : backlog[i] = j /\ backlog[h] = j => i = h)
          => (\A i, h \in 1 .. Len(backlog') : backlog'[i] = j /\ backlog'[h] = j => i = h)
    BY <1>0, <1>1, BacklogAppend
<1>3. ClientPlace(d)'
    BY <1>0, <1>1 DEF PerClient, ClientPlace, ClientAlive
<1>4. Accounted(d)'
    BY <1>0, <1>1, <1>2 DEF PerClient, Accounted, Waiting, srvvars
<1>5. Ordered(d)'
    <2>1. ClientSent(cpc'[d], cstate'[d]) = ClientSent(cpc[d], cstate[d])
        BY DEF ClientSent
    <2>2. ReadBy(j)' = ReadBy(j) /\ SentBy(j)' = SentBy(j)
        BY DEF ReadBy, SentBy, srvvars
    <2> QED BY <1>0, <1>1, <2>1, <2>2 DEF PerClient, Ordered
<1>6. Reported(d)'
    BY <1>0, <1>1 DEF PerClient, Reported, srvvars
<1>7. Heard(d)'
    BY <1>0, <1>1 DEF PerClient, Heard, SentBy, srvvars
<1> QED BY <1>3, <1>4, <1>5, <1>6, <1>7 DEF PerClient

LEMMA DialledTypes ==
    ASSUME ControlInv, NEW k \in Conns, Dialled(k), UNCHANGED srvvars, ClientTypeOK'
    PROVE  TypeOK' /\ CookiesOnly' /\ ServerPlace'
<1>0. NetTypeOK /\ ServerTypeOK /\ CookiesOnly /\ ServerPlace
    BY DEF ControlInv, TypeOK
<1>1. NetTypeOK'
    <2>1. backlog' \in Seq(Conns)
        BY <1>0, BacklogAppend DEF Dialled, NetTypeOK
    <2> QED BY <1>0, <2>1 DEF NetTypeOK, Dialled, End
<1>2. ServerTypeOK' /\ ServerPlace'
    BY <1>0 DEF ServerTypeOK, ServerPlace, srvvars
<1>3. CookiesOnly'
    BY <1>0 DEF CookiesOnly, DataConns, Dialled
<1> QED BY <1>1, <1>2, <1>3 DEF TypeOK

LEMMA iperf_connectInv ==
    ASSUME ControlInv, NEW c \in Clients, iperf_connect(c), UNCHANGED srvvars
    PROVE  ControlInv'
<1> DEFINE k == Ctrl(c)
<1>0. cpc[c] = "start" /\ cpc[c] \in ClientAlive /\ cstate[c] = "0" /\ srv[k] = "none"
    BY ClientFacts DEF iperf_connect, ClientAlive, ClientPlace
<1>1. CASE /\ Dialled(k)
           /\ cpc' = [cpc EXCEPT ![c] = "dialled"]
           /\ UNCHANGED <<cstate, cmode, copt, cstreams, cworkers, cpeer>>
    <2>0. /\ k \in Conns /\ TypeOK /\ NetTypeOK /\ ClientTypeOK /\ PerClient(c)
          /\ backlog \in Seq(Conns)
        BY InvParts, CtrlConn DEF TypeOK, NetTypeOK
    <2>1. ClientTypeOK'
        BY <1>1, <2>0 DEF ClientTypeOK, ClientAlive
    <2>2. ASSUME NEW d \in Clients, d # c PROVE PerClient(d)'
        <3>1. k # Ctrl(d) /\ cpc'[d] = cpc[d]
            BY <1>1, <2>0, <2>2, CtrlConn DEF ClientTypeOK
        <3> QED BY <1>1, <2>0, <3>1, DialledKeeps
    <2>3. /\ cpc'[c] = "dialled" /\ cli'[k] = "open" /\ srv'[k] = "open"
          /\ up' = up /\ down' = down /\ backlog' = Append(backlog, k)
        BY <1>1, <2>0 DEF Dialled, NetTypeOK, ClientTypeOK
    <2>4. ~InBacklog(k) /\ acc # k /\ ctrl # k
        BY <1>0, <2>0 DEF PerClient, Accounted, Waiting
    <2>5. ClientPlace(c)'
        BY <1>0, <1>1, <2>0, <2>3 DEF PerClient, ClientPlace, ClientAlive
    <2>6. down[k] = <<>> /\ c \notin reported
        <3>1. cli[k] # "open"
            BY <1>0, <2>0 DEF PerClient, ClientPlace
        <3> QED BY <1>0, <2>0, <3>1 DEF PerClient, ClientPlace, Reported
    <2>7. Accounted(c)'
        <3>1. InBacklog(k)' /\ acc' # k /\ ctrl' # k /\ c \notin reported'
            BY <2>0, <2>3, <2>4, <2>6, BacklogAppend DEF srvvars
        <3>2. \A i, h \in 1 .. Len(backlog') : backlog'[i] = k /\ backlog'[h] = k => i = h
            <4>1. \A i, h \in 1 .. Len(backlog) : backlog[i] = k /\ backlog[h] = k => i = h
                BY <2>0 DEF PerClient, Accounted
            <4> QED BY <2>0, <2>3, <2>4, <4>1, BacklogAppend
        <3> QED BY <1>0, <1>1, <2>3, <2>6, <3>1, <3>2 DEF Accounted, Waiting
    <2>8. Ordered(c)'
        <3>1. ClientSent(cpc'[c], cstate'[c]) = ClientSent(cpc[c], cstate[c])
            BY <1>0, <1>1, <2>3 DEF ClientSent
        <3>2. ReadBy(k)' = ReadBy(k) /\ SentBy(k)' = SentBy(k)
            BY DEF ReadBy, SentBy, srvvars
        <3> QED BY <1>1, <2>0, <2>3, <3>1, <3>2 DEF PerClient, Ordered
    <2>9. Reported(c)'
        BY <2>3, <2>4, <2>6, HasEmpty DEF Reported, srvvars
    <2>10. Heard(c)'
        <3>1. ClientHeard("0") = 0 /\ SentBy(k)' = SentBy(k) /\ SentBy(k) \in Nat
            BY ServerRanks DEF ClientHeard, ClientRead, ServerByte, SentBy, srvvars
        <3> QED BY <1>0, <1>1, <3>1 DEF Heard
    <2> QED BY <1>1, <2>0, <2>1, <2>2, <2>5, <2>7, <2>8, <2>9, <2>10, DialledTypes
        DEF ControlInv, PerClient
<1>2. CASE CleanupAndFail(c, cstate[c], down)
    BY <1>0, <1>2, ClientFacts, CleanupAndFailInv DEF ClientPlace
<1> QED BY <1>1, <1>2 DEF iperf_connect

LEMMA iperf_create_streamsInv ==
    ASSUME ControlInv, NEW c \in Clients, iperf_create_streams(c), UNCHANGED srvvars
    PROVE  ControlInv'
<1> DEFINE k == <<c, cstreams[c] + 1>>
<1>0. cpc[c] = "create" /\ cpc[c] \in ClientAlive /\ cstreams[c] < StreamCount(cmode[c])
    BY ClientFacts DEF iperf_create_streams, ClientAlive, ClientPlace
<1>1. CASE /\ Dialled(k)
           /\ cpc' = [cpc EXCEPT ![c] = "stream"]
           /\ UNCHANGED <<cstate, cmode, copt, cstreams, cworkers, cpeer>>
    <2>0. ClientTypeOK /\ cstreams[c] \in Nat
        BY ClientFacts DEF ControlInv, TypeOK, MaxStreams
    <2>1. k \in Conns /\ \A d \in Clients : k # Ctrl(d)
        <3>1. StreamCount(cmode[c]) <= MaxStreams /\ MaxStreams \in Nat
              /\ StreamCount(cmode[c]) \in Nat
            BY ConnectionsAssumption DEF StreamCount, MaxStreams
        <3>2. cstreams[c] + 1 \in 0 .. MaxStreams /\ cstreams[c] + 1 # 0
            BY <1>0, <2>0, <3>1
        <3> QED BY <3>2 DEF Conns, Ctrl
    <2> HIDE DEF k
    <2>2. ClientTypeOK'
        BY <1>1, <2>0 DEF ClientTypeOK, ClientAlive
    <2>3. ASSUME NEW d \in Clients PROVE PerClient(d)'
        <3>1. cpc'[d] = cpc[d] \/ (cpc[d] = "create" /\ cpc'[d] = "stream")
            BY <1>0, <1>1, <2>0 DEF ClientTypeOK
        <3> QED BY <1>1, <2>1, <3>1, DialledKeeps
    <2> QED BY <1>1, <2>1, <2>2, <2>3, DialledTypes DEF ControlInv, PerClient
<1>2. CASE CleanupAndFail(c, cstate[c], down)
    BY <1>0, <1>2, ClientFacts, CleanupAndFailInv DEF ClientPlace
<1> QED BY <1>1, <1>2 DEF iperf_create_streams

-----------------------------------------------------------------------------
(* DISPLAY_RESULTS is read only by a client that has the server's results. *)
LEMMA HandleDisplayResultsInv ==
    ASSUME ControlInv, NEW c \in Clients, HandleDisplayResults(c), UNCHANGED srvvars
    PROVE  ControlInv' /\ c \in reported /\ cpeer[c]
<1> DEFINE k == Ctrl(c)
           m == "DISPLAY_RESULTS"
<1>0. /\ cpc[c] = "loop" /\ cpc[c] \in ClientAlive /\ down[k] # <<>> /\ Head(down[k]) = m
      /\ m \in ServerMsg /\ "results" \in ServerMsg /\ ClientSees(k, m)
      /\ DownRank[m] = 8 /\ DownRank["results"] = 7
    BY DEF HandleDisplayResults, Reads, ClientSees, ClientAlive, ServerMsg, ServerByte,
           ServerPayload, DownRank
<1>1. down[k] \in Seq(ServerMsg)
    BY ClientFacts
<1>2. Has(down[k], m)
    <2>1. 1 \in 1 .. Len(down[k]) /\ down[k][1] = m
        BY <1>0, <1>1
    <2> QED BY <2>1 DEF Has
<1>3. ~Has(down[k], "results")
    <2> SUFFICES ASSUME NEW i \in 1 .. Len(down[k]), down[k][i] = "results"
                 PROVE  FALSE
        BY DEF Has
    <2>1. Ascending(DownRank, down[k], ClientRead(cstate[c]), SentBy(k))
        BY ClientFacts
    <2>2. 1 \in 1 .. Len(down[k]) /\ down[k][1] = m
        BY <1>0, <1>1
    <2>3. 1 < i => DownRank[m] < DownRank["results"]
        BY <2>1, <2>2 DEF Ascending
    <2>4. i = 1
        BY <2>3, <1>0
    <2> QED BY <2>2, <2>4
<1>4. c \in reported /\ cpeer[c]
    BY <1>2, <1>3, ClientFacts DEF Reported
<1>5. ClientExit(c, "ok", "IPERF_DONE", Unread(down, k), <<"IPERF_DONE">>)
    BY DEF HandleDisplayResults
<1>6. ~Waiting(k)
    BY <1>0, ClientReads
<1>7. "IPERF_DONE" \in ClientState /\ ClientRead("IPERF_DONE") = 10
    BY DEF ClientState, ClientRead, ServerByte
<1> QED BY <1>0, <1>4, <1>5, <1>6, <1>7, ClientExitInv

LEMMA HandleRefusalInv ==
    ASSUME ControlInv, NEW c \in Clients, HandleRefusal(c), UNCHANGED srvvars
    PROVE  ControlInv'
<1>1. PICK m \in {"SERVER_TERMINATE", "ACCESS_DENIED", "SERVER_ERROR"} :
          Reads(c, m) /\ CleanupAndFail(c, m, Unread(down, Ctrl(c)))
    BY DEF HandleRefusal
<1>2. /\ cpc[c] \in ClientAlive /\ ClientSees(Ctrl(c), m) /\ m \in ServerMsg
      /\ m \in ClientState /\ ClientRead(m) = 9
    BY <1>1 DEF Reads, ClientAlive, ServerMsg, ServerByte, ClientState, ClientRead, DownRank
<1>3. ~Waiting(Ctrl(c))
    BY <1>2, ClientReads
<1> QED BY <1>1, <1>2, <1>3, CleanupAndFailInv

LEMMA GivesUpInv ==
    ASSUME ControlInv, NEW c \in Clients, ControlClosed(c) \/ ClientIdle(c),
           UNCHANGED srvvars
    PROVE  ControlInv'
<1>1. cpc[c] = "loop" /\ cpc[c] \in ClientAlive /\ CleanupAndFail(c, cstate[c], down)
    BY DEF ControlClosed, ClientIdle, ClientAlive
<1> QED BY <1>1, ClientFacts, CleanupAndFailInv DEF ClientPlace

LEMMA ClientSigEndInv ==
    ASSUME ControlInv, NEW c \in Clients, ClientSigEnd(c), UNCHANGED srvvars
    PROVE  ControlInv'
<1>1. PICK msgs \in {<<>>, <<"IPERF_DONE">>, <<"CLIENT_TERMINATE">>} :
          ClientExit(c, "killed", "CLIENT_TERMINATE", down, msgs)
    BY DEF ClientSigEnd
<1>2. /\ cpc[c] \in ClientAlive /\ "CLIENT_TERMINATE" \in ClientState
      /\ ClientRead("CLIENT_TERMINATE") = 10
    BY DEF ClientSigEnd, ClientState, ClientRead, ServerByte
<1> QED BY <1>1, <1>2, ClientExitInv

LEMMA ClientVanishesInv ==
    ASSUME ControlInv, NEW c \in Clients, ClientVanishes(c), UNCHANGED srvvars
    PROVE  ControlInv'
<1> DEFINE k == Ctrl(c)
<1>0. TypeOK /\ NetTypeOK /\ ClientTypeOK /\ ServerTypeOK /\ PerClient(c) /\ CookiesOnly
      /\ k \in Conns
    BY InvParts, CtrlConn DEF TypeOK
<1>1. /\ cpc'[c] = "gone" /\ cstate' = cstate /\ cmode' = cmode /\ cstreams' = cstreams
      /\ cpeer' = cpeer /\ cli' = cli /\ srv' = srv /\ up' = up /\ down' = down
      /\ backlog' = backlog /\ listening' = listening /\ copt' = copt
      /\ cpc[c] \in ClientAlive /\ \A d \in Clients : d # c => cpc'[d] = cpc[d]
    BY <1>0 DEF ClientVanishes, netvars, ClientTypeOK
<1>2. TypeOK'
    <2>1. ClientTypeOK'
        BY <1>0, <1>1 DEF ClientTypeOK, ClientVanishes, ClientEnded
    <2>2. NetTypeOK' /\ ServerTypeOK'
        BY <1>0, <1>1 DEF NetTypeOK, ServerTypeOK, srvvars
    <2> QED BY <2>1, <2>2 DEF TypeOK
<1>3. CookiesOnly' /\ OthersKept(c)
    BY <1>0, <1>1 DEF CookiesOnly, DataConns, OthersKept
<1>4. ClientPlace(c)'
    BY <1>0, <1>1 DEF PerClient, ClientPlace, ClientAlive
<1>5. Accounted(c)'
    BY <1>0, <1>1 DEF PerClient, Accounted, Waiting, InBacklog, srvvars
<1>6. Ordered(c)'
    <2>1. ReadBy(k)' = ReadBy(k) /\ SentBy(k)' = SentBy(k) /\ ReadBy(k) \in Nat
          /\ SentBy(k) \in Nat
        BY ServerRanks DEF ReadBy, SentBy, srvvars
    <2>2. ClientSent(cpc[c], cstate[c]) <= ClientSent(cpc'[c], cstate'[c])
        BY <1>0, <1>1 DEF ClientSent, PerClient, ClientPlace, ClientAlive
    <2>3. /\ ClientSent(cpc[c], cstate[c]) \in Nat /\ ClientSent(cpc'[c], cstate'[c]) \in Nat
          /\ up[k] \in Seq(ClientMsg) /\ ReadBy(k) <= ReadBy(k)
        BY <1>0, <2>1, ClientRanks DEF NetTypeOK
    <2>4. /\ Ascending(UpRank, up[k], ReadBy(k), ClientSent(cpc[c], cstate[c]))
          /\ Ascending(DownRank, down[k], ClientRead(cstate[c]), SentBy(k))
          /\ ReadBy(k) <= ClientSent(cpc[c], cstate[c])
        BY <1>0 DEF PerClient, Ordered
    <2>5. Ascending(UpRank, up[k], ReadBy(k), ClientSent(cpc'[c], cstate'[c]))
        BY <2>1, <2>2, <2>3, <2>4, UpWiden
    <2>6. ReadBy(k) <= ClientSent(cpc'[c], cstate'[c])
        BY <2>1, <2>2, <2>3, <2>4
    <2> QED BY <1>1, <2>1, <2>4, <2>5, <2>6 DEF Ordered
<1>7. Reported(c)'
    BY <1>0, <1>1 DEF PerClient, Reported, srvvars
<1>8. Heard(c)'
    BY <1>0, <1>1 DEF PerClient, Heard, SentBy, srvvars
<1> QED BY <1>2, <1>3, <1>4, <1>5, <1>6, <1>7, <1>8, OthersKeptInv DEF PerClient

LEMMA ClientInv ==
    ASSUME ControlInv, NEW c \in Clients, ClientStep(c) \/ ClientFault(c),
           UNCHANGED srvvars
    PROVE  ControlInv'
BY iperf_connectInv, SendCookieInv, HandleParamExchangeInv, HandleCreateStreamsInv,
   iperf_create_streamsInv, SendStreamCookieInv, HandleTestStartInv, HandleTestRunningInv,
   TestDoneInv, HandleExchangeResultsInv, get_resultsInv, HandleDisplayResultsInv,
   HandleRefusalInv, GivesUpInv, ClientSigEndInv, ClientVanishesInv
DEF ClientStep, ClientFault

-----------------------------------------------------------------------------
(* The server.                                                             *)


(* What a step of the server starts from.                                  *)
LEMMA ServerFacts ==
    ASSUME ControlInv
    PROVE  /\ TypeOK /\ NetTypeOK /\ ClientTypeOK /\ ServerTypeOK
           /\ up \in [Conns -> Seq(ClientMsg)] /\ down \in [Conns -> Seq(ServerMsg)]
           /\ backlog \in Seq(Conns) /\ srv \in [Conns -> End] /\ cli \in [Conns -> End]
           /\ ServerPlace /\ CookiesOnly /\ NoConn \notin Conns
           /\ ctrl \in Conns \cup {NoConn} /\ acc \in Conns \cup {NoConn}
           /\ ctrl # NoConn => ServerSent(spc, sstate) <= 8
           /\ ServerSent(spc, sstate) \in Nat /\ ServerRead(spc, sstate) \in Nat
<1>1. NoConn \notin Conns
    BY ConnectionsAssumption DEF Conns, MaxStreams
<1>2. ServerPlace /\ TypeOK
    BY DEF ControlInv
<1>3. ctrl # NoConn => ServerSent(spc, sstate) <= 8
    BY <1>2 DEF ServerPlace, ServerSent, DownRank, ServerMsg, ServerByte, TypeOK,
           ServerTypeOK, ServerPc
<1>4. ServerSent(spc, sstate) \in Nat /\ ServerRead(spc, sstate) \in Nat
    <2>1. \A st \in ServerByte : DownRank[st] \in Nat
        BY DownRankType DEF ServerMsg
    <2> QED BY <2>1 DEF ServerSent, ServerRead
<1> QED BY <1>1, <1>2, <1>3, <1>4 DEF ControlInv, TypeOK, NetTypeOK, ServerTypeOK

(* What the server leaves in the channels of a client it is done with.     *)
Parting(c, out) ==
    LET k == Ctrl(c) IN
    /\ Ascending(DownRank, out[k], ClientRead(cstate[c]), 10)
    /\ cli[k] # "open" => out[k] = <<>>
    /\ Has(out[k], "DISPLAY_RESULTS") => c \in reported /\ (cpeer[c] \/ Has(out[k], "results"))

LEMMA DownParting ==
    ASSUME ControlInv, NEW c \in Clients
    PROVE  Parting(c, down)
<1> DEFINE k == Ctrl(c)
<1>1. /\ Ascending(DownRank, down[k], ClientRead(cstate[c]), SentBy(k))
      /\ down[k] \in Seq(ServerMsg) /\ ClientPlace(c) /\ Reported(c)
    BY ClientFacts
<1>2. ClientRead(cstate[c]) \in Nat /\ SentBy(k) \in Nat /\ SentBy(k) <= 10
      /\ ClientRead(cstate[c]) <= ClientRead(cstate[c]) /\ 10 \in Nat
    BY ClientRanks, ServerRanks
<1>3. Ascending(DownRank, down[k], ClientRead(cstate[c]), 10)
    BY <1>1, <1>2, DownWiden
<1> QED BY <1>1, <1>3 DEF Parting, ClientPlace, Reported

(* A refusal written on a connection that is about to be closed: the one   *)
(* that is served, or one that waits.                                      *)
Refusals == {<<>>, <<"SERVER_ERROR", "errs">>, <<"SERVER_TERMINATE">>, <<"ACCESS_DENIED">>}

LEMMA RefusalTypes == \A msgs \in Refusals : /\ msgs \in Seq(ServerMsg)
                                             /\ ~Has(msgs, "DISPLAY_RESULTS")
<1>1. /\ "SERVER_ERROR" \in ServerMsg /\ "errs" \in ServerMsg
      /\ "SERVER_TERMINATE" \in ServerMsg /\ "ACCESS_DENIED" \in ServerMsg
    BY DEF ServerMsg, ServerByte, ServerPayload
<1>2. /\ <<>> \in Seq(ServerMsg) /\ <<"SERVER_ERROR", "errs">> \in Seq(ServerMsg)
      /\ <<"SERVER_TERMINATE">> \in Seq(ServerMsg) /\ <<"ACCESS_DENIED">> \in Seq(ServerMsg)
    BY <1>1
<1>3. /\ ~Has(<<>>, "DISPLAY_RESULTS") /\ ~Has(<<"SERVER_ERROR", "errs">>, "DISPLAY_RESULTS")
      /\ ~Has(<<"SERVER_TERMINATE">>, "DISPLAY_RESULTS")
      /\ ~Has(<<"ACCESS_DENIED">>, "DISPLAY_RESULTS")
    BY DEF Has
<1> QED BY <1>2, <1>3 DEF Refusals

LEMMA RefusalParting ==
    ASSUME ControlInv, NEW k \in Conns, k = ctrl \/ Waiting(k),
           NEW msgs \in Refusals, NEW c \in Clients
    PROVE  Parting(c, Written(down, cli, k, msgs))
<1> DEFINE w == Written(down, cli, k, msgs)
           j == Ctrl(c)
           lo == ClientRead(cstate[c])
<1>0. /\ Parting(c, down) /\ msgs \in Seq(ServerMsg) /\ ~Has(msgs, "DISPLAY_RESULTS")
      /\ down \in [Conns -> Seq(ServerMsg)] /\ j \in Conns
    BY DownParting, RefusalTypes, ClientFacts
<1>1. CASE k # j \/ cli[k] # "open"
    <2>1. w[j] = down[j]
        BY <1>0, <1>1 DEF Written
    <2> QED BY <1>0, <2>1 DEF Parting
<1>2. CASE k = j /\ cli[k] = "open"
    <2>1. \E hi \in 0 .. 8 : Ascending(DownRank, down[k], lo, hi)
        <3>1. CASE ctrl = k
            <4>1. Ascending(DownRank, down[k], lo, SentBy(k))
                BY <1>2, ClientFacts
            <4>2. SentBy(k) = ServerSent(spc, sstate) /\ ctrl # NoConn
                BY <3>1, ServerFacts DEF SentBy
            <4>a. ServerSent(spc, sstate) \in Nat /\ ServerSent(spc, sstate) <= 8
                BY <4>2, ServerFacts, Zenon
            <4>3. SentBy(k) \in 0 .. 8
                BY <4>2, <4>a
            <4> QED BY <4>1, <4>3
        <3>2. CASE ctrl # k
            <4>1. down[k] = <<>>
                BY <1>2, <3>2, ClientFacts DEF Accounted
            <4> QED BY <4>1, AscendingEmpty
        <3> QED BY <3>1, <3>2
    <2>2. PICK hi \in 0 .. 8 : Ascending(DownRank, down[k], lo, hi)
        BY <2>1
    <2>3. lo \in Nat /\ lo < 9 /\ hi \in Nat /\ hi < 9 /\ lo <= lo
        <3>1. cstate[c] \in LiveState
            BY <1>2, ClientFacts DEF ClientPlace
        <3> QED BY <3>1 DEF LiveState, TestState, ClientRead, DownRank, ServerMsg, ServerByte
    <2>4. /\ DownRank["SERVER_ERROR"] = 9 /\ DownRank["SERVER_TERMINATE"] = 9
          /\ DownRank["ACCESS_DENIED"] = 9 /\ DownRank["errs"] = 10
          /\ "SERVER_ERROR" \in ServerMsg /\ "errs" \in ServerMsg
          /\ "SERVER_TERMINATE" \in ServerMsg /\ "ACCESS_DENIED" \in ServerMsg
        BY DEF DownRank, ServerMsg, ServerByte, ServerPayload
    <2>5. Ascending(DownRank, w[j], lo, 10)
        <3> HIDE DEF lo, j
        <3>1. CASE msgs = <<>>
            <4>1. w[k] = down[k] /\ down[k] \in Seq(ServerMsg) /\ hi <= 10
                BY <1>0, <3>1, <2>3 DEF Written
            <4> QED BY <1>2, <2>2, <2>3, <4>1, DownWiden
        <3>2. CASE msgs = <<"SERVER_ERROR", "errs">>
            <4>1. Ascending(DownRank, Written(down, cli, k, <<"SERVER_ERROR", "errs">>)[k], lo,
                            DownRank["errs"])
                <5>1. hi < DownRank["SERVER_ERROR"] /\ lo < DownRank["SERVER_ERROR"]
                      /\ DownRank["SERVER_ERROR"] < DownRank["errs"]
                    BY <2>3, <2>4
                <5> QED BY <1>0, <2>2, <2>3, <2>4, <5>1, DownSendTwo, Zenon
            <4> QED BY <1>2, <2>4, <3>2, <4>1
        <3>3. ASSUME NEW m \in {"SERVER_TERMINATE", "ACCESS_DENIED"}, msgs = <<m>>
              PROVE  Ascending(DownRank, w[j], lo, 10)
            <4>1. /\ m \in ServerMsg /\ hi < DownRank[m] /\ lo < DownRank[m]
                  /\ DownRank[m] <= 10 /\ 10 \in Nat
                BY <2>3, <2>4
            <4>2. Ascending(DownRank, Written(down, cli, k, <<m>>)[k], lo, 10)
                BY <1>0, <2>2, <2>3, <4>1, DownSend, Zenon
            <4> QED BY <1>2, <3>3, <4>2
        <3> QED BY <3>1, <3>2, <3>3 DEF Refusals
    <2>6. /\ Has(w[k], "DISPLAY_RESULTS") => Has(down[k], "DISPLAY_RESULTS")
          /\ Has(down[k], "results") => Has(w[k], "results")
        BY <1>0, WrittenHas
    <2> QED BY <1>0, <1>2, <2>5, <2>6 DEF Parting
<1> QED BY <1>1, <1>2

-----------------------------------------------------------------------------
(* What the server may have read before it cleans up.                      *)
Consumed(in) ==
    /\ in \in [Conns -> Seq(ClientMsg)]
    /\ \A j \in Conns : j # ctrl /\ j # acc => in[j] = up[j]
    /\ \A j \in DataConns : \A i \in 1 .. Len(in[j]) : in[j][i] = "cookie"

LEMMA UpConsumed == ControlInv => Consumed(up)
BY ServerFacts DEF Consumed, CookiesOnly

LEMMA UnreadConsumed ==
    ASSUME ControlInv, NEW k \in Conns, k = ctrl \/ k = acc, up[k] # <<>>
    PROVE  Consumed(Unread(up, k))
<1>0. up \in [Conns -> Seq(ClientMsg)] /\ CookiesOnly
    BY ServerFacts
<1>1. /\ Unread(up, k) \in [Conns -> Seq(ClientMsg)]
      /\ \A j \in Conns : j # k => Unread(up, k)[j] = up[j]
      /\ Unread(up, k)[k] = Tail(up[k])
    BY <1>0, UpUnread
<1>2. ASSUME NEW j \in DataConns, NEW i \in 1 .. Len(Unread(up, k)[j])
      PROVE  Unread(up, k)[j][i] = "cookie"
    <2>1. j \in Conns /\ \A h \in 1 .. Len(up[j]) : up[j][h] = "cookie"
        BY <1>0 DEF CookiesOnly, DataConns
    <2>2. CASE j # k
        BY <1>1, <1>2, <2>1, <2>2
    <2>3. CASE j = k
        <3>1. up[k] \in Seq(ClientMsg) /\ Len(up[k]) \in Nat /\ Len(Tail(up[k])) = Len(up[k]) - 1
            BY <1>0
        <3>2. i + 1 \in 1 .. Len(up[k]) /\ Tail(up[k])[i] = up[k][i + 1]
            BY <1>1, <1>2, <2>3, <3>1
        <3> QED BY <1>1, <2>1, <2>3, <3>2
    <2> QED BY <2>2, <2>3
<1> QED BY <1>1, <1>2 DEF Consumed

LEMMA ServerGoneInv ==
    ASSUME ControlInv, UNCHANGED clivars, NEW in, NEW out, ServerGone(in, out),
           Consumed(in), out \in [Conns -> Seq(ServerMsg)],
           \A c \in Clients : Parting(c, out),
           spc' \in {"main", "exited"}, sstate' \in ServerState, srvrc' \in {-1, 0, 2},
           serr' \in {"none", "IEAUTHTEST", "other"},
           UNCHANGED <<smode, sopt, sstreams, reported>>
    PROVE  ControlInv'
<1>0. /\ NetTypeOK /\ ClientTypeOK /\ ServerTypeOK /\ NoConn \notin Conns
      /\ ctrl \in Conns \cup {NoConn}
    BY ServerFacts
<1>1. /\ down' \in [Conns -> Seq(ServerMsg)]
      /\ \A j \in Conns : down'[j] \in Prefixes(out[j])
    <2>1. \A j \in Conns : out[j] \in Prefixes(out[j])
        BY WholePrefix
    <2>2. CASE ctrl = NoConn
        BY <2>1, <2>2 DEF ServerGone
    <2>3. CASE ctrl # NoConn
        <3>1. down' \in SurvivingClose(in, out, ctrl) /\ ctrl \in Conns
            BY <1>0, <2>3 DEF ServerGone
        <3>2. /\ down' \in [Conns -> Seq(ServerMsg)]
              /\ \A j \in Conns : j # ctrl => down'[j] = out[j]
              /\ down'[ctrl] \in Prefixes(out[ctrl])
            BY <3>1, DownClose, Zenon
        <3> QED BY <2>1, <3>2, Zenon
    <2> QED BY <2>2, <2>3
<1>2. /\ ctrl' = NoConn /\ acc' = NoConn /\ backlog' = <<>> /\ cli' = cli
      /\ up' = [k \in Conns |-> IF srv[k] = "open" THEN <<>> ELSE in[k]]
      /\ srv' = [k \in Conns |-> IF srv[k] = "open" THEN "closed" ELSE srv[k]]
      /\ listening' = FALSE /\ sworkers' = FALSE
    BY DEF ServerGone, AllClosed
<1>3. TypeOK'
    <2>1. up' \in [Conns -> Seq(ClientMsg)] /\ backlog' \in Seq(Conns)
        BY <1>2 DEF Consumed
    <2>2. NetTypeOK'
        BY <1>0, <1>1, <1>2, <2>1 DEF NetTypeOK, End
    <2>3. ServerTypeOK'
        BY <1>0, <1>2 DEF ServerTypeOK, ServerPc
    <2>4. ClientTypeOK'
        BY <1>0 DEF ClientTypeOK, clivars
    <2> QED BY <2>2, <2>3, <2>4 DEF TypeOK
<1>4. ServerPlace'
    BY <1>2, ServerFacts DEF ServerPlace
<1>5. CookiesOnly'
    BY <1>2 DEF CookiesOnly, Consumed, DataConns
<1>6. ASSUME NEW c \in Clients PROVE PerClient(c)'
    <2> DEFINE k == Ctrl(c)
    <2>0. /\ PerClient(c) /\ k \in Conns /\ Parting(c, out) /\ k # NoConn
          /\ down'[k] \in Prefixes(out[k]) /\ out[k] \in Seq(ServerMsg)
        BY <1>1, InvParts, CtrlConn
    <2>1. /\ cstate' = cstate /\ cpc' = cpc /\ cmode' = cmode /\ cstreams' = cstreams
          /\ cpeer' = cpeer
        BY DEF clivars
    <2>2. out[k] = <<>> => down'[k] = <<>>
        BY <2>0 DEF Prefixes
    <2>3. ClientPlace(c)'
        BY <1>2, <2>0, <2>1, <2>2 DEF PerClient, ClientPlace, Parting
    <2>4. srv'[k] # "open" /\ ~InBacklog(k)' /\ ctrl' # k /\ acc' # k
        BY <1>0, <1>2, <2>0 DEF InBacklog, NetTypeOK, End
    <2>5. Accounted(c)'
        BY <1>2, <2>4 DEF Accounted, Waiting, InBacklog
    <2>6. Ordered(c)'
        <3>1. /\ Ascending(DownRank, out[k], ClientRead(cstate[c]), 10)
              /\ ClientRead(cstate[c]) \in Nat /\ 10 \in Nat
            BY <2>0, ClientRanks DEF Parting
        <3>2. Ascending(DownRank, down'[k], ClientRead(cstate[c]), 10)
            BY <2>0, <3>1, DownPrefix, Zenon
        <3>3. ReadBy(k)' = 0 /\ SentBy(k)' = 10
            BY <2>4 DEF ReadBy, SentBy
        <3>4. Ascending(UpRank, up'[k], 0, ClientSent(cpc[c], cstate[c]))
            <4>1. CASE srv[k] = "open"
                BY <1>2, <2>0, <4>1, AscendingEmpty
            <4>2. CASE srv[k] # "open"
                <5>1. ctrl # k /\ acc # k
                    BY <2>0, <4>2 DEF PerClient, Accounted, Waiting
                <5>2. up'[k] = up[k] /\ ReadBy(k) = 0
                    BY <1>2, <2>0, <4>2, <5>1 DEF Consumed, ReadBy
                <5> QED BY <2>0, <5>2 DEF PerClient, Ordered
            <4> QED BY <4>1, <4>2
        <3>5. 0 <= ClientSent(cpc[c], cstate[c])
            BY ClientRanks
        <3> QED BY <2>1, <3>2, <3>3, <3>4, <3>5 DEF Ordered
    <2>7. Reported(c)'
        <3>1. /\ Ascending(DownRank, out[k], ClientRead(cstate[c]), 10)
              /\ ClientRead(cstate[c]) \in Nat /\ 10 \in Nat
            BY <2>0, ClientRanks DEF Parting
        <3>2. /\ Has(down'[k], "DISPLAY_RESULTS") => Has(out[k], "DISPLAY_RESULTS")
              /\ Has(down'[k], "DISPLAY_RESULTS") /\ Has(out[k], "results")
                     => Has(down'[k], "results")
            BY <2>0, <3>1, DownHasPrefix
        <3>3. srv[k] # "none" => srv'[k] # "none"
            BY <1>2, <2>0
        <3> QED BY <2>0, <2>1, <2>4, <3>2, <3>3 DEF PerClient, Reported, Parting
    <2>8. Heard(c)'
        <3>1. SentBy(k)' = 10 /\ ClientHeard(cstate[c]) <= 10
            BY <2>4, ClientRanks DEF SentBy, ClientHeard
        <3> QED BY <2>1, <3>1 DEF Heard
    <2> QED BY <2>3, <2>5, <2>6, <2>7, <2>8 DEF PerClient
<1> QED BY <1>3, <1>4, <1>5, <1>6 DEF ControlInv, PerClient

(* cleanup_server, after a handler has read something and written nothing, *)
(* or written a refusal.                                                   *)
LEMMA CleanupInv ==
    ASSUME ControlInv, UNCHANGED clivars, NEW in, Consumed(in), NEW rc \in {-1, 0},
           NEW err \in {"none", "IEAUTHTEST", "other"},
           cleanup_server(rc, err, in, down)
    PROVE  ControlInv'
<1>1. ServerGone(in, down) /\ \A c \in Clients : Parting(c, down)
    BY DownParting DEF cleanup_server
<1>2. /\ spc' \in {"main", "exited"} /\ sstate' \in ServerState /\ srvrc' \in {-1, 0, 2}
      /\ serr' \in {"none", "IEAUTHTEST", "other"}
      /\ UNCHANGED <<smode, sopt, sstreams, reported>>
    BY ServerFacts DEF cleanup_server, ServerTypeOK
<1> QED BY <1>1, <1>2, ServerGoneInv, ServerFacts

LEMMA CleanupAfterInv ==
    ASSUME ControlInv, UNCHANGED clivars, NEW in, Consumed(in), NEW rc \in {-1, 0},
           NEW err \in {"none", "IEAUTHTEST", "other"},
           NEW k \in Conns, k = ctrl \/ Waiting(k), NEW msgs \in Refusals,
           cleanup_server(rc, err, in, Written(down, cli, k, msgs))
    PROVE  ControlInv'
<1> DEFINE out == Written(down, cli, k, msgs)
<1>1. ServerGone(in, out) /\ \A c \in Clients : Parting(c, out)
    BY RefusalParting DEF cleanup_server
<1>2. /\ spc' \in {"main", "exited"} /\ sstate' \in ServerState /\ srvrc' \in {-1, 0, 2}
      /\ serr' \in {"none", "IEAUTHTEST", "other"}
      /\ UNCHANGED <<smode, sopt, sstreams, reported>>
    BY ServerFacts DEF cleanup_server, ServerTypeOK
<1>3. out \in [Conns -> Seq(ServerMsg)]
    <2>1. msgs \in Seq(ServerMsg)
        BY RefusalTypes
    <2> QED BY <2>1, ServerFacts, DownWritten
<1> HIDE DEF out
<1> QED BY <1>1, <1>2, <1>3, ServerGoneInv

(* The two together for a handler of the control connection that fails.    *)
LEMMA FailAfterInv ==
    ASSUME ControlInv, UNCHANGED clivars, NEW in, Consumed(in), ctrl # NoConn,
           NEW err \in {"IEAUTHTEST", "other"}, NEW msgs \in Refusals,
           FailAfter(err, in, msgs)
    PROVE  ControlInv'
<1>1. ctrl \in Conns
    BY ServerFacts
<1> QED BY <1>1, CleanupAfterInv DEF FailAfter

-----------------------------------------------------------------------------
(* The backlog as a queue.                                                 *)
Unique(q, k) == \A i, j \in 1 .. Len(q) : q[i] = k /\ q[j] = k => i = j

LEMMA TailFacts ==
    ASSUME NEW q \in Seq(Conns), q # <<>>, NEW k
    PROVE  /\ Head(q) \in Conns /\ Tail(q) \in Seq(Conns)
           /\ Has(q, k) <=> Head(q) = k \/ Has(Tail(q), k)
           /\ Unique(q, k) => Unique(Tail(q), k) /\ ~(Head(q) = k /\ Has(Tail(q), k))
<1>1. /\ Head(q) = q[1] /\ Head(q) \in Conns /\ Tail(q) \in Seq(Conns)
      /\ Len(q) \in Nat /\ Len(q) >= 1 /\ Len(Tail(q)) = Len(q) - 1
    OBVIOUS
<1>2. \A i \in 1 .. Len(Tail(q)) : Tail(q)[i] = q[i + 1] /\ i + 1 \in 1 .. Len(q)
    BY <1>1
<1>3. Has(Tail(q), k) => Has(q, k)
    BY <1>1, <1>2 DEF Has
<1>4. Head(q) = k => Has(q, k)
    BY <1>1 DEF Has
<1>5. ASSUME NEW i \in 1 .. Len(q), q[i] = k, Head(q) # k
      PROVE  Has(Tail(q), k)
    <2>1. i # 1
        BY <1>1, <1>5
    <2>2. i - 1 \in 1 .. Len(Tail(q)) /\ Tail(q)[i - 1] = k
        BY <1>1, <1>5, <2>1
    <2> QED BY <2>2 DEF Has
<1>6. Unique(q, k) => Unique(Tail(q), k)
    <2> SUFFICES ASSUME Unique(q, k), NEW i \in 1 .. Len(Tail(q)), NEW j \in 1 .. Len(Tail(q)),
                        Tail(q)[i] = k, Tail(q)[j] = k
                 PROVE  i = j
        BY DEF Unique
    <2>1. i + 1 = j + 1
        BY <1>2 DEF Unique
    <2> QED BY <2>1, <1>1
<1>7. ASSUME Unique(q, k), Head(q) = k, NEW i \in 1 .. Len(Tail(q)), Tail(q)[i] = k
      PROVE  FALSE
    <2>1. i + 1 = 1
        BY <1>1, <1>2, <1>7 DEF Unique
    <2> QED BY <2>1, <1>1
<1>8. Has(q, k) => Head(q) = k \/ Has(Tail(q), k)
    BY <1>5 DEF Has
<1>9. Unique(q, k) => ~(Head(q) = k /\ Has(Tail(q), k))
    BY <1>7 DEF Has
<1> QED BY <1>1, <1>3, <1>4, <1>6, <1>8, <1>9

(* No connection waits twice.                                              *)
Queued(k) == ~(InBacklog(k) /\ acc = k) /\ Unique(backlog, k)

-----------------------------------------------------------------------------
LEMMA HeardRanks ==
    \A st : /\ ClientRead(st) \in Nat /\ ClientRead(st) <= 10
           /\ ClientHeard(st) \in Nat /\ ClientHeard(st) <= 10
<1>1. \A st \in ServerByte : DownRank[st] \in Nat /\ DownRank[st] <= 10
    BY DownRankType DEF ServerMsg
<1>2. \A st : ClientRead(st) \in Nat /\ ClientRead(st) <= 10
    BY <1>1 DEF ClientRead
<1> QED BY <1>2 DEF ClientHeard

LEMMA ServerSentType ==
    \A pc, st : ServerSent(pc, st) \in Nat /\ ServerRead(pc, st) \in Nat
<1>1. \A st \in ServerByte : DownRank[st] \in Nat
    BY DownRankType DEF ServerMsg
<1> QED BY <1>1 DEF ServerSent, ServerRead

(* A client the step is not about.                                         *)
LEMMA UntouchedInv ==
    ASSUME ControlInv, UNCHANGED <<clivars, cli>>, NEW c \in Clients,
           srv'[Ctrl(c)] = srv[Ctrl(c)], up'[Ctrl(c)] = up[Ctrl(c)],
           down'[Ctrl(c)] = down[Ctrl(c)], ctrl # Ctrl(c), ctrl' # Ctrl(c),
           Waiting(Ctrl(c))' <=> Waiting(Ctrl(c)), Queued(Ctrl(c))',
           c \in reported' <=> c \in reported
    PROVE  PerClient(c)'
<1> DEFINE k == Ctrl(c)
<1>0. PerClient(c)
    BY InvParts
<1>1. /\ cstate' = cstate /\ cpc' = cpc /\ cmode' = cmode /\ cstreams' = cstreams
      /\ cpeer' = cpeer /\ cli' = cli
    BY DEF clivars
<1>2. ClientPlace(c)'
    BY <1>0, <1>1 DEF PerClient, ClientPlace
<1>3. Accounted(c)'
    BY <1>0, <1>1 DEF PerClient, Accounted, Queued, Unique
<1>4. Ordered(c)'
    BY <1>0, <1>1 DEF PerClient, Ordered, ReadBy, SentBy
<1>5. Reported(c)'
    BY <1>0, <1>1 DEF PerClient, Reported
<1>6. Heard(c)'
    BY <1>0, <1>1 DEF PerClient, Heard, SentBy
<1> QED BY <1>2, <1>3, <1>4, <1>5, <1>6 DEF PerClient

(* A client whose connection waited and has been closed.                   *)
LEMMA TurnedAwayInv ==
    ASSUME ControlInv, UNCHANGED <<clivars, cli>>, NEW c \in Clients, Waiting(Ctrl(c)),
           c \in reported' <=> c \in reported,
           srv'[Ctrl(c)] = "closed", up'[Ctrl(c)] = <<>> \/ up'[Ctrl(c)] = up[Ctrl(c)],
           NEW out \in [Conns -> Seq(ServerMsg)], Parting(c, out),
           down'[Ctrl(c)] \in Prefixes(out[Ctrl(c)]),
           ~Waiting(Ctrl(c))', Queued(Ctrl(c))', ctrl' # Ctrl(c)
    PROVE  PerClient(c)'
<1> DEFINE k == Ctrl(c)
<1>0. PerClient(c) /\ k \in Conns /\ out[k] \in Seq(ServerMsg) /\ ctrl # k
    BY InvParts, CtrlConn DEF PerClient, Accounted
<1>1. /\ cstate' = cstate /\ cpc' = cpc /\ cmode' = cmode /\ cstreams' = cstreams
      /\ cpeer' = cpeer /\ cli' = cli
    BY DEF clivars
<1>2. out[k] = <<>> => down'[k] = <<>>
    BY <1>0 DEF Prefixes
<1>3. ClientPlace(c)'
    BY <1>0, <1>1, <1>2 DEF PerClient, ClientPlace, Parting, Accounted
<1>4. Accounted(c)'
    BY <1>0, <1>1 DEF Accounted, Queued, Unique
<1>5. /\ Ascending(DownRank, out[k], ClientRead(cstate[c]), 10)
      /\ ClientRead(cstate[c]) \in Nat /\ 10 \in Nat
    BY ClientRanks DEF Parting
<1>6. Ordered(c)'
    <2>1. Ascending(DownRank, down'[k], ClientRead(cstate[c]), 10)
        BY <1>0, <1>5, DownPrefix, Zenon
    <2>2. ReadBy(k) = 0 /\ ReadBy(k)' = 0 /\ SentBy(k)' = 10
        BY <1>0 DEF ReadBy, SentBy
    <2>3. Ascending(UpRank, up[k], 0, ClientSent(cpc[c], cstate[c]))
          /\ 0 <= ClientSent(cpc[c], cstate[c])
        BY <1>0, <2>2 DEF PerClient, Ordered
    <2>4. Ascending(UpRank, up'[k], 0, ClientSent(cpc[c], cstate[c]))
        BY <2>3, AscendingEmpty
    <2> QED BY <1>1, <2>1, <2>2, <2>3, <2>4 DEF Ordered
<1>7. Reported(c)'
    <2>1. /\ Has(down'[k], "DISPLAY_RESULTS") => Has(out[k], "DISPLAY_RESULTS")
          /\ Has(down'[k], "DISPLAY_RESULTS") /\ Has(out[k], "results")
                 => Has(down'[k], "results")
        BY <1>0, <1>5, DownHasPrefix
    <2> QED BY <1>0, <1>1, <2>1 DEF PerClient, Reported, Parting
<1>8. Heard(c)'
    <2>1. SentBy(k)' = 10
        BY DEF SentBy
    <2>2. ClientHeard(cstate[c]) <= 10
        BY HeardRanks
    <2> QED BY <1>1, <2>1, <2>2 DEF Heard
<1> QED BY <1>3, <1>4, <1>6, <1>7, <1>8 DEF PerClient

(* The client that is served, before and after the step.                   *)
LEMMA ServedInv ==
    ASSUME ControlInv, UNCHANGED <<clivars, cli>>, NEW c \in Clients, ctrl = Ctrl(c),
           ctrl' = Ctrl(c), srv'[Ctrl(c)] = srv[Ctrl(c)],
           ~Waiting(Ctrl(c))', Queued(Ctrl(c))',
           cli[Ctrl(c)] # "open" => down'[Ctrl(c)] = <<>>,
           Ascending(DownRank, down'[Ctrl(c)], ClientRead(cstate[c]), ServerSent(spc', sstate')),
           Ascending(UpRank, up'[Ctrl(c)], ServerRead(spc', sstate'), ClientSent(cpc[c], cstate[c])),
           ServerRead(spc', sstate') <= ClientSent(cpc[c], cstate[c]),
           ServerSent(spc, sstate) <= ServerSent(spc', sstate'), Reported(c)'
    PROVE  PerClient(c)'
<1> DEFINE k == Ctrl(c)
<1>0. PerClient(c) /\ srv[k] = "open"
    BY InvParts DEF PerClient, Accounted
<1>1. /\ cstate' = cstate /\ cpc' = cpc /\ cmode' = cmode /\ cstreams' = cstreams
      /\ cpeer' = cpeer /\ cli' = cli
    BY DEF clivars
<1>2. ClientPlace(c)'
    BY <1>0, <1>1 DEF PerClient, ClientPlace
<1>3. Accounted(c)'
    BY <1>0, <1>1 DEF Accounted, Queued, Unique
<1>4. Ordered(c)'
    BY <1>1 DEF Ordered, ReadBy, SentBy
<1>5. Heard(c)'
    <2>1. /\ cli[k] = "open" => ClientHeard(cstate[c]) <= ServerSent(spc, sstate)
          /\ SentBy(k)' = ServerSent(spc', sstate')
        BY <1>0 DEF PerClient, Heard, SentBy
    <2>2. SentBy(k)' \in Nat /\ ServerSent(spc, sstate) \in Nat
        BY ServerFacts, ServerSentType, <2>1
    <2>3. ClientHeard(cstate[c]) \in Nat
        BY HeardRanks
    <2> QED BY <1>1, <2>1, <2>2, <2>3 DEF Heard
<1> QED BY <1>2, <1>3, <1>4, <1>5 DEF PerClient

(* The types of a step that stays in iperf_run_server.                     *)
LEMMA ServerGoesTypes ==
    ASSUME ControlInv, UNCHANGED clivars, NEW pc \in ServerPc, NEW st \in ServerState,
           ServerGoes(pc, st),
           srv' \in [Conns -> End], up' \in [Conns -> Seq(ClientMsg)],
           down' \in [Conns -> Seq(ServerMsg)], listening' \in BOOLEAN,
           backlog' \in Seq(Conns),
           ctrl' \in Conns \cup {NoConn}, acc' \in Conns \cup {NoConn},
           smode' \in {"SENDER", "RECEIVER", "BIDIRECTIONAL"}, sopt' \in SUBSET TestOption,
           sstreams' \in Seq([conn : Conns, sender : BOOLEAN]),
           sworkers' \in BOOLEAN, reported' \subseteq Clients
    PROVE  TypeOK'
<1>1. NetTypeOK'
    BY ServerFacts DEF NetTypeOK, ServerGoes
<1>2. ServerTypeOK'
    BY ServerFacts DEF ServerTypeOK, ServerGoes
<1>3. ClientTypeOK'
    BY ServerFacts DEF ClientTypeOK, clivars
<1> QED BY <1>1, <1>2, <1>3 DEF TypeOK

LEMMA InvFromParts ==
    ASSUME TypeOK', ServerPlace', CookiesOnly', \A c \in Clients : PerClient(c)'
    PROVE  ControlInv'
BY DEF ControlInv, PerClient

-----------------------------------------------------------------------------
(* A connection that waits does so once, and is not the one served.        *)
LEMMA WaitingFacts ==
    ASSUME ControlInv, NEW c \in Clients
    PROVE  /\ Queued(Ctrl(c)) /\ ~(Waiting(Ctrl(c)) /\ ctrl = Ctrl(c))
           /\ Ctrl(c) \in Conns /\ Ctrl(c) # NoConn
           /\ (Waiting(Ctrl(c)) \/ ctrl = Ctrl(c)) <=> srv[Ctrl(c)] = "open"
BY ClientFacts, CtrlConn DEF Queued, Unique, Accounted

(* The server starts listening, and main's loop starts it again.           *)
LEMMA ListenInv ==
    ASSUME ControlInv, UNCHANGED clivars, iperf_server_listen
    PROVE  ControlInv'
<1> USE DEF iperf_server_listen, ServerGoes
<1>0. ctrl = NoConn /\ acc = NoConn
    BY ServerFacts DEF ServerPlace
<1>1. TypeOK'
    <2>1. "loop" \in ServerPc /\ "IPERF_START" \in ServerState /\ listening' \in BOOLEAN
        BY DEF ServerPc, ServerState
    <2>2. ServerGoes("loop", "IPERF_START")
        OBVIOUS
    <2> QED BY <2>1, <2>2, ServerFacts, ServerGoesTypes DEF ServerTypeOK
<1>2. ServerPlace'
    BY <1>0, ServerFacts DEF ServerPlace
<1>3. CookiesOnly'
    BY ServerFacts DEF CookiesOnly
<1>4. ASSUME NEW c \in Clients PROVE PerClient(c)'
    <2>1. Queued(Ctrl(c))' /\ (Waiting(Ctrl(c))' <=> Waiting(Ctrl(c)))
        BY WaitingFacts DEF Queued, Waiting, InBacklog
    <2> QED BY <1>0, <2>1, WaitingFacts, UntouchedInv
<1> QED BY <1>1, <1>2, <1>3, <1>4, InvFromParts

LEMMA MainLoopInv ==
    ASSUME ControlInv, UNCHANGED clivars, MainLoop
    PROVE  ControlInv'
<1> USE DEF MainLoop, netvars
<1>0. ctrl = NoConn /\ acc = NoConn
    BY ServerFacts DEF ServerPlace
<1>1. TypeOK'
    <2>1. NetTypeOK'
        BY ServerFacts DEF NetTypeOK
    <2>2. ClientTypeOK'
        BY ServerFacts DEF ClientTypeOK, clivars
    <2>3. spc' \in ServerPc /\ sstate' \in ServerState
        BY DEF ServerPc, ServerState
    <2>4. sstreams' \in Seq([conn : Conns, sender : BOOLEAN])
        OBVIOUS
    <2>5. ServerTypeOK'
        BY <2>3, <2>4, ServerFacts DEF ServerTypeOK
    <2> QED BY <2>1, <2>2, <2>5 DEF TypeOK
<1>2. ServerPlace'
    BY <1>0, ServerFacts DEF ServerPlace
<1>3. CookiesOnly'
    BY ServerFacts DEF CookiesOnly
<1>4. ASSUME NEW c \in Clients PROVE PerClient(c)'
    <2>1. Queued(Ctrl(c))' /\ (Waiting(Ctrl(c))' <=> Waiting(Ctrl(c)))
        BY WaitingFacts DEF Queued, Waiting, InBacklog
    <2> QED BY <1>0, <2>1, WaitingFacts, UntouchedInv
<1> QED BY <1>1, <1>2, <1>3, <1>4, InvFromParts

-----------------------------------------------------------------------------
(* iperf_accept: the head of the backlog is served, or turned away.        *)
LEMMA HeadFacts ==
    ASSUME ControlInv, backlog # <<>>, NEW c \in Clients
    PROVE  /\ Head(backlog) \in Conns /\ Tail(backlog) \in Seq(Conns)
           /\ InBacklog(Ctrl(c)) <=> Head(backlog) = Ctrl(c) \/ Has(Tail(backlog), Ctrl(c))
           /\ Unique(Tail(backlog), Ctrl(c))
           /\ Head(backlog) = Ctrl(c) => ~Has(Tail(backlog), Ctrl(c)) /\ acc # Ctrl(c)
<1>1. Queued(Ctrl(c)) /\ backlog \in Seq(Conns)
    BY WaitingFacts, ServerFacts
<1>2. InBacklog(Ctrl(c)) <=> Has(backlog, Ctrl(c))
    BY DEF InBacklog, Has
<1> QED BY <1>1, <1>2, TailFacts DEF Queued

LEMMA AcceptFreeInv ==
    ASSUME ControlInv, UNCHANGED clivars, iperf_accept_free
    PROVE  ControlInv'
<1> USE DEF iperf_accept_free, ServerGoes, InLoop
<1>0. acc = NoConn /\ sstate = "IPERF_START" /\ ctrl = NoConn
    BY ServerFacts DEF ServerPlace
<1>h. Head(backlog) \in Conns /\ Tail(backlog) \in Seq(Conns)
    BY ServerFacts
<1>1. TypeOK'
    <2>1. "cookie" \in ServerPc /\ sstate \in ServerState /\ ServerGoes("cookie", sstate)
        BY ServerFacts DEF ServerPc, ServerTypeOK
    <2> QED BY <1>h, <2>1, ServerFacts, ServerGoesTypes DEF ServerTypeOK, NetTypeOK
<1>2. ServerPlace'
    BY <1>0, <1>h, ServerFacts DEF ServerPlace
<1>3. CookiesOnly'
    BY ServerFacts DEF CookiesOnly
<1>4. ASSUME NEW c \in Clients PROVE PerClient(c)'
    <2> DEFINE k == Ctrl(c)
    <2>0. /\ Queued(k)' /\ (InBacklog(k)' <=> Has(Tail(backlog), k))
          /\ (Waiting(k)' <=> Has(Tail(backlog), k))
          /\ (InBacklog(k) <=> Head(backlog) = k \/ Has(Tail(backlog), k))
          /\ k # NoConn
        <3>1. InBacklog(k)' <=> Has(Tail(backlog), k)
            BY DEF InBacklog, Has
        <3>2. Waiting(k)' <=> Has(Tail(backlog), k)
            BY <1>0, <3>1, WaitingFacts DEF Waiting
        <3>3. Queued(k)'
            BY <1>0, HeadFacts, WaitingFacts DEF Queued
        <3> QED BY <3>1, <3>2, <3>3, HeadFacts, WaitingFacts
    <2>1. CASE Head(backlog) = k
        <3>1. ~Waiting(k)' /\ Waiting(k) /\ ctrl # k
            BY <2>0, <2>1, HeadFacts, WaitingFacts DEF Waiting
        <3>2. PerClient(c) /\ Accounted(c)
            BY InvParts DEF PerClient
        <3>3. /\ cstate' = cstate /\ cpc' = cpc /\ cmode' = cmode /\ cstreams' = cstreams
              /\ cpeer' = cpeer /\ cli' = cli
            BY DEF clivars
        <3>4. ClientPlace(c)'
            BY <3>2, <3>3 DEF PerClient, ClientPlace
        <3>5. Accounted(c)'
            BY <2>0, <2>1, <3>1, <3>2 DEF Accounted, Queued, Unique
        <3>6. /\ down'[k] = <<>> /\ ReadBy(k) = 0 /\ ReadBy(k)' = 0
            BY <1>0, <2>1, <3>1, <3>2 DEF Accounted, ReadBy, ServerRead
        <3>7. Ordered(c)'
            BY <3>2, <3>3, <3>6, AscendingEmpty DEF PerClient, Ordered
        <3>8. Reported(c)'
            BY <3>1, <3>2, <3>3, <3>6, HasEmpty DEF PerClient, Reported, Accounted
        <3>9. Heard(c)'
            <4>1. ServerSent("cookie", "IPERF_START") = 0 /\ ClientHeard("0") = 0
                BY DEF ServerSent, ClientHeard, ClientRead, ServerByte
            <4>2. cli[k] = "open" => cstate[c] = "0"
                BY <3>1, <3>2 DEF PerClient, ClientPlace, Accounted, LiveState, TestState
            <4> QED BY <1>0, <2>1, <3>3, <4>1, <4>2 DEF Heard, SentBy
        <3> QED BY <3>4, <3>5, <3>7, <3>8, <3>9 DEF PerClient
    <2>2. CASE Head(backlog) # k
        <3>1. Waiting(k)' <=> Waiting(k)
            BY <1>0, <2>0, <2>2 DEF Waiting
        <3> QED BY <1>0, <2>0, <2>2, <3>1, UntouchedInv
    <2> QED BY <2>1, <2>2
<1> QED BY <1>1, <1>2, <1>3, <1>4, InvFromParts

(* The served client, in a step about another connection.                  *)
LEMMA StillServedInv ==
    ASSUME ControlInv, UNCHANGED <<clivars, cli, reported>>, NEW c \in Clients, ctrl = Ctrl(c),
           ctrl' = Ctrl(c), srv'[Ctrl(c)] = srv[Ctrl(c)], up'[Ctrl(c)] = up[Ctrl(c)],
           down'[Ctrl(c)] = down[Ctrl(c)], ~Waiting(Ctrl(c))', Queued(Ctrl(c))',
           ServerRead(spc', sstate') = ServerRead(spc, sstate),
           ServerSent(spc', sstate') = ServerSent(spc, sstate),
           spc' # "display"
    PROVE  PerClient(c)'
<1> DEFINE k == Ctrl(c)
<1>0. PerClient(c) /\ ServerSent(spc, sstate) <= ServerSent(spc', sstate')
    BY InvParts, ServerFacts
<1>1. cpc' = cpc /\ cpeer' = cpeer
    BY DEF clivars
<1>2. Reported(c)'
    BY <1>0, <1>1 DEF PerClient, Reported
<1>3. /\ cli[k] # "open" => down'[k] = <<>>
      /\ Ascending(DownRank, down'[k], ClientRead(cstate[c]), ServerSent(spc', sstate'))
      /\ Ascending(UpRank, up'[k], ServerRead(spc', sstate'), ClientSent(cpc[c], cstate[c]))
      /\ ServerRead(spc', sstate') <= ClientSent(cpc[c], cstate[c])
    BY <1>0 DEF PerClient, ClientPlace, Ordered, ReadBy, SentBy
<1> QED BY <1>0, <1>2, <1>3, ServedInv

(* A connection that waits is denied: types, and who is affected.          *)
LEMMA DeniedFacts ==
    ASSUME ControlInv, NEW k \in Conns, Waiting(k), NEW in \in [Conns -> Seq(ClientMsg)],
           \A j \in Conns : j # k => in[j] = up[j], Denied(k, in)
    PROVE  /\ down' \in [Conns -> Seq(ServerMsg)] /\ up' \in [Conns -> Seq(ClientMsg)]
           /\ srv' \in [Conns -> End] /\ CookiesOnly'
           /\ srv'[k] = "closed" /\ up'[k] = <<>>
           /\ Written(down, cli, k, <<"ACCESS_DENIED">>) \in [Conns -> Seq(ServerMsg)]
           /\ down'[k] \in Prefixes(Written(down, cli, k, <<"ACCESS_DENIED">>)[k])
           /\ \A c \in Clients : Parting(c, Written(down, cli, k, <<"ACCESS_DENIED">>))
           /\ \A j \in Conns : j # k => srv'[j] = srv[j] /\ up'[j] = up[j] /\ down'[j] = down[j]
<1> DEFINE out == Written(down, cli, k, <<"ACCESS_DENIED">>)
<1>1. <<"ACCESS_DENIED">> \in Refusals /\ <<"ACCESS_DENIED">> \in Seq(ServerMsg)
    BY RefusalTypes DEF Refusals
<1>0. down \in [Conns -> Seq(ServerMsg)]
    BY ServerFacts
<1>2. out \in [Conns -> Seq(ServerMsg)] /\ \A j \in Conns : j # k => out[j] = down[j]
    BY <1>0, <1>1, DownWritten, Zenon
<1>3. \A c \in Clients : Parting(c, out)
    BY <1>1, RefusalParting
<1>4. srv' = [srv EXCEPT ![k] = "closed"] /\ up' = [in EXCEPT ![k] = <<>>]
    BY DEF Denied
<1>5. /\ down' \in [Conns -> Seq(ServerMsg)]
      /\ \A j \in Conns : j # k => down'[j] = out[j]
      /\ down'[k] \in Prefixes(out[k])
    <2>1. down' \in SurvivingClose(in, out, k) /\ out \in [Conns -> Seq(ServerMsg)]
        BY <1>2 DEF Denied
    <2> HIDE DEF out
    <2> QED BY <2>1, DownClose, Zenon
<1> HIDE DEF out
<1>6. up' \in [Conns -> Seq(ClientMsg)] /\ srv' \in [Conns -> End]
    BY <1>4, ServerFacts DEF End
<1>7. /\ \A j \in Conns : j # k => srv'[j] = srv[j] /\ up'[j] = up[j]
      /\ srv'[k] = "closed" /\ up'[k] = <<>>
    BY <1>4, ServerFacts
<1>8. CookiesOnly'
    <2> SUFFICES ASSUME NEW j \in DataConns, NEW i \in 1 .. Len(up'[j])
                 PROVE  up'[j][i] = "cookie"
        BY DEF CookiesOnly, DataConns
    <2>1. j \in Conns /\ \A n \in 1 .. Len(up[j]) : up[j][n] = "cookie"
        BY ServerFacts DEF CookiesOnly, DataConns
    <2>2. j # k
        BY <1>7, <2>1
    <2> QED BY <1>7, <2>1, <2>2
<1> QED BY <1>2, <1>3, <1>5, <1>6, <1>7, <1>8 DEF out

LEMMA AcceptBusyInv ==
    ASSUME ControlInv, UNCHANGED clivars, iperf_accept_busy
    PROVE  ControlInv'
<1> USE DEF iperf_accept_busy, ServerGoes, InLoop
<1> DEFINE h == Head(backlog)
<1>0. acc = NoConn /\ spc' = spc /\ sstate' = sstate /\ ctrl' = ctrl
    BY ServerFacts DEF ServerPlace
<1>h. h \in Conns /\ Tail(backlog) \in Seq(Conns) /\ Waiting(h)
    <2>1. backlog[1] = h /\ 1 \in 1 .. Len(backlog)
        BY ServerFacts
    <2> QED BY <2>1, ServerFacts DEF Waiting, InBacklog
<1>d. /\ down' \in [Conns -> Seq(ServerMsg)] /\ up' \in [Conns -> Seq(ClientMsg)]
      /\ srv' \in [Conns -> End] /\ CookiesOnly'
      /\ srv'[h] = "closed" /\ up'[h] = <<>>
      /\ Written(down, cli, h, <<"ACCESS_DENIED">>) \in [Conns -> Seq(ServerMsg)]
      /\ down'[h] \in Prefixes(Written(down, cli, h, <<"ACCESS_DENIED">>)[h])
      /\ \A c \in Clients : Parting(c, Written(down, cli, h, <<"ACCESS_DENIED">>))
      /\ \A j \in Conns : j # h => srv'[j] = srv[j] /\ up'[j] = up[j] /\ down'[j] = down[j]
    BY <1>h, ServerFacts, DeniedFacts
<1>1. TypeOK'
    <2>1. "loop" \in ServerPc /\ sstate \in ServerState /\ ServerGoes("loop", sstate)
        BY ServerFacts DEF ServerPc, ServerTypeOK
    <2> QED BY <1>h, <1>d, <2>1, ServerFacts, ServerGoesTypes DEF ServerTypeOK, NetTypeOK
<1>2. ServerPlace'
    BY <1>0, <1>h, ServerFacts DEF ServerPlace
<1>4. ASSUME NEW c \in Clients PROVE PerClient(c)'
    <2> DEFINE k == Ctrl(c)
    <2>0. /\ Queued(k)' /\ (Waiting(k)' <=> Has(Tail(backlog), k))
          /\ (Waiting(k) <=> h = k \/ Has(Tail(backlog), k))
          /\ k \in Conns
        <3>1. InBacklog(k)' <=> Has(Tail(backlog), k)
            BY DEF InBacklog, Has
        <3>2. Waiting(k)' <=> Has(Tail(backlog), k)
            BY <1>0, <3>1, WaitingFacts DEF Waiting
        <3>3. Queued(k)'
            BY <1>0, HeadFacts, WaitingFacts DEF Queued
        <3> QED BY <1>0, <3>2, <3>3, HeadFacts, WaitingFacts DEF Waiting
    <2>1. CASE h = k
        <3>1. ~Waiting(k)' /\ Waiting(k) /\ ctrl' # k
            BY <1>0, <2>0, <2>1, HeadFacts, WaitingFacts
        <3> DEFINE out == Written(down, cli, h, <<"ACCESS_DENIED">>)
        <3>2. /\ out \in [Conns -> Seq(ServerMsg)] /\ down'[k] \in Prefixes(out[k])
              /\ Parting(c, out) /\ srv'[k] = "closed" /\ up'[k] = <<>>
            BY <1>d, <2>1
        <3> HIDE DEF out
        <3> QED BY <2>0, <3>1, <3>2, TurnedAwayInv
    <2>2. CASE h # k /\ ctrl # k
        <3>1. /\ Waiting(k)' <=> Waiting(k)
              /\ srv'[k] = srv[k] /\ up'[k] = up[k] /\ down'[k] = down[k]
            BY <1>d, <2>0, <2>2
        <3> QED BY <1>0, <2>0, <2>2, <3>1, UntouchedInv
    <2>3. CASE h # k /\ ctrl = k
        <3>1. /\ ~Waiting(k)' /\ spc' # "display"
              /\ srv'[k] = srv[k] /\ up'[k] = up[k] /\ down'[k] = down[k]
            BY <1>d, <2>0, <2>3, WaitingFacts
        <3> QED BY <1>0, <2>0, <2>3, <3>1, StillServedInv
    <2> QED BY <2>1, <2>2, <2>3
<1> QED BY <1>1, <1>2, <1>d, <1>4, InvFromParts

-----------------------------------------------------------------------------
(* What the server reads from the connection it serves, and writes on it.  *)
LEMMA CtrlReads ==
    ASSUME ControlInv, NEW c \in Clients, ctrl = Ctrl(c), NEW m \in ClientMsg,
           ServerSees(Ctrl(c), m)
    PROVE  /\ Ascending(UpRank, Unread(up, Ctrl(c))[Ctrl(c)], UpRank[m],
                        ClientSent(cpc[c], cstate[c]))
           /\ ServerRead(spc, sstate) < UpRank[m]
           /\ UpRank[m] <= ClientSent(cpc[c], cstate[c])
<1> DEFINE k == Ctrl(c)
           sent == ClientSent(cpc[c], cstate[c])
<1>1. /\ up \in [Conns -> Seq(ClientMsg)] /\ k \in Conns /\ up[k] # <<>> /\ Head(up[k]) = m
      /\ Ascending(UpRank, up[k], ServerRead(spc, sstate), sent)
    BY ClientFacts DEF ServerSees, ReadBy
<1>2. ServerRead(spc, sstate) \in Nat /\ sent \in Nat
    BY ServerFacts, ClientRanks
<1> HIDE DEF k, sent
<1>3. /\ Ascending(UpRank, Unread(up, k)[k], UpRank[Head(up[k])], sent)
      /\ ServerRead(spc, sstate) < UpRank[Head(up[k])] /\ UpRank[Head(up[k])] <= sent
    BY <1>1, <1>2, UpRead
<1> QED BY <1>1, <1>3 DEF k, sent

LEMMA ClientBehind ==
    ASSUME ControlInv, NEW c \in Clients, ctrl = Ctrl(c), cli[Ctrl(c)] = "open",
           NEW m \in ServerMsg, ServerSent(spc, sstate) < DownRank[m]
    PROVE  ClientRead(cstate[c]) < DownRank[m]
<1>1. ClientHeard(cstate[c]) <= ServerSent(spc, sstate)
    BY ClientFacts DEF Heard, SentBy
<1>2. /\ ClientHeard(cstate[c]) \in Nat /\ ServerSent(spc, sstate) \in Nat
      /\ DownRank[m] \in Nat /\ ClientRead(cstate[c]) \in Nat
    BY HeardRanks, ServerSentType, DownRankType
<1>3. DownRank[m] # 5
    BY DEF DownRank, ServerMsg, ServerByte, ServerPayload
<1>4. CASE cstate[c] = "TEST_END"
    BY <1>1, <1>2, <1>3, <1>4 DEF ClientHeard, ClientRead, ServerByte
<1>5. CASE cstate[c] # "TEST_END"
    BY <1>1, <1>2, <1>5 DEF ClientHeard
<1> QED BY <1>4, <1>5

LEMMA CtrlWrites ==
    ASSUME ControlInv, NEW c \in Clients, ctrl = Ctrl(c), NEW m \in ServerMsg,
           ServerSent(spc, sstate) < DownRank[m]
    PROVE  /\ Ascending(DownRank, Written(down, cli, Ctrl(c), <<m>>)[Ctrl(c)],
                        ClientRead(cstate[c]), DownRank[m])
           /\ cli[Ctrl(c)] # "open" => Written(down, cli, Ctrl(c), <<m>>)[Ctrl(c)] = <<>>
<1> DEFINE k == Ctrl(c)
           lo == ClientRead(cstate[c])
           hi == ServerSent(spc, sstate)
<1>1. /\ down \in [Conns -> Seq(ServerMsg)] /\ k \in Conns
      /\ Ascending(DownRank, down[k], lo, hi)
      /\ cli[k] # "open" => down[k] = <<>>
    BY ClientFacts DEF SentBy, ClientPlace
<1>2. lo \in Nat /\ hi \in Nat /\ DownRank[m] \in Nat /\ DownRank[m] <= DownRank[m]
    BY ServerSentType, HeardRanks, DownRankType
<1>3. CASE cli[k] = "open"
    <2>1. lo < DownRank[m] /\ hi < DownRank[m]
        BY <1>3, ClientBehind
    <2> HIDE DEF k, lo, hi
    <2>2. Ascending(DownRank, Written(down, cli, k, <<m>>)[k], lo, DownRank[m])
        BY <1>1, <1>2, <2>1, DownSend, Zenon
    <2> QED BY <1>3, <2>2 DEF k, lo
<1>4. CASE cli[k] # "open"
    BY <1>1, <1>4, AscendingEmpty DEF Written
<1> QED BY <1>3, <1>4

(* What these do to the other connections.                                 *)
LEMMA CtrlTypes ==
    ASSUME ControlInv, ctrl # NoConn
    PROVE  /\ ctrl \in Conns
           /\ \A m \in ServerMsg :
                 /\ Written(down, cli, ctrl, <<m>>) \in [Conns -> Seq(ServerMsg)]
                 /\ \A j \in Conns : j # ctrl => Written(down, cli, ctrl, <<m>>)[j] = down[j]
           /\ up[ctrl] # <<>> =>
                 /\ Unread(up, ctrl) \in [Conns -> Seq(ClientMsg)]
                 /\ \A j \in Conns : j # ctrl => Unread(up, ctrl)[j] = up[j]
                 /\ up' = Unread(up, ctrl) => CookiesOnly'
<1>1. ctrl \in Conns /\ down \in [Conns -> Seq(ServerMsg)] /\ up \in [Conns -> Seq(ClientMsg)]
    BY ServerFacts
<1>2. ASSUME NEW m \in ServerMsg
      PROVE  /\ Written(down, cli, ctrl, <<m>>) \in [Conns -> Seq(ServerMsg)]
             /\ \A j \in Conns : j # ctrl => Written(down, cli, ctrl, <<m>>)[j] = down[j]
    <2>1. <<m>> \in Seq(ServerMsg)
        OBVIOUS
    <2> QED BY <1>1, <2>1, DownWritten, Zenon
<1>3. ASSUME up[ctrl] # <<>>
      PROVE  /\ Unread(up, ctrl) \in [Conns -> Seq(ClientMsg)]
             /\ \A j \in Conns : j # ctrl => Unread(up, ctrl)[j] = up[j]
    BY <1>1, <1>3, UpUnread, Zenon
<1>4. ASSUME up[ctrl] # <<>>, up' = Unread(up, ctrl) PROVE CookiesOnly'
    <2>1. Consumed(Unread(up, ctrl))
        BY <1>1, <1>4, UnreadConsumed
    <2> QED BY <1>4, <2>1 DEF Consumed, CookiesOnly, DataConns
<1> QED BY <1>1, <1>2, <1>3, <1>4

(* The listening socket is kept, or replaced with what waits reset.        *)
Requeued ==
    \/ backlog' = backlog /\ \A c \in Clients : srv'[Ctrl(c)] = srv[Ctrl(c)]
    \/ backlog' = <<>> /\ srv' = BacklogClosed

LEMMA RequeuedWaiting ==
    ASSUME ControlInv, Requeued, NEW c \in Clients, acc # Ctrl(c), acc' # Ctrl(c)
    PROVE  /\ Queued(Ctrl(c))'
           /\ \/ (Waiting(Ctrl(c))' <=> Waiting(Ctrl(c))) /\ srv'[Ctrl(c)] = srv[Ctrl(c)]
              \/ Waiting(Ctrl(c)) /\ ~Waiting(Ctrl(c))' /\ srv'[Ctrl(c)] = "closed"
<1> DEFINE k == Ctrl(c)
<1>0. Queued(k) /\ k \in Conns /\ backlog \in Seq(Conns)
    BY WaitingFacts, ServerFacts
<1>1. CASE backlog' = backlog /\ srv'[k] = srv[k]
    <2>1. Waiting(k)' <=> Waiting(k)
        BY <1>1 DEF Waiting, InBacklog
    <2>2. Queued(k)'
        BY <1>0, <1>1 DEF Queued, InBacklog
    <2> QED BY <1>1, <2>1, <2>2
<1>2. CASE backlog' = <<>> /\ srv' = BacklogClosed
    <2>1. ~Waiting(k)' /\ Queued(k)'
        BY <1>2 DEF Waiting, InBacklog, Queued, Unique
    <2>2. DOMAIN backlog = 1 .. Len(backlog)
        BY <1>0
    <2>3. srv'[k] = IF InBacklog(k) THEN "closed" ELSE srv[k]
        BY <1>0, <1>2, <2>2 DEF BacklogClosed, InBacklog
    <2> QED BY <2>1, <2>3 DEF Waiting
<1> QED BY <1>1, <1>2 DEF Requeued

LEMMA RequeuedInv ==
    ASSUME ControlInv, UNCHANGED <<clivars, cli>>, Requeued, NEW c \in Clients,
           acc # Ctrl(c), acc' # Ctrl(c), ctrl # Ctrl(c), ctrl' # Ctrl(c),
           up'[Ctrl(c)] = up[Ctrl(c)], down'[Ctrl(c)] = down[Ctrl(c)],
           c \in reported' <=> c \in reported
    PROVE  PerClient(c)'
<1> DEFINE k == Ctrl(c)
<1>1. CASE (Waiting(k)' <=> Waiting(k)) /\ srv'[k] = srv[k]
    BY <1>1, RequeuedWaiting, UntouchedInv
<1>2. CASE Waiting(k) /\ ~Waiting(k)' /\ srv'[k] = "closed"
    <2>1. down \in [Conns -> Seq(ServerMsg)] /\ k \in Conns
        BY ClientFacts
    <2>2. down'[k] \in Prefixes(down[k]) /\ Parting(c, down)
        BY <2>1, DownParting, WholePrefix
    <2> QED BY <1>2, <2>1, <2>2, RequeuedWaiting, TurnedAwayInv
<1> QED BY <1>1, <1>2, RequeuedWaiting

(* A message read from the connection that is served, and answered.        *)
LEMMA ServerAnswersInv ==
    ASSUME ControlInv, UNCHANGED <<clivars, cli>>, Requeued, NEW c \in Clients,
           NEW rd \in ClientMsg, NEW wr \in ServerMsg,
           ctrl # NoConn, acc = NoConn, ctrl' = ctrl, acc' = NoConn,
           ServerSees(ctrl, rd), up' = Unread(up, ctrl),
           down' = Written(down, cli, ctrl, <<wr>>),
           ServerSent(spc, sstate) < DownRank[wr],
           ServerRead(spc', sstate') = UpRank[rd], ServerSent(spc', sstate') = DownRank[wr],
           ctrl # Ctrl(c) => (c \in reported' <=> c \in reported),
           ctrl = Ctrl(c) => Reported(c)'
    PROVE  PerClient(c)'
<1> DEFINE k == Ctrl(c)
<1>0. k # NoConn /\ k \in Conns /\ up[ctrl] # <<>>
    BY WaitingFacts DEF ServerSees
<1>1. CASE ctrl # k
    <2>1. up'[k] = up[k] /\ down'[k] = down[k]
        BY <1>0, <1>1, CtrlTypes
    <2> QED BY <1>0, <1>1, <2>1, RequeuedInv
<1>2. CASE ctrl = k
    <2>1. ~Waiting(k)' /\ srv'[k] = srv[k] /\ Queued(k)'
        BY <1>0, <1>2, WaitingFacts, RequeuedWaiting
    <2>2. /\ Ascending(UpRank, up'[k], ServerRead(spc', sstate'), ClientSent(cpc[c], cstate[c]))
          /\ ServerRead(spc', sstate') <= ClientSent(cpc[c], cstate[c])
        BY <1>2, CtrlReads
    <2>3. /\ Ascending(DownRank, down'[k], ClientRead(cstate[c]), ServerSent(spc', sstate'))
          /\ cli[k] # "open" => down'[k] = <<>>
        BY <1>2, CtrlWrites
    <2>4. ServerSent(spc, sstate) <= ServerSent(spc', sstate')
        BY ServerSentType
    <2> QED BY <1>2, <2>1, <2>2, <2>3, <2>4, ServedInv
<1> QED BY <1>1, <1>2

(* Before the results are exchanged there is nothing to have reported.     *)
LEMMA NotYetReported ==
    ASSUME ControlInv, UNCHANGED <<clivars, cli, reported>>, NEW c \in Clients,
           ctrl = Ctrl(c), ctrl' = ctrl, ServerSent(spc, sstate) < 7,
           NEW msgs \in Seq(ServerMsg), ~Has(msgs, "DISPLAY_RESULTS"),
           down' = Written(down, cli, ctrl, msgs), spc' # "display"
    PROVE  Reported(c)'
<1> DEFINE k == Ctrl(c)
<1>0. Reported(c) /\ k \in Conns /\ down \in [Conns -> Seq(ServerMsg)]
      /\ cpc' = cpc
    BY ClientFacts DEF clivars
<1>1. c \notin reported
    BY <1>0, ServerSentType DEF Reported
<1>2. ~Has(down'[k], "DISPLAY_RESULTS")
    BY <1>0, <1>1, WrittenHas DEF Reported
<1> QED BY <1>0, <1>1, <1>2 DEF Reported

LEMMA OneMessage ==
    ASSUME NEW m \in ServerMsg
    PROVE  <<m>> \in Seq(ServerMsg) /\ (m # "DISPLAY_RESULTS" => ~Has(<<m>>, "DISPLAY_RESULTS"))
BY DEF Has

LEMMA ReadCookieInv ==
    ASSUME ControlInv, UNCHANGED clivars, ReadCookie
    PROVE  ControlInv'
<1>0. /\ spc = "cookie" /\ sstate = "IPERF_START" /\ ctrl # NoConn /\ acc = NoConn
      /\ ctrl \in Conns
    BY ServerFacts DEF ReadCookie, ServerPlace
<1>r. Consumed(up) /\ (up[ctrl] # <<>> => Consumed(Unread(up, ctrl)))
    BY <1>0, UpConsumed, UnreadConsumed
<1>1. CASE /\ ServerSees(ctrl, "cookie")
           /\ up' = Unread(up, ctrl)
           /\ down' = Written(down, cli, ctrl, <<"PARAM_EXCHANGE">>)
           /\ ServerGoes("params", "PARAM_EXCHANGE")
           /\ UNCHANGED <<srv, listening, backlog, ctrl, acc, smode, sopt,
                          sstreams, sworkers, reported>>
    <2>0. /\ spc' = "params" /\ sstate' = "PARAM_EXCHANGE" /\ cli' = cli
          /\ "params" \in ServerPc /\ "PARAM_EXCHANGE" \in ServerState
          /\ "cookie" \in ClientMsg /\ UpRank["cookie"] = 1
          /\ "PARAM_EXCHANGE" \in ServerMsg /\ DownRank["PARAM_EXCHANGE"] = 1
          /\ up[ctrl] # <<>>
        BY <1>1 DEF ServerGoes, ServerPc, ServerState, ClientMsg, ClientPayload, UpRank,
           ServerMsg, ServerByte, DownRank, ServerSees
    <2>1. /\ ServerSent(spc, sstate) = 0 /\ ServerRead(spc', sstate') = 1
          /\ ServerSent(spc', sstate') = 1
        BY <1>0, <2>0 DEF ServerSent, ServerRead, ServerByte
    <2>2. /\ up' \in [Conns -> Seq(ClientMsg)] /\ down' \in [Conns -> Seq(ServerMsg)]
          /\ CookiesOnly'
        BY <1>0, <1>1, <2>0, CtrlTypes
    <2>3. TypeOK'
        BY <1>1, <2>0, <2>2, ServerFacts, ServerGoesTypes DEF ServerTypeOK, NetTypeOK
    <2>4. ServerPlace'
        BY <1>0, <1>1, <2>0, ServerFacts DEF ServerPlace
    <2>5. ASSUME NEW c \in Clients PROVE PerClient(c)'
        <3>1. Requeued
            BY <1>1 DEF Requeued
        <3>2. ASSUME ctrl = Ctrl(c) PROVE Reported(c)'
            <4>1. /\ ServerSent(spc, sstate) < 7 /\ <<"PARAM_EXCHANGE">> \in Seq(ServerMsg)
                  /\ ~Has(<<"PARAM_EXCHANGE">>, "DISPLAY_RESULTS")
                BY <2>0, <2>1, OneMessage
            <4> QED BY <1>1, <2>0, <3>2, <4>1, NotYetReported
        <3> QED BY <1>0, <1>1, <2>0, <2>1, <3>1, <3>2, ServerAnswersInv
    <2> QED BY <2>2, <2>3, <2>4, <2>5, InvFromParts
<1>2. CASE /\ ServerSees(ctrl, "cookie")
           /\ cleanup_server(-1, "other", Unread(up, ctrl), down)
    BY <1>r, <1>2, CleanupInv DEF ServerSees
<1>3. CASE cleanup_server(-1, "other", up, down)
    BY <1>r, <1>3, CleanupInv
<1> QED BY <1>1, <1>2, <1>3 DEF ReadCookie

LEMMA ParamsRejectedInv ==
    ASSUME ControlInv, UNCHANGED clivars, ParamsRejected \/ Unauthenticated
    PROVE  ControlInv'
<1>0. spc = "params" /\ ctrl # NoConn /\ ctrl \in Conns
    BY ServerFacts DEF ParamsRejected, Unauthenticated, ServerPlace
<1>r. Consumed(up) /\ (up[ctrl] # <<>> => Consumed(Unread(up, ctrl)))
    BY <1>0, UpConsumed, UnreadConsumed
<1>m. <<>> \in Refusals /\ <<"SERVER_ERROR", "errs">> \in Refusals
    BY DEF Refusals
<1>1. ASSUME NEW err \in {"IEAUTHTEST", "other"}, NEW msgs \in Refusals,
             NEW in, Consumed(in), FailAfter(err, in, msgs)
      PROVE  ControlInv'
    BY <1>0, <1>1, FailAfterInv
<1>2. CASE ParamsRejected
    <2>1. CASE ServerSees(ctrl, "params") /\ \E msgs \in Refusals : FailAfter("other", Unread(up, ctrl), msgs)
        BY <1>r, <1>1, <2>1 DEF ServerSees
    <2>2. CASE \E msgs \in Refusals : FailAfter("other", up, msgs)
        BY <1>r, <1>1, <2>2
    <2> QED BY <1>2, <1>m, <2>1, <2>2 DEF ParamsRejected
<1>3. CASE Unauthenticated
    <2>1. up[ctrl] # <<>>
        BY <1>3 DEF Unauthenticated, ServerSees
    <2>2. \E err \in {"IEAUTHTEST", "other"}, msgs \in Refusals : FailAfter(err, Unread(up, ctrl), msgs)
        BY <1>3, <1>m DEF Unauthenticated
    <2> QED BY <1>r, <1>1, <2>1, <2>2
<1> QED BY <1>2, <1>3

(* Only a control connection carries parameters.                           *)
LEMMA CtrlIsControl ==
    ASSUME ControlInv, ctrl # NoConn, ServerSees(ctrl, "params")
    PROVE  IsControl(ctrl)
<1> SUFFICES ASSUME ~IsControl(ctrl) PROVE FALSE
    OBVIOUS
<1>1. ctrl \in DataConns /\ up[ctrl] \in Seq(ClientMsg) /\ CookiesOnly
    BY ServerFacts DEF DataConns
<1>2. up[ctrl] # <<>> /\ Head(up[ctrl]) = "params"
    BY DEF ServerSees
<1>3. 1 \in 1 .. Len(up[ctrl]) /\ up[ctrl][1] = "params"
    BY <1>1, <1>2
<1> QED BY <1>1, <1>3 DEF CookiesOnly

LEMMA ParamsAcceptedInv ==
    ASSUME ControlInv, UNCHANGED clivars, ParamsAccepted
    PROVE  ControlInv'
<1>0. /\ spc = "params" /\ sstate = "PARAM_EXCHANGE" /\ ctrl # NoConn /\ acc = NoConn
      /\ ctrl \in Conns /\ ServerSees(ctrl, "params") /\ up[ctrl] # <<>>
    BY ServerFacts DEF ParamsAccepted, ServerPlace, ServerSees
<1>c. IsControl(ctrl) /\ Owner(ctrl) \in Clients
    BY <1>0, CtrlIsControl DEF Conns, Owner
<1>1. CASE /\ up' = Unread(up, ctrl)
           /\ down' = Written(down, cli, ctrl, <<"CREATE_STREAMS">>)
           /\ Relistened(copt[Owner(ctrl)], srv)
           /\ smode' = ServerMode(cmode[Owner(ctrl)])
           /\ sopt' = copt[Owner(ctrl)]
           /\ ServerGoes("loop", "CREATE_STREAMS")
           /\ UNCHANGED <<listening, ctrl, acc, sstreams, sworkers, reported>>
    <2>0. /\ spc' = "loop" /\ sstate' = "CREATE_STREAMS" /\ cli' = cli
          /\ "loop" \in ServerPc /\ "CREATE_STREAMS" \in ServerState
          /\ "params" \in ClientMsg /\ UpRank["params"] = 2
          /\ "CREATE_STREAMS" \in ServerMsg /\ DownRank["CREATE_STREAMS"] = 2
        BY <1>1 DEF ServerGoes, ServerPc, ServerState, ClientMsg, ClientPayload, UpRank,
           ServerMsg, ServerByte, DownRank
    <2>1. /\ ServerSent(spc, sstate) = 1 /\ ServerRead(spc', sstate') = 2
          /\ ServerSent(spc', sstate') = 2
        BY <1>0, <2>0 DEF ServerSent, ServerRead, ServerByte, DownRank, ServerMsg
    <2>2. /\ up' \in [Conns -> Seq(ClientMsg)] /\ down' \in [Conns -> Seq(ServerMsg)]
          /\ CookiesOnly'
        BY <1>0, <1>1, <2>0, CtrlTypes
    <2>3. Requeued /\ backlog' \in Seq(Conns) /\ srv' \in [Conns -> End]
        <3>1. BacklogClosed \in [Conns -> End]
            BY ServerFacts DEF BacklogClosed, End
        <3>2. Requeued
            BY <1>1 DEF Requeued, Relistened
        <3> QED BY <1>1, <3>1, <3>2, ServerFacts DEF Relistened
    <2>4. smode' \in {"SENDER", "RECEIVER", "BIDIRECTIONAL"} /\ sopt' \in SUBSET TestOption
        <3>1. cmode[Owner(ctrl)] \in {"SENDER", "RECEIVER", "BIDIRECTIONAL"}
            BY <1>c, ClientAssumption, ClientFacts
        <3>2. copt[Owner(ctrl)] \in SUBSET TestOption
            BY <1>c, ServerFacts, ClientAssumption DEF ClientTypeOK
        <3> QED BY <1>1, <3>1, <3>2 DEF ServerMode
    <2>5. TypeOK'
        BY <1>1, <2>0, <2>2, <2>3, <2>4, ServerFacts, ServerGoesTypes DEF ServerTypeOK, NetTypeOK
    <2>6. ServerPlace'
        BY <1>0, <1>c, <1>1, <2>0, ServerFacts DEF ServerPlace
    <2>7. ASSUME NEW c \in Clients PROVE PerClient(c)'
        <3>2. ASSUME ctrl = Ctrl(c) PROVE Reported(c)'
            <4>1. /\ ServerSent(spc, sstate) < 7 /\ <<"CREATE_STREAMS">> \in Seq(ServerMsg)
                  /\ ~Has(<<"CREATE_STREAMS">>, "DISPLAY_RESULTS")
                BY <2>0, <2>1, OneMessage
            <4> QED BY <1>1, <2>0, <3>2, <4>1, NotYetReported
        <3> QED BY <1>0, <1>1, <2>0, <2>1, <2>3, <3>2, ServerAnswersInv
    <2> QED BY <2>2, <2>5, <2>6, <2>7, InvFromParts
<1>2. CASE FailAfter("other", Unread(up, ctrl), <<>>)
    <2>1. Consumed(Unread(up, ctrl)) /\ <<>> \in Refusals
        BY <1>0, UnreadConsumed DEF Refusals
    <2> QED BY <1>0, <1>2, <2>1, FailAfterInv
<1> QED BY <1>1, <1>2 DEF ParamsAccepted

-----------------------------------------------------------------------------
(* CREATE_STREAMS: the head of the backlog is looked at.                   *)
LEMMA TcpAcceptInv ==
    ASSUME ControlInv, UNCHANGED clivars, iperf_tcp_accept
    PROVE  ControlInv'
<1> USE DEF iperf_tcp_accept, ServerGoes, InLoop
<1>0. /\ acc = NoConn /\ sstate = "CREATE_STREAMS" /\ ctrl # NoConn /\ IsControl(ctrl)
      /\ spc = "loop" /\ spc' = "stream" /\ sstate' = sstate /\ ctrl' = ctrl
    BY ServerFacts DEF ServerPlace
<1>h. /\ Head(backlog) \in Conns /\ Tail(backlog) \in Seq(Conns)
      /\ acc' = Head(backlog) /\ acc' # NoConn
    BY ServerFacts
<1>1. TypeOK'
    <2>1. "stream" \in ServerPc /\ sstate \in ServerState /\ ServerGoes("stream", sstate)
        BY ServerFacts DEF ServerPc, ServerTypeOK
    <2> QED BY <1>h, <2>1, ServerFacts, ServerGoesTypes DEF ServerTypeOK, NetTypeOK
<1>2. ServerPlace'
    BY <1>0, <1>h, ServerFacts DEF ServerPlace
<1>3. CookiesOnly'
    BY ServerFacts DEF CookiesOnly
<1>4. ASSUME NEW c \in Clients PROVE PerClient(c)'
    <2> DEFINE k == Ctrl(c)
    <2>0. Queued(k)' /\ (Waiting(k)' <=> Waiting(k))
        <3>1. InBacklog(k)' <=> Has(Tail(backlog), k)
            BY DEF InBacklog, Has
        <3>2. Waiting(k)' <=> Has(Tail(backlog), k) \/ Head(backlog) = k
            BY <1>h, <3>1 DEF Waiting
        <3>3. Queued(k)'
            BY <1>h, <3>1, HeadFacts DEF Queued
        <3>4. Waiting(k) <=> Has(Tail(backlog), k) \/ Head(backlog) = k
            BY <1>0, HeadFacts, WaitingFacts DEF Waiting
        <3> QED BY <3>2, <3>3, <3>4
    <2>1. CASE ctrl # k
        BY <1>0, <2>0, <2>1, UntouchedInv
    <2>2. CASE ctrl = k
        <3>1. ~Waiting(k)' /\ spc' # "display"
            BY <1>0, <2>0, <2>2, WaitingFacts
        <3>2. /\ ServerRead(spc', sstate') = ServerRead(spc, sstate)
              /\ ServerSent(spc', sstate') = ServerSent(spc, sstate)
            BY <1>0 DEF ServerRead, ServerSent
        <3> QED BY <1>0, <2>0, <2>2, <3>1, <3>2, StillServedInv
    <2> QED BY <2>1, <2>2
<1> QED BY <1>1, <1>2, <1>3, <1>4, InvFromParts

(* A cookie that matches came on a data connection.                        *)
LEMMA AccIsData ==
    ASSUME ControlInv, spc = "stream", CookieMatches
    PROVE  /\ acc \in Conns /\ ~IsControl(acc) /\ IsControl(ctrl) /\ ctrl \in Conns
           /\ up[acc] # <<>> /\ sstate = "CREATE_STREAMS" /\ \A c \in Clients : acc # Ctrl(c)
           /\ ctrl # NoConn
<1>1. /\ acc \in Conns /\ ctrl \in Conns /\ ctrl # NoConn /\ IsControl(ctrl)
      /\ sstate = "CREATE_STREAMS"
    BY ServerFacts DEF ServerPlace
<1>2. Owner(acc) = Owner(ctrl) /\ up[acc] # <<>>
    BY DEF CookieMatches, ServerSees
<1>3. Owner(ctrl) \in Clients
    BY <1>1 DEF Conns, Owner
<1>4. ~IsControl(acc)
    <2> SUFFICES ASSUME IsControl(acc) PROVE FALSE
        OBVIOUS
    <2>1. acc = Ctrl(Owner(ctrl)) /\ ctrl = Ctrl(Owner(ctrl))
        BY <1>1, <1>2, <1>3, CtrlConn
    <2>2. Waiting(Ctrl(Owner(ctrl)))
        BY <2>1 DEF Waiting
    <2> QED BY <1>3, <2>1, <2>2, WaitingFacts
<1>5. \A c \in Clients : acc # Ctrl(c)
    BY <1>4, CtrlConn
<1> QED BY <1>1, <1>2, <1>4, <1>5

LEMMA AccFacts ==
    ASSUME ControlInv, spc = "stream", CookieMatches, up' = Unread(up, acc)
    PROVE  /\ up' \in [Conns -> Seq(ClientMsg)] /\ CookiesOnly'
           /\ \A c \in Clients : up'[Ctrl(c)] = up[Ctrl(c)]
           /\ Consumed(Unread(up, acc))
           /\ sstreams' = StreamAdded =>
                 /\ sstreams' \in Seq([conn : Conns, sender : BOOLEAN])
                 /\ \A i \in DOMAIN sstreams' : ~IsControl(sstreams'[i].conn)
<1>1. acc \in Conns /\ ~IsControl(acc) /\ up[acc] # <<>> /\ \A c \in Clients : acc # Ctrl(c)
    BY AccIsData
<1>2. Consumed(Unread(up, acc))
    BY <1>1, UnreadConsumed
<1>3. up' \in [Conns -> Seq(ClientMsg)] /\ CookiesOnly'
    BY <1>2 DEF Consumed, CookiesOnly, DataConns
<1>4. \A j \in Conns : j # acc => up'[j] = up[j]
    BY <1>1, ServerFacts, UpUnread
<1>5. \A c \in Clients : up'[Ctrl(c)] = up[Ctrl(c)]
    BY <1>1, <1>4, CtrlConn
<1>6. ASSUME sstreams' = StreamAdded
      PROVE  /\ sstreams' \in Seq([conn : Conns, sender : BOOLEAN])
             /\ \A i \in DOMAIN sstreams' : ~IsControl(sstreams'[i].conn)
    <2> DEFINE R == [conn : Conns, sender : BOOLEAN]
               e == [conn |-> acc, sender |-> NextIsSender]
    <2>1. NextIsSender \in BOOLEAN
        BY DEF NextIsSender
    <2>2. e \in R /\ e.conn = acc
        BY <1>1, <2>1
    <2>3. sstreams \in Seq(R) /\ \A i \in DOMAIN sstreams : ~IsControl(sstreams[i].conn)
        BY ServerFacts DEF ServerTypeOK, ServerPlace
    <2>4. sstreams' = Append(sstreams, e)
        BY <1>6 DEF StreamAdded
    <2> HIDE DEF R, e
    <2>5. /\ sstreams' \in Seq(R) /\ Len(sstreams') = Len(sstreams) + 1
          /\ sstreams'[Len(sstreams) + 1] = e /\ Len(sstreams) \in Nat
          /\ \A i \in 1 .. Len(sstreams) : sstreams'[i] = sstreams[i]
        BY <2>2, <2>3, <2>4
    <2>6. DOMAIN sstreams = 1 .. Len(sstreams) /\ DOMAIN sstreams' = 1 .. Len(sstreams) + 1
        BY <2>3, <2>5
    <2>7. \A i \in DOMAIN sstreams' : i \in DOMAIN sstreams \/ i = Len(sstreams) + 1
        BY <2>5, <2>6
    <2>8. \A i \in DOMAIN sstreams' : ~IsControl(sstreams'[i].conn)
        BY <1>1, <2>2, <2>3, <2>5, <2>6, <2>7
    <2> QED BY <2>5, <2>8 DEF R
<1> QED BY <1>2, <1>3, <1>5, <1>6

LEMMA StreamAcceptedInv ==
    ASSUME ControlInv, UNCHANGED clivars, StreamAccepted
    PROVE  ControlInv'
<1> USE DEF StreamAccepted, ServerGoes
<1>0. /\ spc = "stream" /\ sstate = "CREATE_STREAMS" /\ ctrl # NoConn /\ IsControl(ctrl)
      /\ CookieMatches /\ acc \in Conns /\ ctrl \in Conns
      /\ spc' = "loop" /\ sstate' = sstate /\ ctrl' = ctrl /\ acc' = NoConn
      /\ \A c \in Clients : acc # Ctrl(c)
    BY AccIsData
<1>u. /\ up' \in [Conns -> Seq(ClientMsg)] /\ CookiesOnly'
      /\ \A c \in Clients : up'[Ctrl(c)] = up[Ctrl(c)]
      /\ sstreams' \in Seq([conn : Conns, sender : BOOLEAN])
      /\ \A i \in DOMAIN sstreams' : ~IsControl(sstreams'[i].conn)
    BY AccFacts
<1>1. TypeOK'
    <2>1. "loop" \in ServerPc /\ sstate \in ServerState /\ ServerGoes("loop", sstate)
        BY ServerFacts DEF ServerPc, ServerTypeOK
    <2> QED BY <1>0, <1>u, <2>1, ServerFacts, ServerGoesTypes DEF ServerTypeOK, NetTypeOK
<1>2. ServerPlace'
    BY <1>0, <1>u, ServerFacts DEF ServerPlace
<1>4. ASSUME NEW c \in Clients PROVE PerClient(c)'
    <2> DEFINE k == Ctrl(c)
    <2>0. /\ Requeued /\ acc' # k /\ acc # k /\ Queued(k)' /\ srv'[k] = srv[k]
          /\ up'[k] = up[k] /\ down'[k] = down[k] /\ (Waiting(k)' <=> Waiting(k))
        <3>1. Requeued /\ acc' # k /\ acc # k
            BY <1>0, WaitingFacts DEF Requeued
        <3>2. Waiting(k)' <=> Waiting(k)
            BY <3>1 DEF Waiting, InBacklog
        <3> QED BY <1>u, <3>1, <3>2, RequeuedWaiting
    <2>1. CASE ctrl # k
        BY <1>0, <2>0, <2>1, UntouchedInv
    <2>2. CASE ctrl = k
        <3>1. ~Waiting(k)' /\ spc' # "display"
            BY <1>0, <2>0, <2>2, WaitingFacts
        <3>2. /\ ServerRead(spc', sstate') = ServerRead(spc, sstate)
              /\ ServerSent(spc', sstate') = ServerSent(spc, sstate)
            BY <1>0 DEF ServerRead, ServerSent
        <3> QED BY <1>0, <2>0, <2>2, <3>1, <3>2, StillServedInv
    <2> QED BY <2>1, <2>2
<1> QED BY <1>1, <1>2, <1>u, <1>4, InvFromParts

LEMMA StreamDeniedInv ==
    ASSUME ControlInv, UNCHANGED clivars, StreamDenied
    PROVE  ControlInv'
<1> DEFINE in == IF up[acc] = <<>> THEN up ELSE Unread(up, acc)
<1>0. /\ spc = "stream" /\ sstate = "CREATE_STREAMS" /\ ctrl # NoConn /\ IsControl(ctrl)
      /\ acc \in Conns /\ ctrl \in Conns /\ Waiting(acc)
    BY ServerFacts DEF StreamDenied, ServerPlace, Waiting
<1>r. /\ Consumed(in) /\ in \in [Conns -> Seq(ClientMsg)]
      /\ \A j \in Conns : j # acc => in[j] = up[j]
    <2>1. Consumed(in)
        BY <1>0, UpConsumed, UnreadConsumed
    <2>2. \A j \in Conns : j # acc => in[j] = up[j]
        BY <1>0, ServerFacts, UpUnread
    <2> QED BY <2>1, <2>2 DEF Consumed
<1> HIDE DEF in
<1>1. CASE cleanup_server(-1, "other", in, Written(down, cli, acc, <<"ACCESS_DENIED">>))
    <2>1. <<"ACCESS_DENIED">> \in Refusals
        BY DEF Refusals
    <2> QED BY <1>0, <1>r, <1>1, <2>1, CleanupAfterInv
<1>2. CASE /\ Denied(acc, in)
           /\ acc' = NoConn
           /\ ServerGoes("loop", sstate)
           /\ UNCHANGED <<listening, backlog, ctrl, smode, sopt, sstreams, sworkers, reported>>
    <2>d. /\ down' \in [Conns -> Seq(ServerMsg)] /\ up' \in [Conns -> Seq(ClientMsg)]
          /\ srv' \in [Conns -> End] /\ CookiesOnly'
          /\ srv'[acc] = "closed" /\ up'[acc] = <<>>
          /\ Written(down, cli, acc, <<"ACCESS_DENIED">>) \in [Conns -> Seq(ServerMsg)]
          /\ down'[acc] \in Prefixes(Written(down, cli, acc, <<"ACCESS_DENIED">>)[acc])
          /\ \A c \in Clients : Parting(c, Written(down, cli, acc, <<"ACCESS_DENIED">>))
          /\ \A j \in Conns : j # acc => srv'[j] = srv[j] /\ up'[j] = up[j] /\ down'[j] = down[j]
        BY <1>0, <1>r, <1>2, DeniedFacts
    <2>0. spc' = "loop" /\ sstate' = sstate /\ ctrl' = ctrl /\ cli' = cli /\ backlog' = backlog
        BY <1>2 DEF ServerGoes
    <2>1. TypeOK'
        <3>1. "loop" \in ServerPc /\ sstate \in ServerState /\ ServerGoes("loop", sstate)
            BY <1>2, ServerFacts DEF ServerPc, ServerTypeOK
        <3> QED BY <1>2, <2>d, <3>1, ServerFacts, ServerGoesTypes DEF ServerTypeOK, NetTypeOK
    <2>2. ServerPlace'
        BY <1>0, <1>2, <2>0, ServerFacts DEF ServerPlace
    <2>4. ASSUME NEW c \in Clients PROVE PerClient(c)'
        <3> DEFINE k == Ctrl(c)
        <3>0. /\ k \in Conns /\ k # NoConn /\ Queued(k)'
              /\ (Waiting(k)' <=> InBacklog(k)) /\ (Waiting(k) <=> InBacklog(k) \/ acc = k)
              /\ (acc = k => ~InBacklog(k))
            BY <1>2, <2>0, WaitingFacts DEF Queued, Waiting, InBacklog
        <3>1. CASE acc = k
            <4>1. ~Waiting(k)' /\ Waiting(k) /\ ctrl' # k
                BY <2>0, <3>0, <3>1, WaitingFacts
            <4> DEFINE out == Written(down, cli, acc, <<"ACCESS_DENIED">>)
            <4>2. /\ out \in [Conns -> Seq(ServerMsg)] /\ down'[k] \in Prefixes(out[k])
                  /\ Parting(c, out) /\ srv'[k] = "closed" /\ up'[k] = <<>>
                BY <2>d, <3>1
            <4> HIDE DEF out
            <4> QED BY <1>2, <2>0, <3>0, <4>1, <4>2, TurnedAwayInv
        <3>2. CASE acc # k
            <4>1. /\ Waiting(k)' <=> Waiting(k)
                  /\ srv'[k] = srv[k] /\ up'[k] = up[k] /\ down'[k] = down[k]
                BY <2>d, <3>0, <3>2
            <4>2. CASE ctrl # k
                BY <1>2, <2>0, <3>0, <4>1, <4>2, UntouchedInv
            <4>3. CASE ctrl = k
                <5>1. ~Waiting(k)' /\ spc' # "display"
                    BY <2>0, <4>1, <4>3, WaitingFacts
                <5>2. /\ ServerRead(spc', sstate') = ServerRead(spc, sstate)
                      /\ ServerSent(spc', sstate') = ServerSent(spc, sstate)
                    BY <1>0, <2>0 DEF ServerRead, ServerSent
                <5> QED BY <1>2, <2>0, <3>0, <4>1, <4>3, <5>1, <5>2, StillServedInv
            <4> QED BY <4>2, <4>3
        <3> QED BY <3>1, <3>2
    <2> QED BY <2>1, <2>2, <2>d, <2>4, InvFromParts
<1> QED BY <1>1, <1>2 DEF StreamDenied, in

LEMMA LastStreamAcceptedInv ==
    ASSUME ControlInv, UNCHANGED clivars, LastStreamAccepted
    PROVE  ControlInv'
<1>0. /\ spc = "stream" /\ sstate = "CREATE_STREAMS" /\ ctrl # NoConn /\ IsControl(ctrl)
      /\ CookieMatches /\ acc \in Conns /\ ctrl \in Conns /\ up[acc] # <<>>
      /\ \A c \in Clients : acc # Ctrl(c)
    BY AccIsData DEF LastStreamAccepted
<1>1. CASE /\ sstreams' = StreamAdded
           /\ up' = Unread(up, acc)
           /\ acc' = NoConn
           /\ Relistened(sopt, srv)
           /\ down' = Written(down, cli, ctrl, <<"TEST_START", "TEST_RUNNING">>)
           /\ sworkers' = TRUE
           /\ ServerGoes("loop", "TEST_RUNNING")
           /\ UNCHANGED <<listening, ctrl, smode, sopt, reported>>
    <2>0. /\ spc' = "loop" /\ sstate' = "TEST_RUNNING" /\ cli' = cli
          /\ "loop" \in ServerPc /\ "TEST_RUNNING" \in ServerState
          /\ "TEST_START" \in ServerMsg /\ "TEST_RUNNING" \in ServerMsg
          /\ DownRank["TEST_START"] = 3 /\ DownRank["TEST_RUNNING"] = 4
        BY <1>1 DEF ServerGoes, ServerPc, ServerState, ServerMsg, ServerByte, DownRank
    <2>1. /\ ServerSent(spc, sstate) = 2 /\ ServerRead(spc, sstate) = 2
          /\ ServerRead(spc', sstate') = 2 /\ ServerSent(spc', sstate') = 4
        BY <1>0, <2>0 DEF ServerSent, ServerRead, ServerByte, DownRank, ServerMsg
    <2>2. /\ up' \in [Conns -> Seq(ClientMsg)] /\ CookiesOnly'
          /\ \A c \in Clients : up'[Ctrl(c)] = up[Ctrl(c)]
          /\ sstreams' \in Seq([conn : Conns, sender : BOOLEAN])
          /\ \A i \in DOMAIN sstreams' : ~IsControl(sstreams'[i].conn)
        BY <1>0, <1>1, AccFacts
    <2> DEFINE msgs == <<"TEST_START", "TEST_RUNNING">>
    <2>3. msgs \in Seq(ServerMsg) /\ ~Has(msgs, "DISPLAY_RESULTS")
        BY <2>0 DEF Has
    <2>a. down' = Written(down, cli, ctrl, msgs)
        BY <1>1
    <2> HIDE DEF msgs
    <2>4. /\ down' \in [Conns -> Seq(ServerMsg)]
          /\ \A j \in Conns : j # ctrl => down'[j] = down[j]
          /\ cli[ctrl] # "open" => down' = down
        <3>1. down \in [Conns -> Seq(ServerMsg)]
            BY ServerFacts
        <3>2. /\ Written(down, cli, ctrl, msgs) \in [Conns -> Seq(ServerMsg)]
              /\ \A j \in Conns : j # ctrl => Written(down, cli, ctrl, msgs)[j] = down[j]
              /\ cli[ctrl] # "open" => Written(down, cli, ctrl, msgs) = down
            BY <1>0, <2>3, <3>1 DEF Written
        <3> QED BY <2>a, <3>2
    <2>5. Requeued /\ backlog' \in Seq(Conns) /\ srv' \in [Conns -> End]
        <3>1. BacklogClosed \in [Conns -> End]
            BY ServerFacts DEF BacklogClosed, End
        <3>2. Requeued
            BY <1>1 DEF Requeued, Relistened
        <3> QED BY <1>1, <3>1, <3>2, ServerFacts DEF Relistened
    <2>6. TypeOK'
        BY <1>1, <2>0, <2>2, <2>4, <2>5, ServerFacts, ServerGoesTypes DEF ServerTypeOK, NetTypeOK
    <2>7. ServerPlace'
        BY <1>0, <1>1, <2>0, <2>2, ServerFacts DEF ServerPlace
    <2>8. ASSUME NEW c \in Clients PROVE PerClient(c)'
        <3> DEFINE k == Ctrl(c)
                   lo == ClientRead(cstate[c])
        <3>0. acc # k /\ acc' # k /\ k \in Conns
            BY <1>0, <1>1, WaitingFacts
        <3>1. CASE ctrl # k
            <4>1. up'[k] = up[k] /\ down'[k] = down[k]
                BY <2>2, <2>4, <3>0, <3>1
            <4> QED BY <1>1, <2>0, <2>5, <3>0, <3>1, <4>1, RequeuedInv
        <3>2. CASE ctrl = k
            <4>1. ~Waiting(k)' /\ srv'[k] = srv[k] /\ Queued(k)'
                BY <2>5, <3>0, <3>2, WaitingFacts, RequeuedWaiting
            <4>2. /\ Ascending(UpRank, up'[k], 2, ClientSent(cpc[c], cstate[c]))
                  /\ 2 <= ClientSent(cpc[c], cstate[c])
                  /\ Ascending(DownRank, down[k], lo, 2)
                  /\ cli[k] # "open" => down[k] = <<>>
                BY <2>1, <2>2, <3>2, ClientFacts DEF ReadBy, SentBy, ClientPlace
            <4>3. Ascending(DownRank, down'[k], lo, 4)
                <5>1. CASE cli[k] = "open"
                    <6>1. lo < DownRank["TEST_START"]
                        BY <2>0, <2>1, <3>2, <5>1, ClientBehind
                    <6>2. lo \in Nat /\ down \in [Conns -> Seq(ServerMsg)] /\ 2 \in Nat
                          /\ 2 < DownRank["TEST_START"]
                          /\ DownRank["TEST_START"] < DownRank["TEST_RUNNING"]
                        BY <2>0, HeardRanks, ServerFacts
                    <6> HIDE DEF lo
                    <6>3. Ascending(DownRank, Written(down, cli, k, <<"TEST_START", "TEST_RUNNING">>)[k],
                                    lo, DownRank["TEST_RUNNING"])
                        BY <2>0, <3>0, <4>2, <6>1, <6>2, DownSendTwo, Zenon
                    <6> QED BY <1>1, <2>0, <3>2, <6>3
                <5>2. CASE cli[k] # "open"
                    BY <2>4, <3>2, <4>2, <5>2, AscendingEmpty
                <5> QED BY <5>1, <5>2
            <4>4. Reported(c)'
                BY <1>1, <2>0, <2>1, <2>3, <2>a, <3>2, NotYetReported
            <4>5. cli[k] # "open" => down'[k] = <<>>
                BY <2>4, <3>2, <4>2
            <4> QED BY <1>1, <2>0, <2>1, <3>2, <4>1, <4>2, <4>3, <4>4, <4>5, ServedInv
        <3> QED BY <3>1, <3>2
    <2> QED BY <2>2, <2>6, <2>7, <2>8, InvFromParts
<1>2. CASE cleanup_server(-1, "other", Unread(up, acc), down)
    <2>1. Consumed(Unread(up, acc))
        BY <1>0, UnreadConsumed
    <2> QED BY <1>2, <2>1, CleanupInv
<1> QED BY <1>1, <1>2 DEF LastStreamAccepted

-----------------------------------------------------------------------------
(* iperf_handle_message_server.                                            *)
LEMMA StreamsClosedFacts ==
    ASSUME ControlInv
    PROVE  /\ StreamsClosed \in [Conns -> End]
           /\ \A c \in Clients : StreamsClosed[Ctrl(c)] = srv[Ctrl(c)]
<1>1. StreamsClosed \in [Conns -> End]
    BY ServerFacts DEF StreamsClosed, End
<1>2. \A i \in DOMAIN sstreams : ~IsControl(sstreams[i].conn)
    BY ServerFacts DEF ServerPlace
<1>3. ASSUME NEW c \in Clients PROVE StreamsClosed[Ctrl(c)] = srv[Ctrl(c)]
    <2>1. Ctrl(c) \in Conns /\ \A i \in DOMAIN sstreams : sstreams[i].conn # Ctrl(c)
        BY <1>2, CtrlConn
    <2> QED BY <2>1 DEF StreamsClosed
<1> QED BY <1>1, <1>3

LEMMA TestEndInv ==
    ASSUME ControlInv, UNCHANGED clivars, HandleTestEnd
    PROVE  ControlInv'
<1>0. /\ spc = "loop" /\ ctrl # NoConn /\ IsControl(ctrl) /\ ctrl \in Conns /\ acc = NoConn
      /\ ServerSees(ctrl, "TEST_END") /\ up[ctrl] # <<>>
      /\ sstate \in {"CREATE_STREAMS", "TEST_RUNNING", "DISPLAY_RESULTS"}
    BY ServerFacts DEF HandleTestEnd, InLoop, ServerPlace, ServerSees
<1>c. sstate \in {"CREATE_STREAMS", "TEST_RUNNING"}
    <2>1. Owner(ctrl) \in Clients
        BY <1>0 DEF Conns, Owner
    <2>2. ctrl = Ctrl(Owner(ctrl))
        BY <1>0, <2>1, CtrlConn
    <2>3. "TEST_END" \in ClientMsg /\ UpRank["TEST_END"] = 3
        BY DEF ClientMsg, ClientByte, UpRank
    <2>4. ServerRead(spc, sstate) < 3
        BY <1>0, <2>1, <2>2, <2>3, CtrlReads
    <2>5. ServerRead(spc, "DISPLAY_RESULTS") = 4
        BY DEF ServerRead
    <2> QED BY <1>0, <2>4, <2>5
<1>1. CASE /\ srv' = StreamsClosed
           /\ up' = Unread(up, ctrl)
           /\ down' = Written(down, cli, ctrl, <<"EXCHANGE_RESULTS">>)
           /\ ServerGoes("results", "EXCHANGE_RESULTS")
           /\ UNCHANGED <<listening, backlog, ctrl, acc, smode, sopt, sstreams,
                          sworkers, reported>>
    <2>0. /\ spc' = "results" /\ sstate' = "EXCHANGE_RESULTS" /\ cli' = cli
          /\ "results" \in ServerPc /\ "EXCHANGE_RESULTS" \in ServerState
          /\ "TEST_END" \in ClientMsg /\ UpRank["TEST_END"] = 3
          /\ "EXCHANGE_RESULTS" \in ServerMsg /\ DownRank["EXCHANGE_RESULTS"] = 6
        BY <1>1 DEF ServerGoes, ServerPc, ServerState, ClientMsg, ClientByte, UpRank,
           ServerMsg, ServerByte, DownRank
    <2>1. /\ ServerSent(spc, sstate) \in {2, 4} /\ ServerRead(spc', sstate') = 3
          /\ ServerSent(spc', sstate') = 6
        BY <1>0, <1>c, <2>0 DEF ServerSent, ServerRead, ServerByte, DownRank, ServerMsg
    <2>2. /\ up' \in [Conns -> Seq(ClientMsg)] /\ down' \in [Conns -> Seq(ServerMsg)]
          /\ CookiesOnly'
        BY <1>0, <1>1, <2>0, CtrlTypes
    <2>3. srv' \in [Conns -> End] /\ Requeued
        BY <1>1, StreamsClosedFacts DEF Requeued
    <2>4. TypeOK'
        BY <1>1, <2>0, <2>2, <2>3, ServerFacts, ServerGoesTypes DEF ServerTypeOK, NetTypeOK
    <2>5. ServerPlace'
        BY <1>0, <1>1, <2>0, ServerFacts DEF ServerPlace
    <2>6. ASSUME NEW c \in Clients PROVE PerClient(c)'
        <3>2. ASSUME ctrl = Ctrl(c) PROVE Reported(c)'
            <4>1. /\ ServerSent(spc, sstate) < 7 /\ <<"EXCHANGE_RESULTS">> \in Seq(ServerMsg)
                  /\ ~Has(<<"EXCHANGE_RESULTS">>, "DISPLAY_RESULTS")
                BY <2>0, <2>1, OneMessage
            <4> QED BY <1>1, <2>0, <3>2, <4>1, NotYetReported
        <3>3. ServerSent(spc, sstate) < DownRank["EXCHANGE_RESULTS"]
            BY <2>0, <2>1
        <3> QED BY <1>0, <1>1, <2>0, <2>1, <2>3, <3>2, <3>3, ServerAnswersInv
    <2> QED BY <2>2, <2>4, <2>5, <2>6, InvFromParts
<1>2. CASE FailAfter("other", Unread(up, ctrl), <<>>)
    <2>1. Consumed(Unread(up, ctrl)) /\ <<>> \in Refusals
        BY <1>0, UnreadConsumed DEF Refusals
    <2> QED BY <1>0, <1>2, <2>1, FailAfterInv
<1> QED BY <1>1, <1>2 DEF HandleTestEnd

LEMMA ExchangeResultsInv ==
    ASSUME ControlInv, UNCHANGED clivars, ExchangeResults
    PROVE  ControlInv'
<1>0. /\ spc = "results" /\ ctrl # NoConn /\ IsControl(ctrl) /\ ctrl \in Conns /\ acc = NoConn
      /\ sstate = "EXCHANGE_RESULTS"
    BY ServerFacts DEF ExchangeResults, ServerPlace
<1>r. Consumed(up) /\ (up[ctrl] # <<>> => Consumed(Unread(up, ctrl))) /\ <<>> \in Refusals
    BY <1>0, UpConsumed, UnreadConsumed DEF Refusals
<1>c. Owner(ctrl) \in Clients /\ ctrl = Ctrl(Owner(ctrl))
    <2>1. Owner(ctrl) \in Clients
        BY <1>0 DEF Conns, Owner
    <2> QED BY <1>0, <2>1, CtrlConn
<1>1. CASE /\ ServerSees(ctrl, "results")
           /\ up' = Unread(up, ctrl)
           /\ down' = Written(down, cli, ctrl, <<"results">>)
           /\ reported' = reported \cup {Owner(ctrl)}
           /\ ServerGoes("display", sstate)
           /\ UNCHANGED <<srv, listening, backlog, ctrl, acc, smode, sopt, sstreams, sworkers>>
    <2>0. /\ spc' = "display" /\ sstate' = "EXCHANGE_RESULTS" /\ cli' = cli
          /\ "display" \in ServerPc /\ sstate \in ServerState
          /\ "results" \in ClientMsg /\ UpRank["results"] = 4
          /\ "results" \in ServerMsg /\ DownRank["results"] = 7 /\ up[ctrl] # <<>>
        BY <1>0, <1>1 DEF ServerGoes, ServerPc, ServerState, ClientMsg, ClientPayload, UpRank,
           ServerMsg, ServerPayload, ServerByte, DownRank, ServerSees
    <2>1. /\ ServerSent(spc, sstate) = 6 /\ ServerRead(spc', sstate') = 4
          /\ ServerSent(spc', sstate') = 7
        BY <1>0, <2>0 DEF ServerSent, ServerRead, ServerByte, DownRank, ServerMsg
    <2>2. /\ up' \in [Conns -> Seq(ClientMsg)] /\ down' \in [Conns -> Seq(ServerMsg)]
          /\ CookiesOnly'
        BY <1>0, <1>1, <2>0, CtrlTypes
    <2>3. reported' \subseteq Clients
        BY <1>c, <1>1, ServerFacts DEF ServerTypeOK
    <2>4. TypeOK'
        BY <1>1, <2>0, <2>2, <2>3, ServerFacts, ServerGoesTypes DEF ServerTypeOK, NetTypeOK
    <2>5. ServerPlace'
        BY <1>0, <1>1, <2>0, ServerFacts DEF ServerPlace
    <2>6. ASSUME NEW c \in Clients PROVE PerClient(c)'
        <3> DEFINE k == Ctrl(c)
        <3>1. ctrl # k => (c \in reported' <=> c \in reported)
            BY <1>c, <1>1
        <3>2. ASSUME ctrl = k PROVE Reported(c)'
            <4>1. Reported(c) /\ k \in Conns /\ down \in [Conns -> Seq(ServerMsg)]
                  /\ <<"results">> \in Seq(ServerMsg) /\ cpeer' = cpeer /\ cpc' = cpc
                BY <2>0, ClientFacts, OneMessage DEF clivars
            <4>2. c \in reported' /\ c \notin reported
                <5>1. c \notin reported
                    BY <2>1, <3>2, <4>1 DEF Reported
                <5> QED BY <1>1, <3>2, <5>1, CtrlConn
            <4>3. ~Has(down'[k], "DISPLAY_RESULTS")
                <5>1. ~Has(<<"results">>, "DISPLAY_RESULTS")
                    BY <2>0, OneMessage
                <5> QED BY <1>1, <3>2, <4>1, <4>2, <5>1, WrittenHas DEF Reported
            <4>4. cli[k] = "open" => Has(down'[k], "results")
                <5>1. Has(<<"results">>, "results")
                    <6>1. 1 \in 1 .. Len(<<"results">>) /\ <<"results">>[1] = "results"
                        OBVIOUS
                    <6> QED BY <6>1 DEF Has
                <5> QED BY <1>1, <3>2, <4>1, <5>1, WrittenHas
            <4>5. srv'[k] = "open"
                BY <1>1, <3>2, WaitingFacts
            <4> QED BY <2>0, <2>1, <4>1, <4>2, <4>3, <4>4, <4>5 DEF Reported
        <3>3. ServerSent(spc, sstate) < DownRank["results"] /\ Requeued
            BY <1>1, <2>0, <2>1 DEF Requeued
        <3> QED BY <1>0, <1>1, <2>0, <2>1, <3>1, <3>2, <3>3, ServerAnswersInv
    <2> QED BY <2>2, <2>4, <2>5, <2>6, InvFromParts
<1>2. CASE ServerSees(ctrl, "results") /\ FailAfter("other", Unread(up, ctrl), <<>>)
    BY <1>0, <1>r, <1>2, FailAfterInv DEF ServerSees
<1>3. CASE FailAfter("other", up, <<>>)
    BY <1>0, <1>r, <1>3, FailAfterInv
<1> QED BY <1>1, <1>2, <1>3 DEF ExchangeResults

LEMMA SendDisplayResultsInv ==
    ASSUME ControlInv, UNCHANGED clivars, SendDisplayResults
    PROVE  ControlInv'
<1>0. /\ spc = "display" /\ ctrl # NoConn /\ IsControl(ctrl) /\ ctrl \in Conns /\ acc = NoConn
      /\ sstate = "EXCHANGE_RESULTS"
    BY ServerFacts DEF SendDisplayResults, ServerPlace
<1>1. CASE /\ down' = Written(down, cli, ctrl, <<"DISPLAY_RESULTS">>)
           /\ ServerGoes("loop", "DISPLAY_RESULTS")
           /\ UNCHANGED <<srv, up, listening, backlog, ctrl, acc, smode, sopt,
                          sstreams, sworkers, reported>>
    <2>0. /\ spc' = "loop" /\ sstate' = "DISPLAY_RESULTS" /\ cli' = cli
          /\ "loop" \in ServerPc /\ "DISPLAY_RESULTS" \in ServerState
          /\ "DISPLAY_RESULTS" \in ServerMsg /\ DownRank["DISPLAY_RESULTS"] = 8
        BY <1>1 DEF ServerGoes, ServerPc, ServerState, ServerMsg, ServerByte, DownRank
    <2>1. /\ ServerSent(spc, sstate) = 7 /\ ServerRead(spc, sstate) = 4
          /\ ServerRead(spc', sstate') = 4 /\ ServerSent(spc', sstate') = 8
        BY <1>0, <2>0 DEF ServerSent, ServerRead, ServerByte, DownRank, ServerMsg
    <2>2. /\ down' \in [Conns -> Seq(ServerMsg)] /\ CookiesOnly'
          /\ \A j \in Conns : j # ctrl => down'[j] = down[j]
        BY <1>0, <1>1, <2>0, CtrlTypes, ServerFacts DEF CookiesOnly
    <2>4. TypeOK'
        BY <1>1, <2>0, <2>2, ServerFacts, ServerGoesTypes DEF ServerTypeOK, NetTypeOK
    <2>5. ServerPlace'
        BY <1>0, <1>1, <2>0, ServerFacts DEF ServerPlace
    <2>6. ASSUME NEW c \in Clients PROVE PerClient(c)'
        <3> DEFINE k == Ctrl(c)
        <3>0. k \in Conns /\ k # NoConn /\ Requeued
            BY <1>1, WaitingFacts DEF Requeued
        <3>1. CASE ctrl # k
            BY <1>0, <1>1, <2>0, <2>2, <3>0, <3>1, RequeuedInv
        <3>2. CASE ctrl = k
            <4>1. ~Waiting(k)' /\ srv'[k] = srv[k] /\ Queued(k)'
                BY <1>0, <1>1, <3>0, <3>2, WaitingFacts, RequeuedWaiting
            <4>2. /\ Ascending(UpRank, up'[k], 4, ClientSent(cpc[c], cstate[c]))
                  /\ 4 <= ClientSent(cpc[c], cstate[c])
                BY <1>1, <2>1, <3>2, ClientFacts DEF ReadBy
            <4>3. /\ Ascending(DownRank, down'[k], ClientRead(cstate[c]), 8)
                  /\ cli[k] # "open" => down'[k] = <<>>
                BY <1>1, <2>0, <2>1, <3>2, CtrlWrites
            <4>4. Reported(c)'
                <5>1. Reported(c) /\ k \in Conns /\ down \in [Conns -> Seq(ServerMsg)]
                      /\ <<"DISPLAY_RESULTS">> \in Seq(ServerMsg) /\ cpeer' = cpeer /\ cpc' = cpc
                    BY <2>0, ClientFacts, OneMessage DEF clivars
                <5>2. CASE cli[k] = "open"
                    <6>1. Has(down[k], "results") => Has(down'[k], "results")
                        BY <1>1, <3>2, <5>1, WrittenHas
                    <6>2. c \in reported /\ (cpeer[c] \/ Has(down[k], "results"))
                        BY <1>0, <3>2, <5>1, <5>2 DEF Reported
                    <6> QED BY <1>1, <2>0, <2>1, <5>1, <6>1, <6>2 DEF Reported
                <5>3. CASE cli[k] # "open"
                    <6>1. ~Has(down'[k], "DISPLAY_RESULTS")
                        BY <4>3, <5>3, HasEmpty
                    <6> QED BY <1>1, <2>0, <2>1, <5>1, <6>1 DEF Reported
                <5> QED BY <5>2, <5>3
            <4> QED BY <1>1, <2>0, <2>1, <3>2, <4>1, <4>2, <4>3, <4>4, ServedInv
        <3> QED BY <3>1, <3>2
    <2> QED BY <2>2, <2>4, <2>5, <2>6, InvFromParts
<1>2. CASE FailAfter("other", up, <<>>)
    <2>1. Consumed(up) /\ <<>> \in Refusals
        BY UpConsumed DEF Refusals
    <2> QED BY <1>0, <1>2, <2>1, FailAfterInv
<1> QED BY <1>1, <1>2 DEF SendDisplayResults

LEMMA ClientLeavesInv ==
    ASSUME ControlInv, UNCHANGED clivars, HandleClientLeaves
    PROVE  ControlInv'
<1> USE DEF HandleClientLeaves, ServerGoes, InLoop
<1>0. /\ spc = "loop" /\ ctrl # NoConn /\ IsControl(ctrl) /\ ctrl \in Conns /\ acc = NoConn
      /\ sstate \in {"CREATE_STREAMS", "TEST_RUNNING", "DISPLAY_RESULTS"}
      /\ spc' = "loop" /\ sstate' = "IPERF_DONE" /\ cli' = cli /\ down' = down
      /\ ctrl' = ctrl /\ acc' = acc /\ reported' = reported
    BY ServerFacts DEF ServerPlace
<1>1. /\ ServerRead(spc', sstate') = 5 /\ ServerSent(spc', sstate') = 8
      /\ ServerSent(spc, sstate) \in {2, 4, 8}
    BY <1>0 DEF ServerSent, ServerRead, ServerByte, DownRank, ServerMsg
<1>2. srv' \in [Conns -> End] /\ Requeued
    BY StreamsClosedFacts, ServerFacts DEF Requeued
<1>3. \/ up' = up /\ up[ctrl] = <<>> /\ cli[ctrl] = "closed"
      \/ /\ up' = Unread(up, ctrl) /\ up[ctrl] # <<>>
         /\ \E m \in {"IPERF_DONE", "CLIENT_TERMINATE"} : ServerSees(ctrl, m)
    BY DEF ServerSees, ServerSeesEof
<1>4. /\ up' \in [Conns -> Seq(ClientMsg)] /\ CookiesOnly'
      /\ \A j \in Conns : j # ctrl => up'[j] = up[j]
    <2>1. CASE up' = up
        BY <2>1, ServerFacts DEF CookiesOnly
    <2>2. CASE up' = Unread(up, ctrl) /\ up[ctrl] # <<>>
        BY <1>0, <2>2, CtrlTypes
    <2> QED BY <1>3, <2>1, <2>2
<1>5. TypeOK'
    <2>1. "loop" \in ServerPc /\ "IPERF_DONE" \in ServerState
          /\ ServerGoes("loop", "IPERF_DONE")
        BY DEF ServerPc, ServerState
    <2> QED BY <1>0, <1>2, <1>4, <2>1, ServerFacts, ServerGoesTypes DEF ServerTypeOK, NetTypeOK
<1>6. ServerPlace'
    BY <1>0, ServerFacts DEF ServerPlace
<1>7. ASSUME NEW c \in Clients PROVE PerClient(c)'
    <2> DEFINE k == Ctrl(c)
               sent == ClientSent(cpc[c], cstate[c])
    <2>0. k \in Conns /\ k # NoConn
        BY WaitingFacts
    <2>1. CASE ctrl # k
        BY <1>0, <1>2, <1>4, <2>0, <2>1, RequeuedInv
    <2>2. CASE ctrl = k
        <3>1. ~Waiting(k)' /\ srv'[k] = srv[k] /\ Queued(k)'
            BY <1>0, <1>2, <2>0, <2>2, WaitingFacts, RequeuedWaiting
        <3>2. Ascending(UpRank, up'[k], 5, sent) /\ 5 <= sent
            <4>1. CASE up' = up /\ up[ctrl] = <<>> /\ cli[ctrl] = "closed"
                <5>1. /\ cpc[c] \notin ClientAlive \cup {"gone"}
                      /\ cpc[c] \in ClientAlive \cup ClientEnded
                    BY <2>2, <4>1, ClientFacts, ServerFacts DEF ClientPlace, ClientTypeOK
                <5>2. sent = 5
                    BY <5>1 DEF ClientSent, ClientAlive, ClientEnded
                <5> QED BY <2>2, <4>1, <5>1, <5>2, AscendingEmpty
            <4>2. ASSUME NEW m \in {"IPERF_DONE", "CLIENT_TERMINATE"}, ServerSees(ctrl, m),
                         up' = Unread(up, ctrl)
                  PROVE  Ascending(UpRank, up'[k], 5, sent) /\ 5 <= sent
                <5>1. m \in ClientMsg /\ UpRank[m] = 5
                    BY DEF ClientMsg, ClientByte, UpRank
                <5> QED BY <2>2, <4>2, <5>1, CtrlReads
            <4> QED BY <1>3, <4>1, <4>2
        <3>3. /\ Ascending(DownRank, down'[k], ClientRead(cstate[c]), 8)
              /\ cli[k] # "open" => down'[k] = <<>>
            <4>1. /\ Ascending(DownRank, down[k], ClientRead(cstate[c]), ServerSent(spc, sstate))
                  /\ cli[k] # "open" => down[k] = <<>> /\ down[k] \in Seq(ServerMsg)
                BY <2>2, ClientFacts DEF SentBy, ClientPlace
            <4>2. /\ ClientRead(cstate[c]) \in Nat /\ ServerSent(spc, sstate) \in Nat /\ 8 \in Nat
                  /\ ClientRead(cstate[c]) <= ClientRead(cstate[c])
                  /\ ServerSent(spc, sstate) <= 8
                BY <1>1, HeardRanks
            <4>3. down[k] \in Seq(ServerMsg)
                BY ClientFacts
            <4> QED BY <1>0, <4>1, <4>2, <4>3, DownWiden
        <3>4. Reported(c)'
            <4>1. Reported(c) /\ cpeer' = cpeer /\ cpc' = cpc
                BY ClientFacts DEF clivars
            <4> QED BY <1>0, <1>1, <2>2, <3>1, <4>1 DEF Reported
        <3>5. ServerSent(spc, sstate) <= ServerSent(spc', sstate')
            BY <1>1
        <3> QED BY <1>0, <1>1, <2>2, <3>1, <3>2, <3>3, <3>4, <3>5, ServedInv
    <2> QED BY <2>1, <2>2
<1> QED BY <1>4, <1>5, <1>6, <1>7, InvFromParts

-----------------------------------------------------------------------------
(* The ways out of the loop that write nothing.                            *)
LEMMA LoopEndsInv ==
    ASSUME ControlInv, UNCHANGED clivars,
           HandleBadMessage \/ ServerIdle \/ ServerGivesUp \/ ServerDone
    PROVE  ControlInv'
<1>1. Consumed(up) /\ serr \in {"none", "IEAUTHTEST", "other"}
    BY UpConsumed, ServerFacts DEF ServerTypeOK
<1>2. \E rc \in {-1, 0}, err \in {"none", "IEAUTHTEST", "other"} :
          cleanup_server(rc, err, up, down)
    BY <1>1 DEF HandleBadMessage, ServerIdle, ServerGivesUp, ServerDone
<1> QED BY <1>1, <1>2, CleanupInv

LEMMA IdleRestartInv ==
    ASSUME ControlInv, UNCHANGED clivars, IdleRestart
    PROVE  ControlInv'
<1> USE DEF IdleRestart
<1>1. /\ ServerGone(up, down) /\ Consumed(up) /\ down \in [Conns -> Seq(ServerMsg)]
      /\ \A c \in Clients : Parting(c, down)
    BY UpConsumed, DownParting, ServerFacts
<1>2. /\ spc' \in {"main", "exited"} /\ sstate' \in ServerState /\ srvrc' \in {-1, 0, 2}
      /\ serr' \in {"none", "IEAUTHTEST", "other"}
      /\ UNCHANGED <<smode, sopt, sstreams, reported>>
    BY ServerFacts DEF ServerTypeOK
<1> QED BY <1>1, <1>2, ServerGoneInv

LEMMA ServerSigEndInv ==
    ASSUME ControlInv, UNCHANGED clivars, ServerSigEnd
    PROVE  ControlInv'
<1> DEFINE out == IF ctrl = NoConn THEN down
                  ELSE Written(down, cli, ctrl, <<"SERVER_TERMINATE">>)
<1>1. ServerGone(up, out) /\ Consumed(up)
    BY UpConsumed DEF ServerSigEnd
<1>2. out \in [Conns -> Seq(ServerMsg)] /\ \A c \in Clients : Parting(c, out)
    <2>1. CASE ctrl = NoConn
        BY <2>1, DownParting, ServerFacts
    <2>2. CASE ctrl # NoConn
        <3>1. /\ ctrl \in Conns /\ <<"SERVER_TERMINATE">> \in Refusals
              /\ <<"SERVER_TERMINATE">> \in Seq(ServerMsg)
              /\ down \in [Conns -> Seq(ServerMsg)]
            BY <2>2, ServerFacts, RefusalTypes DEF Refusals
        <3> DEFINE w == Written(down, cli, ctrl, <<"SERVER_TERMINATE">>)
        <3>2. w \in [Conns -> Seq(ServerMsg)]
            BY <3>1 DEF Written
        <3>3. \A c \in Clients : Parting(c, w)
            BY <3>1, RefusalParting
        <3> HIDE DEF w
        <3>4. out = w
            BY <2>2 DEF w
        <3> QED BY <3>2, <3>3, <3>4
    <2> QED BY <2>1, <2>2
<1>3. /\ spc' \in {"main", "exited"} /\ srvrc' \in {-1, 0, 2}
      /\ serr' \in {"none", "IEAUTHTEST", "other"}
      /\ UNCHANGED <<smode, sopt, sstreams, reported>>
    BY ServerFacts DEF ServerSigEnd, ServerTypeOK
<1>4. sstate' \in ServerState
    BY ServerFacts DEF ServerSigEnd, ServerTypeOK, ServerState, ServerByte
<1> HIDE DEF out
<1> QED BY <1>1, <1>2, <1>3, <1>4, ServerGoneInv

LEMMA ServerInv ==
    ASSUME ControlInv, ServerStep \/ ServerSigEnd, UNCHANGED clivars
    PROVE  ControlInv'
BY ListenInv, AcceptFreeInv, AcceptBusyInv, ReadCookieInv, ParamsRejectedInv,
   ParamsAcceptedInv, TcpAcceptInv, StreamAcceptedInv, LastStreamAcceptedInv,
   StreamDeniedInv, TestEndInv, ExchangeResultsInv, SendDisplayResultsInv,
   ClientLeavesInv, LoopEndsInv, IdleRestartInv, MainLoopInv, ServerSigEndInv
DEF ServerStep
=============================================================================
