------------------------------ MODULE OfflineProofs ------------------------------
(***************************************************************************)
(* Proofs about the parts that run alone, for every configuration of the   *)
(* generator, depth of the service benchmark, size of the files, chunked   *)
(* answer and number of days.                                              *)
(***************************************************************************)
EXTENDS Offline, StreamProofs

-------------------------------------------------------------------------------
(* What the generator emits *)

\* The furthest a level is from the mid, and the largest quantity, of a configuration.
SweepOf(c) == Most((c.band * 3) \div 4, MinSweep)

ReachOf(c) ==
  Most(c.band, IF c.profile = "FlashCrash" THEN Most(STEADY_DEPTH + 1, Most(SweepOf(c) \div 2, 1))
               ELSE STEADY_DEPTH + 1)

LargestOf(c) == Most(c.max_qty, 1)

At(c, side, off) == IF side = "Bid" THEN c.mid - off ELSE c.mid + off

\* The events a configuration can lead to.
Emitted(c) ==
  {ev \in AnyEvent :
     /\ ev.qty \in 0 .. LargestOf(c)
     /\ ev.kind = "Clear" \/ \E side \in Side, off \in 1 .. ReachOf(c) : ev.px = At(c, side, off)}

\* Where the levels of the book are, and how large.
Placed(c, b) ==
  \A side \in Side, px \in Int :
    QtyIn(b, side, px) # 0 =>
      /\ QtyIn(b, side, px) \in 1 .. LargestOf(c)
      /\ \E off \in 1 .. ReachOf(c) : px = At(c, side, off)

\* A Sim is sound: its ladder is the book of its stream, and both are as configured.
SimSound(c, s) ==
  /\ s = [ladder |-> s.ladder, out |-> s.out]
  /\ s.out \in Seq(Emitted(c)) /\ Len(s.out) <= c.events
  /\ s.ladder = Replay(s.out)
  /\ IsBook(s.ladder, Int) /\ Placed(c, s.ladder)

\* An event after a stream: a trade is at the touch of the side it takes from.
Touches(out, ev) ==
  LET taken == Replay(out)[Opposite(ev.side)] IN
    ev.kind = "Trade" =>
      /\ ev.px \in DOMAIN taken
      /\ \A p \in DOMAIN taken \ {ev.px} : Better(Opposite(ev.side), ev.px, p)

\* What out has beyond a.
AllTouch(a, out) == \A i \in Len(a) + 1 .. Len(out) : Touches(SubSeq(out, 1, i - 1), out[i])

\* The emitters go from the stream a to the Sim s.
Emits(c, a, s) == SimSound(c, s) /\ Len(a) <= Len(s.out) /\ AllTouch(a, s.out)

\* What is assumed of a configuration (synthetic.rs:37-50).
LEMMA Configured ==
  ASSUME NEW c \in Configs
  PROVE  /\ c.profile \in Profile /\ c.events \in Nat
         /\ c.mid \in Int /\ c.band \in Int /\ c.max_qty \in Int
         /\ LargestOf(c) \in Nat /\ LargestOf(c) >= 1
         /\ SweepOf(c) \in Nat /\ ReachOf(c) \in Nat
         /\ ReachOf(c) >= c.band /\ ReachOf(c) >= STEADY_DEPTH + 1
         /\ c.profile = "FlashCrash" => ReachOf(c) >= Most(SweepOf(c) \div 2, 1)
         /\ \A side \in Side : \A off \in Int : At(c, side, off) \in Int
<1>1. /\ c.profile \in Profile /\ c.events \in Nat
      /\ c.mid \in Int /\ c.band \in Int /\ c.max_qty \in Int
  BY SyntheticAssumption
<1>2. LargestOf(c) \in Nat /\ LargestOf(c) >= 1 BY <1>1 DEF LargestOf, Most
<1>3. MinSweep \in Nat /\ STEADY_DEPTH \in Nat /\ STEADY_DEPTH >= 1 BY SyntheticAssumption
<1>4. SweepOf(c) \in Nat BY <1>1, <1>3 DEF SweepOf, Most
<1>5. /\ Most(SweepOf(c) \div 2, 1) \in Nat /\ Most(SweepOf(c) \div 2, 1) >= 1
  BY <1>4 DEF Most
<1>6. /\ ReachOf(c) \in Nat
      /\ ReachOf(c) >= c.band /\ ReachOf(c) >= STEADY_DEPTH + 1
      /\ c.profile = "FlashCrash" => ReachOf(c) >= Most(SweepOf(c) \div 2, 1)
  <2> DEFINE r == Most(SweepOf(c) \div 2, 1)
  <2>1. r \in Nat BY <1>5
  <2>2. ReachOf(c) = Most(c.band, IF c.profile = "FlashCrash" THEN Most(STEADY_DEPTH + 1, r)
                                  ELSE STEADY_DEPTH + 1)
    BY DEF ReachOf
  <2> HIDE DEF r
  <2> QED BY <1>1, <1>3, <2>1, <2>2 DEF Most, r
<1>7. \A side \in Side : \A off \in Int : At(c, side, off) \in Int BY <1>1 DEF At
<1> QED BY <1>1, <1>2, <1>4, <1>6, <1>7

\* A level is there when its quantity is not zero.
LEMMA Held ==
  ASSUME NEW P, NEW b, IsBook(b, P), NEW side \in Side
  PROVE  /\ DOMAIN b[side] \subseteq P
         /\ \A px : px \in DOMAIN b[side] <=> QtyIn(b, side, px) # 0
         /\ \A px \in DOMAIN b[side] : b[side][px] = QtyIn(b, side, px)
BY DEF IsBook, IsLevels, QtyIn

\* One event more.
LEMMA TouchesOneMore ==
  ASSUME NEW S, NEW a \in Seq(S), NEW out \in Seq(S), Len(a) <= Len(out), AllTouch(a, out),
         NEW ev \in S, Touches(out, ev)
  PROVE  AllTouch(a, Append(out, ev)) /\ Len(a) <= Len(Append(out, ev))
<1> DEFINE all == Append(out, ev)
           n == Len(out)
<1>1. /\ n \in Nat /\ Len(a) \in Nat /\ Len(all) = n + 1 /\ all[n + 1] = ev
      /\ \A i \in 1 .. n : all[i] = out[i]
      /\ all \in Seq(S)
  BY AppendProperties
<1> HIDE DEF all
<1>2. \A i \in 0 .. n : SubSeq(all, 1, i) = SubSeq(out, 1, i)
  <2> TAKE i \in 0 .. n
  <2>1. SubSeq(all, 1, i) = [j \in 1 .. i |-> all[j]]
    BY <1>1
  <2>2. SubSeq(out, 1, i) = [j \in 1 .. i |-> out[j]]
    BY <1>1
  <2>3. \A j \in 1 .. i : all[j] = out[j] BY <1>1
  <2> QED BY <2>1, <2>2, <2>3
<1>3. SubSeq(out, 1, n) = out BY SubSeqFull
<1>4. ASSUME NEW i \in Len(a) + 1 .. Len(all)
      PROVE  Touches(SubSeq(all, 1, i - 1), all[i])
  <2>1. CASE i = n + 1
    <3>1. i - 1 = n /\ n \in 0 .. n BY <1>1, <2>1
    <3> QED BY <1>1, <1>2, <1>3, <2>1, <3>1
  <2>2. CASE i # n + 1
    <3>1. i \in Len(a) + 1 .. n /\ i - 1 \in 0 .. n /\ i \in 1 .. n BY <1>1, <2>2
    <3> QED BY <1>1, <1>2, <3>1 DEF AllTouch
  <2> QED BY <2>1, <2>2
<1>5. AllTouch(a, all) BY <1>4 DEF AllTouch
<1>6. Len(a) <= Len(all) BY <1>1
<1> QED BY <1>5, <1>6 DEF all

\* Where nothing was emitted, all that was is at the touch.
LEMMA NoneMore == ASSUME NEW a, Len(a) \in Nat PROVE AllTouch(a, a)
BY DEF AllTouch

-------------------------------------------------------------------------------
(* The emitters *)

\* One event emitted onto a sound Sim.
LEMMA EmitOne ==
  ASSUME NEW c \in Configs, NEW a \in Seq(Emitted(c)), NEW s, Emits(c, a, s),
         Len(s.out) < c.events,
         NEW ev \in Emitted(c), Touches(s.out, ev), NEW t,
         t = [ladder |-> t.ladder, out |-> t.out],
         t.out = Append(s.out, ev), t.ladder = Play(s.ladder, ev),
         IsBook(t.ladder, Int), Placed(c, t.ladder)
  PROVE  Emits(c, a, t)
<1>1. s.out \in Seq(Emitted(c)) /\ s.ladder = Replay(s.out) BY DEF Emits, SimSound
<1>2. t.ladder = Replay(t.out) BY <1>1, ReplayAppend
<1>3. t.out \in Seq(Emitted(c)) /\ Len(t.out) = Len(s.out) + 1 BY <1>1, AppendProperties
<1>4. c.events \in Nat /\ Len(s.out) \in Nat BY <1>1, Configured
<1>5. Len(t.out) <= c.events BY <1>3, <1>4
<1>6. AllTouch(a, t.out) /\ Len(a) <= Len(t.out) BY <1>1, TouchesOneMore DEF Emits
<1> QED BY <1>2, <1>3, <1>5, <1>6 DEF Emits, SimSound

\* A level within reach is emitted (synthetic.rs:118-134).
LEMMA LevelEmits ==
  ASSUME cfg \in Configs, NEW a \in Seq(Emitted(cfg)), NEW s, Emits(cfg, a, s),
         NEW side \in Side, NEW off \in 1 .. ReachOf(cfg), NEW qty \in 0 .. LargestOf(cfg)
  PROVE  Emits(cfg, a, Level(s, side, At(cfg, side, off), qty))
<1> DEFINE px == At(cfg, side, off)
           ev == LevelEvent(side, px, qty)
           t == Level(s, side, px, qty)
<1>1. CASE Full(s) BY <1>1 DEF Level
<1>2. CASE ~Full(s)
  <2>1. px \in Int /\ LargestOf(cfg) \in Nat /\ cfg.events \in Nat /\ Len(s.out) \in Nat
    <3>1. off \in Int BY Configured
    <3> QED BY <3>1, Configured DEF Emits, SimSound
  <2>2. /\ t = [ladder |-> [s.ladder EXCEPT ![side] = Update(@, px, qty)],
                out |-> Append(s.out, ev)]
    BY <1>2 DEF Level
  <2>3. [s.ladder EXCEPT ![side] = Update(@, px, qty)] = Play(s.ladder, ev)
    BY DEF Play, LevelEvent
  <2>4. t.ladder = Play(s.ladder, ev) /\ t.out = Append(s.out, ev)
        /\ t = [ladder |-> t.ladder, out |-> t.out]
    BY <2>2, <2>3
  <2>5. ev \in LevelsAt(Int) /\ ev \in AnyEvent /\ ev.kind = "Level" /\ ev.qty = qty
        /\ ev.px = px /\ ev.side = side
    BY <2>1 DEF LevelsAt, AnyEvent, AnyLevel, LevelEvent
  <2>6. ev \in Emitted(cfg) BY <2>5 DEF Emitted
  <2>7. Touches(s.out, ev) BY <2>5 DEF Touches
  <2>8. Len(s.out) < cfg.events BY <1>2, <2>1 DEF Full
  <2> HIDE DEF t, ev, px
  <2>9. IsBook(s.ladder, Int) /\ Placed(cfg, s.ladder) BY DEF Emits, SimSound
  <2>10. /\ IsBook(t.ladder, Int)
         /\ \A sd \in Side, p \in Int :
              QtyIn(t.ladder, sd, p) =
                IF sd = side /\ p = px THEN qty ELSE QtyIn(s.ladder, sd, p)
    BY <2>4, <2>5, <2>9, PlayLevel
  <2>11. Placed(cfg, t.ladder)
    <3>1. qty # 0 => qty \in 1 .. LargestOf(cfg) BY <2>1
    <3> QED BY <2>9, <2>10, <3>1 DEF Placed, px
  <2>12. Emits(cfg, a, t) BY <2>4, <2>6, <2>7, <2>8, <2>10, <2>11, EmitOne
  <2> QED BY <2>12 DEF t, px
<1> QED BY <1>1, <1>2

\* A level that is there is taken away.
LEMMA WipeEmits ==
  ASSUME cfg \in Configs, NEW a \in Seq(Emitted(cfg)), NEW s, Emits(cfg, a, s),
         NEW side \in Side, NEW px \in DOMAIN s.ladder[side]
  PROVE  Emits(cfg, a, Level(s, side, px, 0))
<1>1. IsBook(s.ladder, Int) /\ Placed(cfg, s.ladder) BY DEF Emits, SimSound
<1>2. px \in Int /\ QtyIn(s.ladder, side, px) # 0 BY <1>1, Held
<1>3. PICK off \in 1 .. ReachOf(cfg) : px = At(cfg, side, off) BY <1>1, <1>2 DEF Placed
<1>4. 0 \in 0 .. LargestOf(cfg) BY Configured
<1> QED BY <1>3, <1>4, LevelEmits

\* A trade at the touch is emitted (synthetic.rs:136-143).
LEMMA TradeEmits ==
  ASSUME cfg \in Configs, NEW a \in Seq(Emitted(cfg)), NEW s, Emits(cfg, a, s),
         NEW side \in Side, NEW px \in DOMAIN s.ladder[side], NEW qty \in 0 .. LargestOf(cfg),
         \A p \in DOMAIN s.ladder[side] \ {px} : Better(side, px, p)
  PROVE  /\ Emits(cfg, a, Trade(s, Opposite(side), px, qty))
         /\ Trade(s, Opposite(side), px, qty).ladder = s.ladder
<1> DEFINE ev == TradeEvent(Opposite(side), px, qty)
           t == Trade(s, Opposite(side), px, qty)
<1>1. CASE Full(s) BY <1>1 DEF Trade
<1>2. CASE ~Full(s)
  <2>1. IsBook(s.ladder, Int) /\ Placed(cfg, s.ladder) /\ s.ladder = Replay(s.out)
    BY DEF Emits, SimSound
  <2>2. px \in Int /\ QtyIn(s.ladder, side, px) # 0 BY <2>1, Held
  <2>3. PICK off \in 1 .. ReachOf(cfg) : px = At(cfg, side, off) BY <2>1, <2>2 DEF Placed
  <2>4. LargestOf(cfg) \in Nat /\ cfg.events \in Nat /\ Len(s.out) \in Nat
    BY Configured DEF Emits, SimSound
  <2>5. s = [ladder |-> s.ladder, out |-> s.out] BY DEF Emits, SimSound
  <2>6. t = [ladder |-> s.ladder, out |-> Append(s.out, ev)]
    <3>1. t = [s EXCEPT !.out = Append(@, ev)] BY <1>2 DEF Trade
    <3> HIDE DEF t, ev
    <3> QED BY <2>5, <3>1
  <2>7. Opposite(side) \in Side /\ Opposite(Opposite(side)) = side BY DEF Side, Opposite
  <2>8. /\ ev \in AnyEvent /\ ev.kind = "Trade" /\ ev.qty = qty /\ ev.px = px
        /\ ev.side = Opposite(side)
    BY <2>2, <2>4, <2>7 DEF AnyEvent, AnyTrade, TradeEvent
  <2>9. Play(s.ladder, ev) = s.ladder BY <2>8 DEF Play
  <2> HIDE DEF ev, t
  <2>10. ev \in Emitted(cfg) BY <2>3, <2>8 DEF Emitted
  <2>11. Touches(s.out, ev) BY <2>1, <2>7, <2>8 DEF Touches
  <2>12. Len(s.out) < cfg.events BY <1>2, <2>4 DEF Full
  <2>13. t.ladder = s.ladder /\ t.out = Append(s.out, ev)
         /\ t = [ladder |-> t.ladder, out |-> t.out]
    BY <2>6
  <2>14. Emits(cfg, a, t)
    BY <2>1, <2>9, <2>10, <2>11, <2>12, <2>13, EmitOne
  <2> QED BY <2>13, <2>14 DEF t
<1> QED BY <1>1, <1>2

\* A clear is emitted (synthetic.rs:145-153).
LEMMA ClearEmits ==
  ASSUME cfg \in Configs, NEW a \in Seq(Emitted(cfg)), NEW s, Emits(cfg, a, s)
  PROVE  Emits(cfg, a, Clear(s))
<1> DEFINE t == Clear(s)
<1>1. CASE Full(s) BY <1>1 DEF Clear
<1>2. CASE ~Full(s)
  <2>1. t = [ladder |-> NoLevels, out |-> Append(s.out, ClearEvent)] BY <1>2 DEF Clear
  <2>2. LargestOf(cfg) \in Nat /\ cfg.events \in Nat /\ Len(s.out) \in Nat
    BY Configured DEF Emits, SimSound
  <2>3. ClearEvent \in Emitted(cfg)
    <3>1. ClearEvent.kind = "Clear" /\ ClearEvent.qty = 0 BY DEF ClearEvent
    <3>2. 0 \in 0 .. LargestOf(cfg) BY <2>2
    <3> QED BY <3>1, <3>2 DEF Emitted, AnyEvent
  <2>4. Touches(s.out, ClearEvent) BY DEF Touches, ClearEvent
  <2>5. Play(s.ladder, ClearEvent) = NoLevels BY DEF Play, ClearEvent
  <2> HIDE DEF t
  <2>6. t.ladder = NoLevels /\ t.out = Append(s.out, ClearEvent)
        /\ t = [ladder |-> t.ladder, out |-> t.out]
    BY <2>1
  <2>7. IsBook(NoLevels, Int) /\ Placed(cfg, NoLevels) BY EmptyBook DEF Placed
  <2>8. Len(s.out) < cfg.events BY <1>2, <2>2 DEF Full
  <2> QED BY <2>3, <2>4, <2>5, <2>6, <2>7, <2>8, EmitOne DEF t
<1> QED BY <1>1, <1>2

\* The touch of a side that is not empty is the best of its prices
\* (synthetic.rs:108-114).
LEMMA TouchBest ==
  ASSUME cfg \in Configs, SimSound(cfg, sim), NEW side \in Side, Priced(side) # {}
  PROVE  /\ Touch(side) \in DOMAIN sim.ladder[side]
         /\ \A p \in DOMAIN sim.ladder[side] \ {Touch(side)} : Better(side, Touch(side), p)
<1> DEFINE D == DOMAIN sim.ladder[side]
           O == {off \in 1 .. ReachOf(cfg) : At(cfg, side, off) \in D}
<1>1. IsBook(sim.ladder, Int) /\ Placed(cfg, sim.ladder) BY DEF SimSound
<1>2. D \subseteq Int /\ D # {} /\ Priced(side) = D BY <1>1, Held DEF Priced
<1>3. \A px \in D : \E off \in 1 .. ReachOf(cfg) : px = At(cfg, side, off)
  BY <1>1, <1>2, Held DEF Placed
<1> HIDE DEF D
<1>4. O # {} /\ O \subseteq Nat
  <2>1. PICK px \in D : TRUE BY <1>2
  <2>2. PICK off \in 1 .. ReachOf(cfg) : px = At(cfg, side, off) BY <1>3, <2>1
  <2>3. off \in O BY <2>1, <2>2
  <2>4. O \subseteq Nat BY Configured
  <2> QED BY <2>3, <2>4
<1> HIDE DEF O
<1>5. PICK m \in O : \A off \in O : m <= off BY <1>4, LeastOf
<1> DEFINE t == At(cfg, side, m)
<1>6. t \in D BY <1>5 DEF O
<1>7. \A p \in D \ {t} : Better(side, t, p)
  <2> TAKE p \in D \ {t}
  <2>1. PICK off \in 1 .. ReachOf(cfg) : p = At(cfg, side, off) BY <1>3
  <2>2. off \in O BY <2>1 DEF O
  <2>3. m \in Nat /\ off \in Nat /\ m <= off /\ m # off BY <1>4, <1>5, <2>1, <2>2
  <2>4. cfg.mid \in Int BY Configured
  <2>5. m < off BY <2>3
  <2>6. CASE side = "Bid" BY <2>1, <2>3, <2>4, <2>5, <2>6 DEF At, Better
  <2>7. CASE side # "Bid" BY <2>1, <2>3, <2>4, <2>5, <2>7 DEF At, Better
  <2> QED BY <2>6, <2>7
<1> HIDE DEF t
<1>8. \E p \in D : \A q1 \in D \ {p} : Better(side, p, q1) BY <1>6, <1>7
<1>9. Touch(side) = CHOOSE p \in D : \A q1 \in D \ {p} : Better(side, p, q1)
  BY <1>2 DEF Touch
<1>10. Touch(side) \in D /\ \A p \in D \ {Touch(side)} : Better(side, Touch(side), p)
  BY <1>8, <1>9
<1> QED BY <1>10 DEF D

-------------------------------------------------------------------------------
(* The generator's steps *)

SynInv ==
  /\ cfg \in Configs
  /\ phase \in {"new", "seed", "flow", "calm", "burst", "sweep", "recover", "done"}
  /\ left \in Nat /\ k \in Nat /\ k >= 1
  /\ phase \in {"sweep", "recover"} => cfg.profile = "FlashCrash"
  /\ SimSound(cfg, sim)
  /\ phase = "done" => Len(sim.out) = cfg.events

\* A quantity drawn (synthetic.rs:166-170).
LEMMA Drawn ==
  ASSUME cfg \in Configs
  PROVE  RandQty \subseteq 1 .. LargestOf(cfg) /\ {0} \cup RandQty \subseteq 0 .. LargestOf(cfg)
<1>1. cfg.max_qty \in Int BY Configured
<1>2. RandQty \subseteq 1 .. LargestOf(cfg)
  BY <1>1 DEF RandQty, Roll, Below, LargestOf, Most
<1>3. LargestOf(cfg) \in Nat BY Configured
<1> QED BY <1>2, <1>3

\* The quantity of a seeded level: the largest, halved at most six times
\* (synthetic.rs:181-185).
LEMMA Decays ==
  ASSUME cfg \in Configs, NEW off \in Nat \ {0}
  PROVE  DecayQty(off) \in 1 .. LargestOf(cfg)
<1>1. cfg.max_qty \in Int BY Configured
<1> DEFINE e == IF off - 1 <= 6 THEN off - 1 ELSE 6
<1>2. e \in {0, 1, 2, 3, 4, 5, 6} OBVIOUS
<1>3. DecayQty(off) = Most(cfg.max_qty \div 2^e, 1)
  BY DEF DecayQty, Least
<1> HIDE DEF e
<1>4. /\ 2^0 = 1 /\ 2^1 = 2 /\ 2^2 = 4 /\ 2^3 = 8 /\ 2^4 = 16 /\ 2^5 = 32 /\ 2^6 = 64
  OBVIOUS
<1>5. CASE e = 0 BY <1>1, <1>3, <1>4, <1>5 DEF Most, LargestOf
<1>6. CASE e = 1 BY <1>1, <1>3, <1>4, <1>6 DEF Most, LargestOf
<1>7. CASE e = 2 BY <1>1, <1>3, <1>4, <1>7 DEF Most, LargestOf
<1>8. CASE e = 3 BY <1>1, <1>3, <1>4, <1>8 DEF Most, LargestOf
<1>9. CASE e = 4 BY <1>1, <1>3, <1>4, <1>9 DEF Most, LargestOf
<1>10. CASE e = 5 BY <1>1, <1>3, <1>4, <1>10 DEF Most, LargestOf
<1>11. CASE e = 6 BY <1>1, <1>3, <1>4, <1>11 DEF Most, LargestOf
<1> QED BY <1>2, <1>5, <1>6, <1>7, <1>8, <1>9, <1>10, <1>11

\* The price an offset from the mid stands for (synthetic.rs:274-279).
LEMMA PxAtIs == \A side, off : PxAt(side, off) = At(cfg, side, off)
BY DEF PxAt, At

\* Before a step nothing is emitted.
LEMMA EmitsNothing ==
  ASSUME cfg \in Configs, SimSound(cfg, sim)
  PROVE  Emits(cfg, sim.out, sim) /\ sim.out \in Seq(Emitted(cfg))
<1>1. sim.out \in Seq(Emitted(cfg)) BY DEF SimSound
<1>2. Len(sim.out) \in Nat BY <1>1
<1> QED BY <1>1, <1>2, NoneMore DEF Emits

\* A steady event (synthetic.rs:210-264).
LEMMA SteadyEmits ==
  ASSUME cfg \in Configs, SimSound(cfg, sim), SteadyEvent
  PROVE  Emits(cfg, sim.out, sim')
<1>1. Emits(cfg, sim.out, sim) /\ sim.out \in Seq(Emitted(cfg)) BY EmitsNothing
<1>2. PICK side \in Side : TryTrade(side) \/ LevelUpdate(side) \/ EdgeChurn(side)
  BY DEF SteadyEvent
<1>3. /\ ReachOf(cfg) \in Nat /\ ReachOf(cfg) >= cfg.band /\ ReachOf(cfg) >= STEADY_DEPTH + 1
      /\ STEADY_DEPTH \in Nat /\ STEADY_DEPTH >= 1 /\ cfg.band \in Int
  BY Configured, SyntheticAssumption
<1>4. CASE TryTrade(side)
  <2>1. PICK qty \in RandQty : sim' = Trade(sim, Opposite(side), Touch(side), qty)
    BY <1>4 DEF TryTrade
  <2>2. qty \in 0 .. LargestOf(cfg) BY Drawn
  <2>3. /\ Touch(side) \in DOMAIN sim.ladder[side]
        /\ \A p \in DOMAIN sim.ladder[side] \ {Touch(side)} : Better(side, Touch(side), p)
    BY <1>4, TouchBest DEF TryTrade
  <2>4. Emits(cfg, sim.out, Trade(sim, Opposite(side), Touch(side), qty))
    BY <1>1, <2>2, <2>3, TradeEmits
  <2> QED BY <2>1, <2>4
<1>5. CASE LevelUpdate(side)
  <2>1. PICK off \in GeoOffset(Least(STEADY_DEPTH, Most(cfg.band, 1))),
             qty \in {0} \cup RandQty : sim' = Level(sim, side, PxAt(side, off), qty)
    BY <1>5 DEF LevelUpdate
  <2>2. off \in 1 .. ReachOf(cfg) BY <1>3, <2>1 DEF GeoOffset, Most, Least
  <2>3. qty \in 0 .. LargestOf(cfg) BY Drawn
  <2>4. Emits(cfg, sim.out, Level(sim, side, At(cfg, side, off), qty))
    BY <1>1, <2>2, <2>3, LevelEmits
  <2> QED BY <2>1, <2>4, PxAtIs
<1>6. CASE EdgeChurn(side)
  <2>1. PICK r \in Roll(cfg.band - STEADY_DEPTH), qty \in {0} \cup RandQty :
          sim' = Level(sim, side, PxAt(side, STEADY_DEPTH + 1 + r), qty)
    BY <1>6 DEF EdgeChurn
  <2>2. STEADY_DEPTH + 1 + r \in 1 .. ReachOf(cfg) BY <1>3, <2>1 DEF Roll, Below
  <2>3. qty \in 0 .. LargestOf(cfg) BY Drawn
  <2>4. Emits(cfg, sim.out, Level(sim, side, At(cfg, side, STEADY_DEPTH + 1 + r), qty))
    BY <1>1, <2>2, <2>3, LevelEmits
  <2> QED BY <2>1, <2>4, PxAtIs
<1> QED BY <1>2, <1>4, <1>5, <1>6

\* The seeds (synthetic.rs:197-205).
LEMMA SeedEmits ==
  ASSUME SynInv, SeedPair
  PROVE  Emits(cfg, sim.out, sim')
<1> DEFINE bid == Level(sim, "Bid", At(cfg, "Bid", k), DecayQty(k))
<1>1. Emits(cfg, sim.out, sim) /\ sim.out \in Seq(Emitted(cfg)) /\ cfg \in Configs
  BY EmitsNothing DEF SynInv
<1>2. k \in 1 .. ReachOf(cfg)
  <2>1. ReachOf(cfg) \in Nat /\ ReachOf(cfg) >= cfg.band /\ cfg.band \in Int BY <1>1, Configured
  <2> QED BY <2>1 DEF SynInv, SeedPair
<1>3. DecayQty(k) \in 0 .. LargestOf(cfg)
  <2>1. DecayQty(k) \in 1 .. LargestOf(cfg) BY <1>1, Decays DEF SynInv
  <2> QED BY <2>1
<1>4. "Bid" \in Side /\ "Ask" \in Side BY DEF Side
<1>5. Emits(cfg, sim.out, bid) BY <1>1, <1>2, <1>3, <1>4, LevelEmits
<1> HIDE DEF bid
<1>6. Emits(cfg, sim.out, Level(bid, "Ask", At(cfg, "Ask", k), DecayQty(k)))
  BY <1>1, <1>2, <1>3, <1>4, <1>5, LevelEmits
<1>7. At(cfg, "Bid", k) = cfg.mid - k /\ At(cfg, "Ask", k) = cfg.mid + k BY DEF At
<1>8. sim' = Level(bid, "Ask", At(cfg, "Ask", k), DecayQty(k)) BY <1>7 DEF SeedPair, bid
<1> QED BY <1>6, <1>8

\* A level of the cascade (synthetic.rs:319-330).
LEMMA SweepEmits ==
  ASSUME cfg \in Configs, SimSound(cfg, sim), Priced("Bid") # {}, TakeBest
  PROVE  Emits(cfg, sim.out, sim')
<1> DEFINE bb == Touch("Bid")
           qty == sim.ladder["Bid"][bb]
           s == Trade(sim, Opposite("Bid"), bb, qty)
<1>1. Emits(cfg, sim.out, sim) /\ sim.out \in Seq(Emitted(cfg)) BY EmitsNothing
<1>2. "Bid" \in Side /\ Opposite("Bid") = "Ask" BY DEF Side, Opposite
<1>3. /\ bb \in DOMAIN sim.ladder["Bid"]
      /\ \A p \in DOMAIN sim.ladder["Bid"] \ {bb} : Better("Bid", bb, p)
  BY <1>2, TouchBest
<1>4. sim' = Level(s, "Bid", bb, 0) BY <1>2 DEF TakeBest
<1> HIDE DEF bb
<1>5. qty \in 0 .. LargestOf(cfg)
  <2>1. IsBook(sim.ladder, Int) /\ Placed(cfg, sim.ladder) BY DEF SimSound
  <2>2. QtyIn(sim.ladder, "Bid", bb) # 0 /\ bb \in Int /\ qty = QtyIn(sim.ladder, "Bid", bb)
    BY <1>2, <1>3, <2>1, Held
  <2>3. qty \in 1 .. LargestOf(cfg) BY <1>2, <2>1, <2>2 DEF Placed
  <2> QED BY <2>3
<1> HIDE DEF qty
<1>6. Emits(cfg, sim.out, s) /\ s.ladder = sim.ladder
  BY <1>1, <1>2, <1>3, <1>5, TradeEmits
<1> HIDE DEF s
<1>7. Emits(cfg, sim.out, Level(s, "Bid", bb, 0)) BY <1>1, <1>2, <1>3, <1>6, WipeEmits
<1> QED BY <1>4, <1>7

\* A level of the recovery (synthetic.rs:335-343).
LEMMA RecoverEmits ==
  ASSUME SynInv, Recover
  PROVE  Emits(cfg, sim.out, sim')
<1>1. Emits(cfg, sim.out, sim) /\ sim.out \in Seq(Emitted(cfg)) /\ cfg \in Configs
  BY EmitsNothing DEF SynInv
<1>2. PICK qty \in RandQty : sim' = Level(sim, "Bid", cfg.mid - k, qty) BY DEF Recover
<1>3. qty \in 0 .. LargestOf(cfg) BY <1>1, Drawn
<1>4. k \in 1 .. ReachOf(cfg)
  <2>1. RecoverLength = Most(SweepOf(cfg) \div 2, 1)
    BY DEF RecoverLength, SweepLength, SweepOf
  <2>2. ReachOf(cfg) \in Nat /\ ReachOf(cfg) >= RecoverLength
    BY <1>1, <2>1, Configured DEF SynInv, Recover
  <2>3. RecoverLength \in Int
    <3>1. SweepOf(cfg) \in Nat BY <1>1, Configured
    <3> QED BY <2>1, <3>1 DEF Most
  <2> QED BY <2>2, <2>3 DEF SynInv, Recover
<1>5. "Bid" \in Side /\ At(cfg, "Bid", k) = cfg.mid - k BY DEF Side, At
<1>6. Emits(cfg, sim.out, Level(sim, "Bid", At(cfg, "Bid", k), qty))
  BY <1>1, <1>3, <1>4, <1>5, LevelEmits
<1> QED BY <1>2, <1>5, <1>6

\* The invariant begins true.
LEMMA SynStarts == ASSUME GenInit PROVE SynInv
<1>1. cfg \in Configs /\ sim = [ladder |-> NoLevels, out |-> <<>>] /\ phase = "new"
      /\ left = 0 /\ k = 1
  BY DEF GenInit, SimInit
<1>2. sim.out = <<>> /\ sim.ladder = NoLevels /\ <<>> \in Seq(Emitted(cfg)) /\ Len(<<>>) = 0
  BY <1>1
<1>3. Replay(<<>>) = NoLevels
  <2>1. PICK f : Runs(f, <<>>, Len(<<>>)) /\ Replay(<<>>) = f[Len(<<>>)] BY <1>2, ReplayRuns
  <2> QED BY <1>2, <2>1 DEF Runs
<1>4. IsBook(NoLevels, Int) /\ Placed(cfg, NoLevels) BY EmptyBook DEF Placed
<1>5. cfg.events \in Nat BY <1>1, Configured
<1>6. sim = [ladder |-> sim.ladder, out |-> sim.out] BY <1>1
<1>7. SimSound(cfg, sim) BY <1>2, <1>3, <1>4, <1>5, <1>6 DEF SimSound
<1> QED BY <1>1, <1>7 DEF SynInv

\* A step of the generator emits, and keeps the invariant (synthetic.rs:54-71).
LEMMA SynSteps ==
  ASSUME SynInv, GenNext
  PROVE  SynInv' /\ AllTouch(sim.out, sim'.out)
<1>1. cfg \in Configs /\ cfg' = cfg /\ SimSound(cfg, sim)
  BY DEF SynInv, GenNext, Begin, SeedPair, Seeded, Steady, Calm, Stretch, StretchEnds, Sweep,
         SweepEnds, Recover, RecoverEnds, Finish
<1>2. Emits(cfg, sim.out, sim')
  <2>1. CASE UNCHANGED sim
    <3>1. Emits(cfg, sim.out, sim) BY <1>1, EmitsNothing
    <3> QED BY <2>1, <3>1
  <2>2. CASE Begin
    <3>1. Emits(cfg, sim.out, Clear(sim)) BY <1>1, EmitsNothing, ClearEmits
    <3> QED BY <2>2, <3>1 DEF Begin
  <2>3. CASE SeedPair BY <2>3, SeedEmits
  <2>4. CASE Steady \/ Stretch BY <1>1, <2>4, SteadyEmits DEF Steady, Stretch
  <2>5. CASE Sweep BY <1>1, <2>5, SweepEmits DEF Sweep
  <2>6. CASE Recover BY <2>6, RecoverEmits
  <2>7. Seeded \/ Calm \/ StretchEnds \/ SweepEnds \/ RecoverEnds \/ Finish => UNCHANGED sim
    BY DEF Seeded, Calm, StretchEnds, SweepEnds, RecoverEnds, Finish
  <2> QED BY <2>1, <2>2, <2>3, <2>4, <2>5, <2>6, <2>7 DEF GenNext
<1>3. SimSound(cfg, sim') /\ AllTouch(sim.out, sim'.out) BY <1>2 DEF Emits
<1>4. SimSound(cfg, sim)' BY <1>1, <1>3
<1>5. left' \in Nat /\ k' \in Nat /\ k' >= 1
  <2>1. SweepOf(cfg) \in Nat /\ SweepLength = SweepOf(cfg)
    BY <1>1, Configured DEF SweepLength, SweepOf
  <2>2. BurstCalm \cup BurstLength \cup CrashCalm \subseteq Nat BY SyntheticAssumption
  <2>3. left \in Nat /\ k \in Nat /\ k >= 1 BY DEF SynInv
  <2>4. CASE Calm \/ StretchEnds BY <2>1, <2>2, <2>3, <2>4 DEF Calm, StretchEnds
  <2>5. CASE Begin \/ SeedPair \/ Seeded \/ Steady
    BY <2>3, <2>5 DEF Begin, SeedPair, Seeded, Steady
  <2>6. CASE Stretch \/ Sweep BY <2>3, <2>6 DEF Stretch, Sweep
  <2>7. CASE SweepEnds \/ Recover \/ RecoverEnds \/ Finish
    BY <2>3, <2>7 DEF SweepEnds, Recover, RecoverEnds, Finish
  <2> QED BY <2>4, <2>5, <2>6, <2>7 DEF GenNext
<1>6. /\ phase' \in {"new", "seed", "flow", "calm", "burst", "sweep", "recover", "done"}
      /\ phase' \in {"sweep", "recover"} => cfg'.profile = "FlashCrash"
  BY <1>1 DEF SynInv, GenNext, Begin, SeedPair, Seeded, Steady, Calm, Stretch, StretchEnds, Sweep,
         SweepEnds, Recover, RecoverEnds, Finish
<1>7. phase' = "done" => Len(sim'.out) = cfg'.events
  <2>1. phase' = "done" => Finish
    BY DEF SynInv, GenNext, Begin, SeedPair, Seeded, Steady, Calm, Stretch, StretchEnds, Sweep,
         SweepEnds, Recover, RecoverEnds, Finish
  <2>2. Finish => Len(sim.out) >= cfg.events /\ sim' = sim BY DEF Finish, Full
  <2>3. cfg.events \in Nat /\ Len(sim.out) \in Nat /\ Len(sim.out) <= cfg.events
    BY <1>1, Configured DEF SimSound
  <2> QED BY <1>1, <2>1, <2>2, <2>3
<1> QED BY <1>1, <1>3, <1>4, <1>5, <1>6, <1>7 DEF SynInv

\* The stream as it stands is a whole account of the book (synthetic.rs:54-55, 73-74).
LEMMA SoundStream == ASSUME SynInv PROVE StreamIsLadder
BY DEF SynInv, SimSound, StreamIsLadder, ExactCount, LadderIsReplay

\* Bids are below the mid and asks above it, in a wide band none further than the band
\* (synthetic.rs:45, 193, 241-264).
LEMMA SoundPrices == ASSUME SynInv PROVE PricesInPlace
<1>1. cfg \in Configs /\ SimSound(cfg, sim) BY DEF SynInv
<1>2. IsBook(sim.ladder, Int) /\ Placed(cfg, sim.ladder) /\ sim.ladder = Replay(sim.out)
  BY <1>1 DEF SimSound
<1>3. \A side \in Side : \A px \in DOMAIN sim.ladder[side] :
        \E off \in 1 .. ReachOf(cfg) : px = At(cfg, side, off)
  BY <1>2, Held DEF Placed
<1>4. cfg.mid \in Int /\ ReachOf(cfg) \in Nat BY <1>1, Configured
<1>5. NeverCrossed
  <2>1. SUFFICES ASSUME NEW bid \in DOMAIN sim.ladder["Bid"],
                        NEW ask \in DOMAIN sim.ladder["Ask"]
                 PROVE  bid < ask
    BY <1>2 DEF NeverCrossed
  <2>2. PICK o \in 1 .. ReachOf(cfg) : bid = At(cfg, "Bid", o) BY <1>3 DEF Side
  <2>3. PICK p \in 1 .. ReachOf(cfg) : ask = At(cfg, "Ask", p) BY <1>3 DEF Side
  <2> QED BY <1>4, <2>2, <2>3 DEF At
<1>6. StaysInBand
  <2>1. SUFFICES ASSUME WideBand PROVE ReachOf(cfg) = cfg.band
    BY <1>3, PxAtIs DEF StaysInBand, Priced
  <2>2. cfg.band \in Int /\ STEADY_DEPTH \in Nat BY <1>1, Configured, SyntheticAssumption
  <2>3. RecoverLength = Most(SweepOf(cfg) \div 2, 1) /\ RecoverLength \in Int
    <3>1. RecoverLength = Most(SweepOf(cfg) \div 2, 1)
      BY DEF RecoverLength, SweepLength, SweepOf
    <3>2. SweepOf(cfg) \in Nat BY <1>1, Configured
    <3> QED BY <3>1, <3>2 DEF Most
  <2>4. cfg.band >= STEADY_DEPTH + 1 BY <2>1, <2>2 DEF WideBand
  <2>5. cfg.profile = "FlashCrash" => cfg.band >= RecoverLength BY <2>1 DEF WideBand
  <2> QED BY <2>2, <2>3, <2>4, <2>5 DEF ReachOf, Most
<1> QED BY <1>5, <1>6 DEF PricesInPlace

\* What AllTouch says of a step is what TradesAtTouch says of it.
LEMMA SoundTrades ==
  ASSUME AllTouch(sim.out, sim'.out)
  PROVE  \A i \in Len(sim.out) + 1 .. Len(sim'.out) :
           LET ev == sim'.out[i]
               taken == Replay(SubSeq(sim'.out, 1, i - 1))[Opposite(ev.side)]
           IN ev.kind = "Trade" =>
                /\ ev.px \in DOMAIN taken
                /\ \A p \in DOMAIN taken \ {ev.px} : Better(Opposite(ev.side), ev.px, p)
BY DEF AllTouch, Touches

-------------------------------------------------------------------------------
(* The files written *)

BinInv ==
  /\ stage \in {"generate", "save", "write", "describe", "describing", "written"}
  /\ phase = "done" <=> stage # "generate"
  /\ stage \in {"generate", "save"} => mdf = Encode(OldStream)
  /\ stage = "write" => \E n \in Nat : /\ n < Pieces(Encode(sim.out))
                                       /\ mdf = Prefix(Encode(sim.out), n)
  /\ stage \in {"describe", "describing", "written"} => mdf = Encode(sim.out)
  /\ stage \in {"generate", "save", "write", "describe"} => meta = OldMeta
  /\ stage = "describing" => meta = <<>>
  /\ stage = "written" => meta = <<cfg>>

\* write_corpus begins with nothing generated and the files of the run before.
LEMMA BinStarts == ASSUME BinInit PROVE SynInv /\ BinInv
BY SynStarts DEF BinInit, BinInv, GenInit

\* The stream generated is one of events.
LEMMA StreamOf == ASSUME SynInv PROVE sim.out \in Seq(AnyEvent) /\ cfg \in Configs
<1>1. Emitted(cfg) \subseteq AnyEvent BY DEF Emitted
<1> QED BY <1>1, SeqMonotonic DEF SynInv, SimSound

\* A step of write_corpus keeps both invariants (gen.rs:89-92).
LEMMA BinSteps ==
  ASSUME SynInv, BinInv, WriteCorpus
  PROVE  SynInv' /\ BinInv' /\ AllTouch(sim.out, sim'.out)
<1>1. CASE Generate
  <2>1. SynInv' /\ AllTouch(sim.out, sim'.out) BY <1>1, SynSteps DEF Generate
  <2>2. BinInv' BY <1>1 DEF BinInv, Generate
  <2> QED BY <2>1, <2>2
<1>2. UNCHANGED genVars => SynInv' /\ AllTouch(sim.out, sim'.out)
  <2>1. ASSUME UNCHANGED genVars PROVE SynInv' BY <2>1 DEF genVars, SynInv
  <2>2. Len(sim.out) \in Nat BY StreamOf
  <2>3. UNCHANGED genVars => sim' = sim BY DEF genVars
  <2> QED BY <2>1, <2>2, <2>3, NoneMore
<1> DEFINE full == Encode(sim.out)
<1>3. /\ Pieces(full) = 1 + 2 * Len(sim.out) /\ Len(sim.out) \in Nat
      /\ Prefix(full, Pieces(full)) = full
  <2>1. sim.out \in Seq(AnyEvent) BY StreamOf
  <2>2. Pieces(full) = 1 + 2 * Len(sim.out) BY <2>1, EncodedParts
  <2>3. Prefix(full, Pieces(full)) = full BY <2>1, AllPieces
  <2>4. Len(sim.out) \in Nat BY <2>1
  <2> HIDE DEF full
  <2> QED BY <2>2, <2>3, <2>4
<1>4. CASE SaveCreates
  <2>1. UNCHANGED genVars BY <1>4 DEF SaveCreates
  <2>2. mdf' = Prefix(full, 0) BY <1>4 DEF SaveCreates, Prefix
  <2>3. sim' = sim /\ phase' = phase BY <2>1 DEF genVars
  <2>4. 0 \in Nat /\ 0 < Pieces(full) BY <1>3
  <2>5. stage = "save" /\ stage' = "write" /\ meta' = meta BY <1>4 DEF SaveCreates
  <2> HIDE DEF full
  <2>6. \E n \in Nat : n < Pieces(full) /\ mdf' = Prefix(full, n) BY <2>2, <2>4
  <2>7. BinInv' BY <2>3, <2>5, <2>6 DEF BinInv, full
  <2> QED BY <1>2, <2>1, <2>7
<1>5. CASE SaveWrites
  <2>1. UNCHANGED genVars /\ stage = "write" /\ meta' = meta BY <1>5 DEF SaveWrites
  <2>2. sim' = sim /\ phase' = phase /\ cfg' = cfg BY <2>1 DEF genVars
  <2>3. PICK n \in Pieces(mdf) + mdf.rest + 1 .. Pieces(full) :
          /\ mdf' = Prefix(full, n)
          /\ stage' = IF n = Pieces(full) THEN "describe" ELSE stage
    BY <1>5 DEF SaveWrites
  <2>4. n \in Nat /\ n <= Pieces(full)
    <3>1. PICK m \in Nat : m < Pieces(full) /\ mdf = Prefix(full, m)
      BY <2>1 DEF BinInv
    <3>2. Pieces(mdf) \in Nat /\ mdf.rest \in Nat
      <4>1. CASE m = 0
        <5>1. mdf = NoBytes BY <3>1, <4>1 DEF Prefix
        <5> QED BY <5>1 DEF NoBytes, Pieces
      <4>2. CASE m # 0
        <5>1. m <= Pieces(full) BY <1>3, <3>1
        <5>2. sim.out \in Seq(AnyEvent) BY StreamOf
        <5>3. /\ mdf.rest \in {0, 1} /\ (m - 1) \div 2 \in Nat
              /\ mdf.header = <<Header(Len(sim.out) % CountMod)>>
              /\ Len(mdf.records) = (m - 1) \div 2
          BY <3>1, <4>2, <5>1, <5>2, PartParts
        <5>4. Len(mdf.header) = 1 BY <5>3
        <5> QED BY <5>3, <5>4 DEF Pieces
      <4> QED BY <4>1, <4>2
    <3> QED BY <1>3, <2>3, <3>2
  <2> HIDE DEF full
  <2>5. CASE n = Pieces(full)
    <3>1. mdf' = full /\ stage' = "describe" BY <1>3, <2>3, <2>5
    <3>2. BinInv' BY <2>1, <2>2, <3>1 DEF BinInv, full
    <3> QED BY <1>2, <2>1, <3>2
  <2>6. CASE n # Pieces(full)
    <3>1. n < Pieces(full) /\ stage' = "write" BY <1>3, <2>1, <2>3, <2>4, <2>6
    <3>2. \E x1 \in Nat : x1 < Pieces(full) /\ mdf' = Prefix(full, x1) BY <2>3, <2>4, <3>1
    <3>3. BinInv' BY <2>1, <2>2, <3>1, <3>2 DEF BinInv, full
    <3> QED BY <1>2, <2>1, <3>3
  <2> QED BY <2>5, <2>6
<1>6. CASE Describe
  <2>1. UNCHANGED genVars BY <1>6 DEF Describe
  <2>2. BinInv' BY <1>6, <2>1 DEF BinInv, Describe, genVars
  <2> QED BY <1>2, <2>1, <2>2
<1> QED BY <1>1, <1>4, <1>5, <1>6 DEF WriteCorpus

\* A price or a quantity that an i64 holds.
IsSigned(n) == n \in Int /\ -(WordMod \div 2) <= n /\ n < WordMod \div 2

\* Two's complement, and back (pack.rs:30-31, 68-69).
LEMMA WordAndBack == ASSUME NEW n \in Int, IsSigned(n) PROVE AsInt(AsWord(n)) = n
<1>1. WordMod \in Nat /\ WordMod % 2 = 0 /\ WordMod >= 2
  <2>1. 2^16 = 65536 OBVIOUS
  <2> QED BY <2>1, PackAssumption
<1>2. CASE n >= 0
  <2>1. n % WordMod = n BY <1>1, <1>2 DEF IsSigned
  <2> QED BY <1>2, <2>1 DEF AsInt, AsWord, IsSigned
<1>3. CASE n < 0
  <2>1. n % WordMod = n + WordMod BY <1>1, <1>3 DEF IsSigned
  <2>2. ~(n + WordMod < WordMod \div 2) BY <1>1, <1>3 DEF IsSigned
  <2> QED BY <1>1, <1>3, <2>1, <2>2 DEF AsInt, AsWord
<1> QED BY <1>2, <1>3

\* An event comes out of the words of a record as it went in (pack.rs:26-73).
LEMMA PackUnpack ==
  ASSUME NEW seq, NEW ts, NEW ev \in AnyEvent, IsSigned(ev.px), IsSigned(ev.qty)
  PROVE  Survives(seq, ts, ev)
<1>1. /\ ev.px \in Int /\ ev.qty \in Int /\ ev.side \in Side
      /\ ev.kind \in {"Level", "Trade", "Clear"}
      /\ ev = [kind |-> ev.kind, side |-> ev.side, px |-> ev.px, qty |-> ev.qty]
  BY DEF AnyEvent, AnyLevel, AnyTrade, LevelEvent, TradeEvent, ClearEvent, Side
<1> DEFINE sc == Code(Sides, ev.side)
           kc == Code(Kinds, ev.kind)
           w == sc + 256 * kc
           rec == <<seq, ts, AsWord(ev.px), AsWord(ev.qty), w>>
<1>2. /\ sc \in {0, 1} /\ Decodes(Sides, sc) /\ Decoded(Sides, sc) = ev.side
      /\ kc \in {0, 1, 2} /\ Decodes(Kinds, kc) /\ Decoded(Kinds, kc) = ev.kind
  BY <1>1, Codes
<1>3. 2^8 = 256 OBVIOUS
<1>4. pack(seq, ts, ev) = rec BY <1>3 DEF pack
<1> HIDE DEF sc, kc
<1>5. w % 256 = sc /\ (w \div 256) % 256 = kc
  <2>1. w \in {0, 1, 256, 257, 512, 513} BY <1>2
  <2> QED BY <1>2
<1> HIDE DEF w
<1>6. /\ rec[1] = seq /\ rec[2] = ts /\ rec[3] = AsWord(ev.px) /\ rec[4] = AsWord(ev.qty)
      /\ rec[5] = w
  OBVIOUS
<1> HIDE DEF rec
<1>7. SideByte(rec) = sc /\ KindByte(rec) = kc BY <1>3, <1>5, <1>6 DEF SideByte, KindByte
<1>8. AsInt(rec[3]) = ev.px /\ AsInt(rec[4]) = ev.qty BY <1>1, <1>6, WordAndBack
<1>9. unpack(rec) = [ok |-> TRUE, seq |-> seq, ts |-> ts,
                     event |-> [kind |-> ev.kind, side |-> ev.side,
                                px |-> ev.px, qty |-> ev.qty]]
  BY <1>2, <1>6, <1>7, <1>8 DEF unpack
<1>10. unpack(rec) = [ok |-> TRUE, seq |-> seq, ts |-> ts, event |-> ev] BY <1>1, <1>9
<1> QED BY <1>4, <1>10 DEF Survives

\* The count of a stream's bytes fits the integer that counts them, and its prices and
\* quantities are i64s, for each configuration and for the files of the earlier run.
CorporaFit ==
  RECORD_SIZE < CountMod /\ \A c \in Configs : c.events * RECORD_SIZE < CountMod

ValuesFit ==
  \A c \in Configs :
    /\ LargestOf(c) < WordMod \div 2
    /\ \A side \in Side, off \in 1 .. ReachOf(c) : IsSigned(At(c, side, off))

\* The streams there are files of fit, and their events pack.
LEMMA StreamsFit ==
  ASSUME SynInv, CorporaFit, ValuesFit
  PROVE  /\ sim.out \in Seq(AnyEvent) /\ Fits(sim.out)
         /\ OldStream \in Seq(AnyEvent) /\ Fits(OldStream)
         /\ \A i \in DOMAIN sim.out : \A seq, ts : Survives(seq, ts, sim.out[i])
         /\ \A i \in DOMAIN OldStream : \A seq, ts : Survives(seq, ts, OldStream[i])
<1>1. cfg \in Configs /\ sim.out \in Seq(AnyEvent) BY StreamOf
<1>2. RECORD_SIZE \in Nat /\ CountMod \in Nat BY CorpusAssumption
<1>3. cfg.events \in Nat /\ Len(sim.out) \in Nat /\ Len(sim.out) <= cfg.events
  BY <1>1, Configured DEF SynInv, SimSound
<1>4. Fits(sim.out)
  <2>1. CASE Len(sim.out) = cfg.events BY <1>1, <2>1 DEF Fits, CorporaFit
  <2>2. CASE Len(sim.out) # cfg.events
    <3> DEFINE n == Len(sim.out) * RECORD_SIZE
               m == cfg.events * RECORD_SIZE
    <3>1. n + RECORD_SIZE <= m BY <1>2, <1>3, <2>2, Shorter
    <3>2. m < CountMod BY <1>1 DEF CorporaFit
    <3>3. n \in Nat /\ m \in Nat BY <1>2, <1>3
    <3> HIDE DEF n, m
    <3>4. n < CountMod BY <1>2, <3>1, <3>2, <3>3
    <3> QED BY <3>4 DEF n, Fits
  <2> QED BY <2>1, <2>2
<1>5. ClearEvent \in AnyEvent /\ ClearEvent.px = 0 /\ ClearEvent.qty = 0
  BY DEF AnyEvent, ClearEvent
<1>6. OldStream = <<ClearEvent>> BY DEF OldStream
<1>7. OldStream \in Seq(AnyEvent) /\ Len(OldStream) = 1 /\ DOMAIN OldStream = {1}
      /\ OldStream[1] = ClearEvent
  <2> DEFINE e == ClearEvent
  <2>1. e \in AnyEvent /\ OldStream = <<e>> BY <1>5, <1>6
  <2> HIDE DEF e
  <2>2. OldStream \in Seq(AnyEvent) /\ Len(OldStream) = 1 /\ OldStream[1] = e BY <2>1
  <2> QED BY <2>1, <2>2 DEF e
<1>8. Fits(OldStream) BY <1>2, <1>7 DEF Fits, CorporaFit
<1>9. WordMod \in Nat /\ WordMod >= 2
  <2>1. 2^16 = 65536 OBVIOUS
  <2> QED BY <2>1, PackAssumption
<1>10. \A i \in DOMAIN OldStream : \A seq, ts : Survives(seq, ts, OldStream[i])
  <2>1. IsSigned(0) BY <1>9 DEF IsSigned
  <2>2. \A seq, ts : Survives(seq, ts, ClearEvent) BY <1>5, <2>1, PackUnpack
  <2> QED BY <1>7, <2>2
<1>11. \A i \in DOMAIN sim.out : \A seq, ts : Survives(seq, ts, sim.out[i])
  <2> SUFFICES ASSUME NEW i \in DOMAIN sim.out PROVE \A seq, ts : Survives(seq, ts, sim.out[i])
    OBVIOUS
  <2> DEFINE ev == sim.out[i]
  <2>1. ev \in Emitted(cfg)
    <3>1. sim.out \in Seq(Emitted(cfg)) BY DEF SynInv, SimSound
    <3> QED BY <3>1, ElementOfSeq
  <2> HIDE DEF ev
  <2>2. LargestOf(cfg) \in Nat BY <1>1, Configured
  <2>3. IsSigned(ev.qty) BY <1>1, <1>9, <2>1, <2>2 DEF Emitted, ValuesFit, IsSigned
  <2>4. IsSigned(ev.px)
    <3>1. CASE ev.kind = "Clear"
      <4>1. ev = ClearEvent
        BY <2>1, <3>1 DEF Emitted, AnyEvent, AnyLevel, AnyTrade, LevelEvent, TradeEvent
      <4> QED BY <1>5, <1>9, <4>1 DEF IsSigned
    <3>2. CASE ev.kind # "Clear"
      <4>1. PICK side \in Side, off \in 1 .. ReachOf(cfg) : ev.px = At(cfg, side, off)
        BY <2>1, <3>2 DEF Emitted
      <4> QED BY <1>1, <4>1 DEF ValuesFit
    <3> QED BY <3>1, <3>2
  <2>5. ev \in AnyEvent BY <2>1 DEF Emitted
  <2>6. \A seq, ts : Survives(seq, ts, ev) BY <2>3, <2>4, <2>5, PackUnpack
  <2> QED BY <2>6 DEF ev
<1> QED BY <1>1, <1>4, <1>7, <1>8, <1>10, <1>11

\* Wherever the program stopped, what loads is whole (gen.rs:89-92).
LEMMA WrittenTrue ==
  ASSUME SynInv, BinInv, CorporaFit, ValuesFit
  PROVE  WrittenTruthfully
<1>1. /\ sim.out \in Seq(AnyEvent) /\ Fits(sim.out)
      /\ OldStream \in Seq(AnyEvent) /\ Fits(OldStream)
      /\ \A i \in DOMAIN sim.out : \A seq, ts : Survives(seq, ts, sim.out[i])
      /\ \A i \in DOMAIN OldStream : \A seq, ts : Survives(seq, ts, OldStream[i])
  BY StreamsFit
<1>2. FromBytes(Encode(sim.out)).ok /\ FromBytes(Encode(sim.out)).events = sim.out
  BY <1>1, WholeLoads
<1>3. FromBytes(Encode(OldStream)).ok /\ FromBytes(Encode(OldStream)).events = OldStream
  BY <1>1, WholeLoads
<1>4. SidecarTruthful
  <2>1. ASSUME meta = <<cfg>> PROVE stage = "written"
    <3>1. cfg \in Configs BY StreamOf
    <3>2. OldMeta # <<cfg>> BY <3>1, GenBinaryAssumption DEF OldMeta
    <3>3. <<>> # <<cfg>> OBVIOUS
    <3> QED BY <2>1, <3>2, <3>3 DEF BinInv
  <2>2. stage = "written" => mdf = Encode(sim.out) /\ phase = "done" BY DEF BinInv
  <2>3. phase = "done" => Len(sim.out) = cfg.events BY DEF SynInv
  <2> QED BY <1>2, <2>1, <2>2, <2>3 DEF SidecarTruthful
<1>5. ReplaysWhole
  <2>1. SUFFICES ASSUME stage # "generate", FromBytes(mdf).ok
                 PROVE  FromBytes(mdf).events \in {OldStream, sim.out}
    BY <1>1 DEF ReplaysWhole
  <2>2. CASE stage = "save" BY <1>3, <2>2 DEF BinInv
  <2>3. CASE stage = "write"
    <3>1. PICK n \in Nat : n < Pieces(Encode(sim.out)) /\ mdf = Prefix(Encode(sim.out), n)
      BY <2>3 DEF BinInv
    <3>2. FromBytes(mdf).ok = FALSE BY <1>1, <3>1, PartRefused
    <3> QED BY <2>1, <3>2
  <2>4. CASE stage \in {"describe", "describing", "written"} BY <1>2, <2>4 DEF BinInv
  <2> QED BY <2>1, <2>2, <2>3, <2>4 DEF BinInv
<1> QED BY <1>4, <1>5 DEF WrittenTruthfully

-------------------------------------------------------------------------------
(* The service benchmark's book *)

\* Books of the same quantities are the same.
LEMMA SameBook ==
  ASSUME NEW P, NEW b, NEW c, IsBook(b, P), IsBook(c, P),
         \A side \in Side, px \in P : QtyIn(b, side, px) = QtyIn(c, side, px)
  PROVE  b = c
<1>1. ASSUME NEW side \in Side PROVE b[side] = c[side]
  <2> DEFINE m == b[side]
             o == c[side]
  <2>1. DOMAIN m \subseteq P /\ DOMAIN o \subseteq P /\ m = [p \in DOMAIN m |-> m[p]]
        /\ o = [p \in DOMAIN o |-> o[p]]
    BY DEF IsBook, IsLevels
  <2>2. \A p \in P : p \in DOMAIN m <=> p \in DOMAIN o BY Held
  <2>3. \A p \in DOMAIN m : m[p] = o[p]
    <3> TAKE p \in DOMAIN m
    <3>1. p \in P /\ p \in DOMAIN o BY <2>1, <2>2
    <3> QED BY <3>1, Held
  <2> HIDE DEF m, o
  <2>4. DOMAIN m = DOMAIN o BY <2>1, <2>2
  <2>5. m = o BY <2>1, <2>3, <2>4
  <2> QED BY <2>5 DEF m, o
<1>2. b = [side \in Side |-> b[side]] /\ c = [side \in Side |-> c[side]] BY DEF IsBook
<1>3. [side \in Side |-> b[side]] = [side \in Side |-> c[side]] BY <1>1
<1> QED BY <1>2, <1>3

\* The prices of a book of depth d, and the quantity built at each.
Rungs(d) == {<<side, Out(side, Mid, STEP * i)>> : side \in Side, i \in 1 .. d}

QtyAt(d) ==
  [key \in Rungs(d) |->
     FirstQty + (IF key[1] = "Bid" THEN Mid - key[2] ELSE key[2] - Mid) \div 2]

\* A rung of the ladder, its price and its quantity (workload.rs:38-47).
LEMMA RungIs ==
  ASSUME NEW d \in Nat, NEW side \in Side, NEW i \in 1 .. d
  PROVE  /\ Rung(side, i) \in LevelsAt(Int)
         /\ Rung(side, i).side = side /\ Rung(side, i).px = Out(side, Mid, STEP * i)
         /\ <<side, Out(side, Mid, STEP * i)>> \in Rungs(d)
         /\ Rung(side, i).qty = QtyAt(d)[<<side, Out(side, Mid, STEP * i)>>]
         /\ Rung(side, i).qty = FirstQty + i
<1>1. Mid \in Int /\ FirstQty \in Nat BY WorkloadAssumption
<1> DEFINE px == Out(side, Mid, STEP * i)
<1>2. px = IF side = "Bid" THEN Mid - 2 * i ELSE Mid + 2 * i BY DEF Out, STEP
<1>3. px \in Int BY <1>1, <1>2
<1>4. (IF side = "Bid" THEN Mid - px ELSE px - Mid) = 2 * i BY <1>1, <1>2
<1>5. (2 * i) \div 2 = i OBVIOUS
<1>6. <<side, px>> \in Rungs(d) BY DEF Rungs
<1> HIDE DEF px
<1> DEFINE key == <<side, px>>
<1>7. key[1] = side /\ key[2] = px OBVIOUS
<1>8. QtyAt(d)[key] = FirstQty + i BY <1>4, <1>5, <1>6, <1>7 DEF QtyAt
<1>9. Rung(side, i) = LevelEvent(side, px, FirstQty + i) BY DEF Rung, px
<1>10. FirstQty + i \in Int BY <1>1
<1> QED BY <1>3, <1>6, <1>8, <1>9, <1>10 DEF px, LevelsAt, AnyLevel, LevelEvent

\* An order that has each rung in it: that of side sd[j] and number at[j] at j.
IsOrder(order, d, n, sd, at) ==
  /\ order \in Seq(LevelsAt(Int)) /\ Len(order) = n
  /\ \A j \in 1 .. n : sd[j] \in Side /\ at[j] \in 1 .. d /\ order[j] = Rung(sd[j], at[j])
  /\ \A side \in Side, i \in 1 .. d : \E j \in 1 .. n : sd[j] = side /\ at[j] = i

\* It sets the rungs (workload.rs:38-46, 61-73).
LEMMA OrderSets ==
  ASSUME NEW d \in Nat, NEW n \in Nat, NEW sd, NEW at, NEW order,
         IsOrder(order, d, n, sd, at)
  PROVE  Sets(order, Rungs(d), QtyAt(d), Int)
<1> DEFINE K == Rungs(d)
           qty == QtyAt(d)
<1>1. \A side \in Side : \A i \in 1 .. d :
        /\ Rung(side, i).side = side /\ Rung(side, i).px = Out(side, Mid, STEP * i)
        /\ <<side, Out(side, Mid, STEP * i)>> \in K
        /\ Rung(side, i).qty = qty[<<side, Out(side, Mid, STEP * i)>>]
  BY RungIs
<1>2. \A key \in K : \E side \in Side, i \in 1 .. d : key = <<side, Out(side, Mid, STEP * i)>>
  BY DEF Rungs
<1> HIDE DEF K, qty
<1>3. ASSUME NEW j \in 1 .. n
      PROVE  /\ <<order[j].side, order[j].px>> \in K
             /\ order[j].qty = qty[<<order[j].side, order[j].px>>]
  <2>1. sd[j] \in Side /\ at[j] \in 1 .. d /\ order[j] = Rung(sd[j], at[j])
    BY DEF IsOrder
  <2> DEFINE ev == order[j]
             px == Out(sd[j], Mid, STEP * at[j])
  <2>2. /\ ev.side = sd[j] /\ ev.px = px
        /\ <<sd[j], px>> \in K /\ ev.qty = qty[<<sd[j], px>>]
    BY <1>1, <2>1
  <2> HIDE DEF ev, px
  <2>3. <<ev.side, ev.px>> \in K /\ ev.qty = qty[<<ev.side, ev.px>>] BY <2>2
  <2> QED BY <2>3 DEF ev
<1>4. ASSUME NEW key \in K
      PROVE  \E j \in 1 .. n : key = <<order[j].side, order[j].px>>
  <2>1. PICK side \in Side, i \in 1 .. d : key = <<side, Out(side, Mid, STEP * i)>> BY <1>2
  <2>2. PICK j \in 1 .. n : sd[j] = side /\ at[j] = i BY DEF IsOrder
  <2>3. order[j] = Rung(side, i) BY <2>2 DEF IsOrder
  <2>4. order[j].side = side /\ order[j].px = Out(side, Mid, STEP * i) BY <1>1, <2>3
  <2>5. key = <<order[j].side, order[j].px>> BY <2>1, <2>4
  <2> QED BY <2>5
<1>5. order \in Seq(LevelsAt(Int)) /\ Len(order) = n BY DEF IsOrder
<1> QED BY <1>3, <1>4, <1>5 DEF Sets, K, qty

\* Both orders set the same levels.
LEMMA BuildSets ==
  ASSUME NEW d \in Nat
  PROVE  /\ Sets(BuildOrder(d), Rungs(d), QtyAt(d), Int)
         /\ Sets(BuildFastOrder(d), Rungs(d), QtyAt(d), Int)
<1> DEFINE n == 2 * d
<1>1. n \in Nat OBVIOUS
<1>2. Sets(BuildOrder(d), Rungs(d), QtyAt(d), Int)
  <2> DEFINE sd == [j \in 1 .. n |-> IF j % 2 = 1 THEN "Bid" ELSE "Ask"]
             at == [j \in 1 .. n |-> (j + 1) \div 2]
  <2>1. sd \in [1 .. n -> Side] BY DEF Side
  <2>2. at \in [1 .. n -> 1 .. d]
    <3>1. \A j \in 1 .. n : (j + 1) \div 2 \in 1 .. d OBVIOUS
    <3> QED BY <3>1
  <2>3. ASSUME NEW side \in Side, NEW i \in 1 .. d
        PROVE  \E j \in 1 .. n : sd[j] = side /\ at[j] = i
    <3>1. CASE side = "Bid"
      <4>1. 2 * i - 1 \in 1 .. n /\ (2 * i - 1) % 2 = 1 /\ ((2 * i - 1) + 1) \div 2 = i
        OBVIOUS
      <4>2. sd[2 * i - 1] = side /\ at[2 * i - 1] = i BY <3>1, <4>1
      <4> QED BY <4>1, <4>2
    <3>2. CASE side = "Ask"
      <4>1. 2 * i \in 1 .. n /\ ~((2 * i) % 2 = 1) /\ (2 * i + 1) \div 2 = i OBVIOUS
      <4>2. sd[2 * i] = side /\ at[2 * i] = i BY <3>2, <4>1
      <4> QED BY <4>1, <4>2
    <3> QED BY <3>1, <3>2 DEF Side
  <2>4. BuildOrder(d) = [j \in 1 .. n |-> Rung(sd[j], at[j])] BY DEF BuildOrder
  <2> DEFINE order == BuildOrder(d)
             L == LevelsAt(Int)
  <2> HIDE DEF sd, at, n
  <2>5. \A j \in 1 .. n : sd[j] \in Side /\ at[j] \in 1 .. d BY <2>1, <2>2
  <2>6. \A j \in 1 .. n : Rung(sd[j], at[j]) \in L BY <2>5, RungIs
  <2> HIDE DEF L
  <2>7. /\ [j \in 1 .. n |-> Rung(sd[j], at[j])] \in Seq(L)
        /\ Len([j \in 1 .. n |-> Rung(sd[j], at[j])]) = n
        /\ \A j \in 1 .. n : [i \in 1 .. n |-> Rung(sd[i], at[i])][j] = Rung(sd[j], at[j])
    BY <1>1, <2>6
  <2>8. order \in Seq(L) /\ Len(order) = n /\ \A j \in 1 .. n : order[j] = Rung(sd[j], at[j])
    BY <2>4, <2>7
  <2> HIDE DEF order
  <2>9. IsOrder(order, d, n, sd, at) BY <2>3, <2>5, <2>8 DEF IsOrder, L
  <2>10. Sets(order, Rungs(d), QtyAt(d), Int) BY <1>1, <2>9, OrderSets
  <2> QED BY <2>10 DEF order
<1>3. Sets(BuildFastOrder(d), Rungs(d), QtyAt(d), Int)
  <2> DEFINE sd == [j \in 1 .. n |-> IF j <= d THEN "Bid" ELSE "Ask"]
             at == [j \in 1 .. n |-> IF j <= d THEN d + 1 - j ELSE j - d]
  <2>1. sd \in [1 .. n -> Side] BY DEF Side
  <2>2. at \in [1 .. n -> 1 .. d]
    <3>1. \A j \in 1 .. n : (IF j <= d THEN d + 1 - j ELSE j - d) \in 1 .. d OBVIOUS
    <3> QED BY <3>1
  <2>3. ASSUME NEW side \in Side, NEW i \in 1 .. d
        PROVE  \E j \in 1 .. n : sd[j] = side /\ at[j] = i
    <3>1. CASE side = "Bid"
      <4>1. d + 1 - i \in 1 .. n /\ d + 1 - i <= d /\ d + 1 - (d + 1 - i) = i OBVIOUS
      <4>2. sd[d + 1 - i] = side /\ at[d + 1 - i] = i BY <3>1, <4>1
      <4> QED BY <4>1, <4>2
    <3>2. CASE side = "Ask"
      <4>1. d + i \in 1 .. n /\ ~(d + i <= d) /\ (d + i) - d = i OBVIOUS
      <4>2. sd[d + i] = side /\ at[d + i] = i BY <3>2, <4>1
      <4> QED BY <4>1, <4>2
    <3> QED BY <3>1, <3>2 DEF Side
  <2>4. BuildFastOrder(d) = [j \in 1 .. n |-> Rung(sd[j], at[j])] BY DEF BuildFastOrder
  <2> DEFINE order == BuildFastOrder(d)
             L == LevelsAt(Int)
  <2> HIDE DEF sd, at, n
  <2>5. \A j \in 1 .. n : sd[j] \in Side /\ at[j] \in 1 .. d BY <2>1, <2>2
  <2>6. \A j \in 1 .. n : Rung(sd[j], at[j]) \in L BY <2>5, RungIs
  <2> HIDE DEF L
  <2>7. /\ [j \in 1 .. n |-> Rung(sd[j], at[j])] \in Seq(L)
        /\ Len([j \in 1 .. n |-> Rung(sd[j], at[j])]) = n
        /\ \A j \in 1 .. n : [i \in 1 .. n |-> Rung(sd[i], at[i])][j] = Rung(sd[j], at[j])
    BY <1>1, <2>6
  <2>8. order \in Seq(L) /\ Len(order) = n /\ \A j \in 1 .. n : order[j] = Rung(sd[j], at[j])
    BY <2>4, <2>7
  <2> HIDE DEF order
  <2>9. IsOrder(order, d, n, sd, at) BY <2>3, <2>5, <2>8 DEF IsOrder, L
  <2>10. Sets(order, Rungs(d), QtyAt(d), Int) BY <1>1, <2>9, OrderSets
  <2> QED BY <2>10 DEF order
<1> QED BY <1>2, <1>3

\* The book that is built, whichever way (workload.rs:52-53).
LEMMA BuiltBook ==
  ASSUME NEW d \in Nat
  PROVE  /\ IsBook(Replay(BuildOrder(d)), Int)
         /\ \A side \in Side, px \in Int :
              QtyIn(Replay(BuildOrder(d)), side, px) # 0 <=> <<side, px>> \in Rungs(d)
         /\ Replay(BuildOrder(d)) = Replay(BuildFastOrder(d))
<1> DEFINE none == <<>>
           slow == Replay(BuildOrder(d))
           fast == Replay(BuildFastOrder(d))
<1>1. none \in Seq(Int) /\ Len(none) = 0 OBVIOUS
<1>2. \A more \in Seq(LevelsAt(Int)) : none \o more = more BY ConcatEmptySeq
<1> HIDE DEF none
<1>3. Replay(none) = NoLevels
  <2>1. PICK f : Runs(f, none, Len(none)) /\ Replay(none) = f[Len(none)] BY <1>1, ReplayRuns
  <2> QED BY <1>1, <2>1 DEF Runs
<1>4. IsBook(NoLevels, Int) /\ \A side \in Side, px \in Int : QtyIn(NoLevels, side, px) = 0
  BY EmptyBook
<1>5. /\ Sets(BuildOrder(d), Rungs(d), QtyAt(d), Int)
      /\ Sets(BuildFastOrder(d), Rungs(d), QtyAt(d), Int)
  BY BuildSets
<1>6. ASSUME NEW more, Sets(more, Rungs(d), QtyAt(d), Int)
      PROVE  /\ IsBook(Replay(more), Int)
             /\ \A side \in Side, px \in Int :
                  QtyIn(Replay(more), side, px) =
                    IF <<side, px>> \in Rungs(d) THEN QtyAt(d)[<<side, px>>] ELSE 0
  <2> DEFINE K == Rungs(d)
             qty == QtyAt(d)
  <2> HIDE DEF K, qty
  <2>0. Sets(more, K, qty, Int) BY <1>6 DEF K, qty
  <2>1. none \o more = more BY <1>2, <1>6 DEF Sets
  <2>2. IsBook(Replay(none), Int) BY <1>3, <1>4
  <2> DEFINE I == Int
  <2>3. IsBook(Replay(none), I) /\ Sets(more, K, qty, I) BY <2>0, <2>2
  <2> HIDE DEF I
  <2> DEFINE S == Int
  <2>4. none \in Seq(S) BY <1>1
  <2> HIDE DEF S
  <2>5. IsBook(Replay(none \o more), I) BY <2>3, <2>4, ReplaySets
  <2>6. ASSUME NEW side \in Side, NEW px \in I
        PROVE  QtyIn(Replay(none \o more), side, px) =
                 IF <<side, px>> \in K THEN qty[<<side, px>>] ELSE QtyIn(Replay(none), side, px)
    BY <2>3, <2>4, ReplaySets
  <2> QED BY <1>3, <1>4, <2>1, <2>5, <2>6 DEF K, qty, I
<1>7. /\ IsBook(slow, Int)
      /\ \A side \in Side, px \in Int :
           QtyIn(slow, side, px) =
             IF <<side, px>> \in Rungs(d) THEN QtyAt(d)[<<side, px>>] ELSE 0
  BY <1>5, <1>6
<1>8. /\ IsBook(fast, Int)
      /\ \A side \in Side, px \in Int :
           QtyIn(fast, side, px) =
             IF <<side, px>> \in Rungs(d) THEN QtyAt(d)[<<side, px>>] ELSE 0
  BY <1>5, <1>6
<1> HIDE DEF slow, fast
<1>9. slow = fast
  <2>1. \A side \in Side, px \in Int : QtyIn(slow, side, px) = QtyIn(fast, side, px)
    BY <1>7, <1>8
  <2> QED BY <1>7, <1>8, <2>1, SameBook
<1>10. ASSUME NEW key \in Rungs(d) PROVE QtyAt(d)[key] # 0
  <2>1. PICK side \in Side, i \in 1 .. d : key = <<side, Out(side, Mid, STEP * i)>>
    BY DEF Rungs
  <2>2. QtyAt(d)[key] = FirstQty + i BY <2>1, RungIs
  <2> QED BY <2>2, WorkloadAssumption
<1> QED BY <1>7, <1>9, <1>10 DEF slow, fast

-------------------------------------------------------------------------------
(* The service benchmark's loops *)

\* A book of depth d with at most the gap g open.
BookWith(d, g, b) ==
  /\ IsBook(b, Int)
  /\ \A side \in Side, px \in Int :
       QtyIn(b, side, px) # 0 <=> <<side, px>> \in Rungs(d) \/ g = <<side, px>>

\* No gap is open, or one a tick inside a rung.
IsGap(d, g) ==
  g = <<>> \/ \E side \in Side, off \in TouchOffset(d) :
                g = <<side, GapPrice(TouchPrice(side, off), side)>>

SvcInv ==
  /\ cellDepth \in Depths /\ op \in Op /\ q \in {n \in 1 .. QtyMod : n % 2 = 1}
  /\ IsGap(cellDepth, gap) /\ (gap # <<>> => op \in {"insert", "remove"})
  /\ BookWith(cellDepth, gap, ladder)

\* A touch price is that of a rung; the price of a gap is a tick off every rung
\* (workload.rs:96-117).
LEMMA TouchIsRung ==
  ASSUME NEW d \in Nat, NEW side \in Side, NEW off \in TouchOffset(d)
  PROVE  /\ TouchPrice(side, off) \in Int /\ <<side, TouchPrice(side, off)>> \in Rungs(d)
         /\ GapPrice(TouchPrice(side, off), side) \in Int
         /\ <<side, GapPrice(TouchPrice(side, off), side)>> \notin Rungs(d)
<1>1. Mid \in Int /\ off \in Nat /\ off + 1 \in 1 .. d
  BY WorkloadAssumption DEF TouchOffset
<1>2. TouchPrice(side, off) = IF side = "Bid" THEN Mid - 2 * (off + 1) ELSE Mid + 2 * (off + 1)
  BY DEF TouchPrice, Out, STEP
<1> DEFINE t == TouchPrice(side, off)
           g == GapPrice(t, side)
<1>3. t \in Int BY <1>1, <1>2
<1>4. <<side, t>> \in Rungs(d) BY <1>1 DEF TouchPrice, Rungs
<1>5. g = IF side = "Bid" THEN t + 1 ELSE t - 1
  <2>1. g = IF side = "Bid" THEN t - (-1) ELSE t + (-1) BY DEF GapPrice, Out
  <2> HIDE DEF g
  <2> QED BY <1>3, <2>1
<1> HIDE DEF g, t
<1>6. ASSUME NEW i \in 1 .. d PROVE g # Out(side, Mid, STEP * i)
  <2>1. Out(side, Mid, STEP * i) = IF side = "Bid" THEN Mid - 2 * i ELSE Mid + 2 * i
    BY DEF Out, STEP
  <2> QED BY <1>1, <1>2, <1>3, <1>5, <2>1 DEF t
<1>7. <<side, g>> \notin Rungs(d)
  <2> SUFFICES ASSUME <<side, g>> \in Rungs(d) PROVE FALSE OBVIOUS
  <2>1. PICK sd \in Side, i \in 1 .. d : <<side, g>> = <<sd, Out(sd, Mid, STEP * i)>>
    BY DEF Rungs
  <2> DEFINE o == Out(sd, Mid, STEP * i)
  <2>2. <<side, g>> = <<sd, o>> BY <2>1
  <2> HIDE DEF o
  <2>3. side = sd /\ g = o BY <2>2
  <2> QED BY <1>6, <2>3 DEF o
<1>8. g \in Int BY <1>3, <1>5
<1> QED BY <1>3, <1>4, <1>7, <1>8 DEF g, t

\* The prices of a side of such a book.
RungPrices(d, side) == {Out(side, Mid, STEP * i) : i \in 1 .. d}

\* The prices a side of the book has: its rungs, and the one inserted in the gap.
LEMMA PricesOf ==
  ASSUME NEW d \in Nat, NEW g, NEW b, BookWith(d, g, b), IsGap(d, g), NEW side \in Side
  PROVE  /\ IsFiniteSet(RungPrices(d, side))
         /\ g = <<>> => DOMAIN b[side] = RungPrices(d, side)
         /\ g # <<>> => DOMAIN b[side] = IF side = g[1] THEN RungPrices(d, side) \cup {g[2]}
                                         ELSE RungPrices(d, side)
         /\ g # <<>> => g[1] \in Side /\ g[2] \in Int /\ g[2] \notin RungPrices(d, g[1])
<1> DEFINE R == RungPrices(d, side)
           D == DOMAIN b[side]
<1>1. \A px : \A sd \in Side : <<sd, px>> \in Rungs(d) <=> px \in RungPrices(d, sd)
  <2> TAKE px
  <2> TAKE sd \in Side
  <2>1. ASSUME <<sd, px>> \in Rungs(d) PROVE px \in RungPrices(d, sd)
    <3>1. PICK s \in Side, i \in 1 .. d : <<sd, px>> = <<s, Out(s, Mid, STEP * i)>>
      BY <2>1 DEF Rungs
    <3> DEFINE o == Out(s, Mid, STEP * i)
    <3>2. <<sd, px>> = <<s, o>> BY <3>1
    <3> HIDE DEF o
    <3>3. sd = s /\ px = o BY <3>2
    <3> QED BY <3>3 DEF o, RungPrices
  <2>2. ASSUME px \in RungPrices(d, sd) PROVE <<sd, px>> \in Rungs(d)
    BY <2>2 DEF RungPrices, Rungs
  <2> QED BY <2>1, <2>2
<1>2. IsFiniteSet(R)
  <2>1. IsFiniteSet(1 .. d) BY FS_Interval
  <2> DEFINE f == [i \in 1 .. d |-> Out(side, Mid, STEP * i)]
  <2>2. /\ f \in [1 .. d -> R]
        /\ \A px \in R : \E i \in 1 .. d : f[i] = px
    BY DEF RungPrices
  <2> HIDE DEF f, R
  <2>3. f \in Surjection(1 .. d, R) BY <2>2 DEF Surjection
  <2> QED BY <2>1, <2>3, FS_Surjection
<1>3. R \subseteq Int
  <2>1. \A i \in 1 .. d : Out(side, Mid, STEP * i) \in Int
    BY WorkloadAssumption DEF Out, STEP
  <2> QED BY <2>1 DEF RungPrices
<1>4. D \subseteq Int /\ \A px : px \in D <=> QtyIn(b, side, px) # 0
  BY Held DEF BookWith
<1>5. \A px \in Int : px \in D <=> px \in R \/ g = <<side, px>>
  BY <1>1, <1>4 DEF BookWith
<1>6. g # <<>> => /\ g[1] \in Side /\ g[2] \in Int /\ g[2] \notin RungPrices(d, g[1])
                  /\ g = <<g[1], g[2]>>
  <2> SUFFICES ASSUME g # <<>>
               PROVE  /\ g[1] \in Side /\ g[2] \in Int /\ g[2] \notin RungPrices(d, g[1])
                      /\ g = <<g[1], g[2]>>
    OBVIOUS
  <2>1. PICK sd \in Side, off \in TouchOffset(d) :
          g = <<sd, GapPrice(TouchPrice(sd, off), sd)>>
    BY DEF IsGap
  <2> DEFINE px == GapPrice(TouchPrice(sd, off), sd)
  <2>2. px \in Int /\ <<sd, px>> \notin Rungs(d) /\ g = <<sd, px>> BY <2>1, TouchIsRung
  <2> HIDE DEF px
  <2> QED BY <1>1, <2>2
<1> HIDE DEF R, D
<1>7. g = <<>> => D = R
  <2> SUFFICES ASSUME g = <<>> PROVE D = R OBVIOUS
  <2>1. \A px : g # <<side, px>> OBVIOUS
  <2> QED BY <1>3, <1>4, <1>5, <2>1
<1>8. g # <<>> => D = IF side = g[1] THEN R \cup {g[2]} ELSE R
  <2> SUFFICES ASSUME g # <<>> PROVE D = IF side = g[1] THEN R \cup {g[2]} ELSE R
    OBVIOUS
  <2>1. \A px : g = <<side, px>> <=> side = g[1] /\ px = g[2]
    <3> DEFINE s == g[1]
               p == g[2]
    <3>1. g = <<s, p>> BY <1>6
    <3> HIDE DEF s, p
    <3>2. \A px : <<s, p>> = <<side, px>> <=> s = side /\ p = px OBVIOUS
    <3> QED BY <3>1, <3>2 DEF s, p
  <2> QED BY <1>3, <1>4, <1>5, <1>6, <2>1
<1> QED BY <1>2, <1>6, <1>7, <1>8 DEF R, D

\* The book measured begins as it is built.
LEMMA SvcStarts == ASSUME ServiceInit PROVE SvcInv
<1>1. /\ cellDepth \in Depths /\ op \in Op /\ gap = <<>> /\ q = 1
      /\ ladder = Replay(BuildOrder(cellDepth))
  BY DEF ServiceInit
<1>2. cellDepth \in Nat BY <1>1, WorkloadAssumption
<1>3. BookWith(cellDepth, gap, ladder)
  <2>1. \A side \in Side, px \in Int : gap # <<side, px>> BY <1>1
  <2> QED BY <1>1, <1>2, <2>1, BuiltBook DEF BookWith
<1>4. q \in {n \in 1 .. QtyMod : n % 2 = 1} BY <1>1, WorkloadAssumption
<1> QED BY <1>1, <1>3, <1>4 DEF SvcInv, IsGap

\* The next quantity is odd and positive (service.rs:61-67).
LEMMA OddQty ==
  ASSUME NEW n \in Nat
  PROVE  NextQty(n) \in {x \in 1 .. QtyMod : x % 2 = 1} /\ NextQty(n) # 0 /\ NextQty(n) \in Int
<1> DEFINE masked == (n + 1) % QtyMod
<1>1. masked \in 0 .. QtyMod - 1 /\ QtyMod \in Nat BY WorkloadAssumption
<1>2. NextQty(n) = IF masked % 2 = 0 THEN masked + 1 ELSE masked BY DEF NextQty
<1> HIDE DEF masked
<1>3. masked \in Nat BY <1>1
<1> QED BY <1>1, <1>2, <1>3

\* An event at a price of the book, or at its gap, keeps the other levels.
LEMMA PassPlays ==
  ASSUME NEW d \in Nat, NEW g, NEW b, BookWith(d, g, b),
         NEW side \in Side, NEW px \in Int, NEW qty \in Int, NEW h,
         \A sd \in Side, p \in Int :
           (sd # side \/ p # px) => (<<sd, p>> \in Rungs(d) \/ h = <<sd, p>>
                                       <=> <<sd, p>> \in Rungs(d) \/ g = <<sd, p>>),
         qty # 0 <=> <<side, px>> \in Rungs(d) \/ h = <<side, px>>
  PROVE  BookWith(d, h, Play(b, LevelEvent(side, px, qty)))
<1> DEFINE ev == LevelEvent(side, px, qty)
           c == Play(b, ev)
           I == Int
<1>1. ev \in LevelsAt(I) /\ ev.side = side /\ ev.px = px /\ ev.qty = qty
  BY DEF LevelsAt, AnyLevel, LevelEvent
<1>2. IsBook(b, I) BY DEF BookWith
<1> HIDE DEF ev, I
<1>3. /\ IsBook(c, I)
      /\ \A sd \in Side, p \in I :
           QtyIn(c, sd, p) = IF sd = side /\ p = px THEN qty ELSE QtyIn(b, sd, p)
  BY <1>1, <1>2, PlayLevel
<1> HIDE DEF c
<1>4. ASSUME NEW sd \in Side, NEW p \in Int
      PROVE  QtyIn(c, sd, p) # 0 <=> <<sd, p>> \in Rungs(d) \/ h = <<sd, p>>
  <2>1. QtyIn(c, sd, p) = IF sd = side /\ p = px THEN qty ELSE QtyIn(b, sd, p)
    BY <1>3 DEF I
  <2>2. CASE sd = side /\ p = px BY <2>1, <2>2
  <2>3. CASE sd # side \/ p # px
    <3>1. QtyIn(b, sd, p) # 0 <=> <<sd, p>> \in Rungs(d) \/ g = <<sd, p>> BY DEF BookWith
    <3>2. QtyIn(c, sd, p) = QtyIn(b, sd, p) BY <2>1, <2>3
    <3> QED BY <2>3, <3>1, <3>2
  <2> QED BY <2>2, <2>3
<1>5. IsBook(c, Int) BY <1>3 DEF I
<1>6. BookWith(d, h, c) BY <1>4, <1>5 DEF BookWith
<1> QED BY <1>6 DEF c, ev

\* A step of the loops keeps the depth the cell measures at (service.rs:76-168).
LEMMA SvcSteps ==
  ASSUME SvcInv, ServiceNext
  PROVE  SvcInv' /\ cellDepth' = cellDepth /\ (gap # <<>> => gap' = <<>>)
<1>1. cellDepth \in Depths /\ cellDepth \in Nat /\ op \in Op /\ q \in Nat
  BY WorkloadAssumption DEF SvcInv
<1>2. NextQty(q) \in {n \in 1 .. QtyMod : n % 2 = 1} /\ NextQty(q) # 0 /\ NextQty(q) \in Int
  BY <1>1, OddQty
<1>3. BookWith(cellDepth, gap, ladder) /\ IsGap(cellDepth, gap) BY DEF SvcInv
<1>4. CASE MeasureUpdate
  <2>1. PICK side \in Side, off \in TouchOffset(cellDepth) :
          ladder' = Play(ladder, LevelEvent(side, TouchPrice(side, off), NextQty(q)))
    BY <1>4 DEF MeasureUpdate
  <2>2. /\ op = "update" /\ gap' = gap /\ cellDepth' = cellDepth /\ op' = op /\ q' = NextQty(q)
    BY <1>4 DEF MeasureUpdate
  <2>3. gap = <<>> BY <2>2 DEF SvcInv
  <2> DEFINE px == TouchPrice(side, off)
             qty == NextQty(q)
  <2>4. px \in Int /\ <<side, px>> \in Rungs(cellDepth) BY <1>1, TouchIsRung
  <2>5. qty # 0 /\ qty \in Int BY <1>2
  <2> HIDE DEF px, qty
  <2>6. BookWith(cellDepth, gap, Play(ladder, LevelEvent(side, px, qty)))
    BY <1>1, <1>3, <2>4, <2>5, PassPlays
  <2>7. BookWith(cellDepth, gap, ladder)' BY <2>1, <2>2, <2>6 DEF px, qty
  <2> QED BY <1>1, <1>2, <2>2, <2>3, <2>7 DEF SvcInv, IsGap
<1>5. CASE OpenGap
  <2>1. PICK side \in Side, off \in TouchOffset(cellDepth) :
          /\ gap' = <<side, GapPrice(TouchPrice(side, off), side)>>
          /\ ladder' = Play(ladder, LevelEvent(side, GapPrice(TouchPrice(side, off), side),
                                               NextQty(q)))
    BY <1>5 DEF OpenGap
  <2>2. /\ op \in {"insert", "remove"} /\ gap = <<>> /\ cellDepth' = cellDepth /\ op' = op
        /\ q' = NextQty(q)
    BY <1>5 DEF OpenGap
  <2> DEFINE px == GapPrice(TouchPrice(side, off), side)
             qty == NextQty(q)
             h == <<side, px>>
  <2>3. px \in Int BY <1>1, TouchIsRung
  <2>4. IsGap(cellDepth, h) BY DEF IsGap
  <2>5. qty # 0 /\ qty \in Int BY <1>2
  <2> HIDE DEF px, qty
  <2>6. \A sd \in Side, p \in Int : (sd # side \/ p # px) => h # <<sd, p>> /\ gap # <<sd, p>>
    BY <2>2
  <2>7. h = <<side, px>> OBVIOUS
  <2> HIDE DEF h
  <2>8. BookWith(cellDepth, h, Play(ladder, LevelEvent(side, px, qty)))
    BY <1>1, <1>3, <2>3, <2>5, <2>6, <2>7, PassPlays
  <2>9. gap' = h /\ BookWith(cellDepth, gap, ladder)' BY <2>1, <2>2, <2>8 DEF px, qty, h
  <2>10. IsGap(cellDepth, gap)' BY <2>2, <2>4, <2>9 DEF IsGap, TouchOffset, GapPrice, TouchPrice
  <2> QED BY <1>1, <1>2, <2>2, <2>9, <2>10 DEF SvcInv
<1>6. CASE CloseGap
  <2>1. /\ gap # <<>> /\ gap' = <<>> /\ cellDepth' = cellDepth /\ op' = op /\ q' = q
        /\ ladder' = Play(ladder, LevelEvent(gap[1], gap[2], 0))
    BY <1>6 DEF CloseGap
  <2>2. PICK side \in Side, off \in TouchOffset(cellDepth) :
          gap = <<side, GapPrice(TouchPrice(side, off), side)>>
    BY <1>3, <2>1 DEF IsGap
  <2> DEFINE px == GapPrice(TouchPrice(side, off), side)
  <2>3. px \in Int /\ <<side, px>> \notin Rungs(cellDepth) BY <1>1, TouchIsRung
  <2>4. gap = <<side, px>> BY <2>2
  <2> HIDE DEF px
  <2>5. gap[1] = side /\ gap[2] = px BY <2>4
  <2> DEFINE none == <<>>
  <2>6. \A sd \in Side, p \in Int : none # <<sd, p>> OBVIOUS
  <2>7. \A sd \in Side, p \in Int : (sd # side \/ p # px) => gap # <<sd, p>> BY <2>4
  <2> HIDE DEF none
  <2>8. BookWith(cellDepth, none, Play(ladder, LevelEvent(side, px, 0)))
    BY <1>1, <1>3, <2>3, <2>6, <2>7, PassPlays
  <2>9. BookWith(cellDepth, gap, ladder)' BY <2>1, <2>5, <2>8 DEF none
  <2> QED BY <1>1, <2>1, <2>9 DEF SvcInv, IsGap
<1>7. CASE MeasureTrade
  <2>1. UNCHANGED <<cellDepth, op, gap, q, ladder>> /\ op = "trade" BY <1>7 DEF MeasureTrade
  <2>2. gap = <<>> BY <2>1 DEF SvcInv
  <2> QED BY <2>1, <2>2 DEF SvcInv
<1> QED BY <1>4, <1>5, <1>6, <1>7 DEF ServiceNext

\* Between two passes the book is of the cell's depth, however it was built
\* (workload.rs:52-53, service.rs:6-12).
LEMMA HeldLadder == ASSUME SvcInv PROVE LadderHeld
<1>1. cellDepth \in Nat /\ BookWith(cellDepth, gap, ladder) /\ IsGap(cellDepth, gap)
  BY WorkloadAssumption DEF SvcInv
<1>2. BuildsAgree BY <1>1, BuiltBook DEF BuildsAgree
<1>3. ASSUME gap = <<>>, NEW side \in Side
      PROVE  DOMAIN ladder[side] = {TouchPrice(side, off) : off \in TouchOffset(cellDepth)}
  <2> DEFINE R == RungPrices(cellDepth, side)
             T == {TouchPrice(side, off) : off \in TouchOffset(cellDepth)}
  <2>1. DOMAIN ladder[side] = R BY <1>1, <1>3, PricesOf
  <2>2. ASSUME NEW off \in TouchOffset(cellDepth) PROVE TouchPrice(side, off) \in R
    <3>1. off + 1 \in 1 .. cellDepth BY <1>1 DEF TouchOffset
    <3> QED BY <3>1 DEF TouchPrice, RungPrices
  <2>3. ASSUME NEW i \in 1 .. cellDepth PROVE Out(side, Mid, STEP * i) \in T
    <3>1. i - 1 \in TouchOffset(cellDepth) /\ (i - 1) + 1 = i BY <1>1 DEF TouchOffset
    <3>2. TouchPrice(side, i - 1) = Out(side, Mid, STEP * i) BY <3>1 DEF TouchPrice
    <3>3. TouchPrice(side, i - 1) \in T BY <3>1
    <3> QED BY <3>2, <3>3
  <2>4. T \subseteq R BY <2>2
  <2>5. R \subseteq T BY <2>3 DEF RungPrices
  <2>6. R = T BY <2>4, <2>5
  <2> QED BY <2>1, <2>6
<1>4. HoldsDepth BY <1>3 DEF HoldsDepth
<1> QED BY <1>2, <1>4 DEF LadderHeld

\* A step adds a level, takes one away, or does neither, as it is named
\* (service.rs:6-13).
LEMMA NamedSteps ==
  ASSUME SvcInv, SvcInv', cellDepth' = cellDepth, gap # <<>> => gap' = <<>>
  PROVE  \A side \in Side :
           LET before == Cardinality(DOMAIN ladder[side])
               after == Cardinality(DOMAIN ladder'[side])
           IN CASE gap = <<>> /\ gap' # <<>> -> after - before = IF side = gap'[1] THEN 1 ELSE 0
                [] gap # <<>> -> before - after = IF side = gap[1] THEN 1 ELSE 0
                [] OTHER -> DOMAIN ladder'[side] = DOMAIN ladder[side]
<1> SUFFICES ASSUME NEW side \in Side
             PROVE  LET before == Cardinality(DOMAIN ladder[side])
                        after == Cardinality(DOMAIN ladder'[side])
                    IN CASE gap = <<>> /\ gap' # <<>> ->
                              after - before = IF side = gap'[1] THEN 1 ELSE 0
                         [] gap # <<>> -> before - after = IF side = gap[1] THEN 1 ELSE 0
                         [] OTHER -> DOMAIN ladder'[side] = DOMAIN ladder[side]
  OBVIOUS
<1> DEFINE R == RungPrices(cellDepth, side)
           D == DOMAIN ladder[side]
           E == DOMAIN ladder'[side]
<1>1. cellDepth \in Nat /\ BookWith(cellDepth, gap, ladder) /\ IsGap(cellDepth, gap)
  BY WorkloadAssumption DEF SvcInv
<1>2. BookWith(cellDepth, gap', ladder') /\ IsGap(cellDepth, gap')
  BY DEF SvcInv, BookWith, IsGap, TouchOffset, TouchPrice, GapPrice
<1>3. /\ IsFiniteSet(R)
      /\ gap = <<>> => D = R
      /\ gap # <<>> => D = IF side = gap[1] THEN R \cup {gap[2]} ELSE R
      /\ gap # <<>> => gap[1] \in Side /\ gap[2] \notin RungPrices(cellDepth, gap[1])
  BY <1>1, PricesOf
<1>4. /\ gap' = <<>> => E = R
      /\ gap' # <<>> => E = IF side = gap'[1] THEN R \cup {gap'[2]} ELSE R
      /\ gap' # <<>> => gap'[1] \in Side /\ gap'[2] \notin RungPrices(cellDepth, gap'[1])
  BY <1>1, <1>2, PricesOf
<1>5. Cardinality(R) \in Nat BY <1>3, FS_CardinalityType
<1>6. \A x : x \notin R => Cardinality(R \cup {x}) = Cardinality(R) + 1
  BY <1>3, FS_AddElement
<1>7. CASE gap = <<>> /\ gap' # <<>>
  <2>1. Cardinality(E) - Cardinality(D) = IF side = gap'[1] THEN 1 ELSE 0
    <3>1. CASE side = gap'[1]
      <4>1. E = R \cup {gap'[2]} /\ D = R /\ gap'[2] \notin R BY <1>3, <1>4, <1>7, <3>1
      <4> HIDE DEF R, D, E
      <4> QED BY <1>5, <1>6, <3>1, <4>1
    <3>2. CASE side # gap'[1]
      <4>1. E = R /\ D = R BY <1>3, <1>4, <1>7, <3>2
      <4> HIDE DEF R, D, E
      <4> QED BY <1>5, <3>2, <4>1
    <3> QED BY <3>1, <3>2
  <2> QED BY <1>7, <2>1
<1>8. CASE gap # <<>>
  <2>1. Cardinality(D) - Cardinality(E) = IF side = gap[1] THEN 1 ELSE 0
    <3>1. CASE side = gap[1]
      <4>1. D = R \cup {gap[2]} /\ E = R /\ gap[2] \notin R BY <1>3, <1>4, <1>8, <3>1
      <4> HIDE DEF R, D, E
      <4> QED BY <1>5, <1>6, <3>1, <4>1
    <3>2. CASE side # gap[1]
      <4>1. E = R /\ D = R BY <1>3, <1>4, <1>8, <3>2
      <4> HIDE DEF R, D, E
      <4> QED BY <1>5, <3>2, <4>1
    <3> QED BY <3>1, <3>2
  <2> QED BY <1>8, <2>1
<1>9. CASE gap = <<>> /\ gap' = <<>>
  <2>1. E = D BY <1>3, <1>4, <1>9
  <2> QED BY <1>9, <2>1
<1> QED BY <1>7, <1>8, <1>9

-------------------------------------------------------------------------------
(* Damaged corpora *)

\* A record of a file: any bytes for its side and its kind.
RawRecord == [px : Int, qty : Int, side : Byte, kind : Byte]

\* The fields a header has.
IsHeader(h) == \E magic, version, size, count :
                 /\ h = [magic |-> magic, version |-> version, record_size |-> size,
                         count |-> count]
                 /\ count \in Nat

\* What a file on disk can be.
IsFile(f) ==
  /\ f.header = <<>> \/ \E h : IsHeader(h) /\ f.header = <<h>>
  /\ f.records \in Seq(RawRecord)
  /\ f.rest \in 0 .. RECORD_SIZE - 1

\* A header is the record of its fields.
LEMMA HeaderIs ==
  ASSUME NEW h, IsHeader(h)
  PROVE  /\ h = [magic |-> h.magic, version |-> h.version, record_size |-> h.record_size,
                 count |-> h.count]
         /\ h.count \in Nat
<1>1. PICK magic, version, size, count :
        /\ h = [magic |-> magic, version |-> version, record_size |-> size, count |-> count]
        /\ count \in Nat
  BY DEF IsHeader
<1>2. h.magic = magic /\ h.version = version /\ h.record_size = size /\ h.count = count
  BY <1>1
<1> QED BY <1>1, <1>2

\* A record on disk is the record of its fields.
LEMMA RecordIs ==
  ASSUME NEW rec \in RawRecord
  PROVE  /\ rec = [px |-> rec.px, qty |-> rec.qty, side |-> rec.side, kind |-> rec.kind]
         /\ rec.side \in Int /\ rec.kind \in Int
BY DEF RawRecord, Byte

\* A byte that decodes is the code of what it decodes to (corpus.rs:89-104).
LEMMA CodesBack ==
  /\ \A b \in Int : Decodes(Sides, b) =>
       Decoded(Sides, b) \in Side /\ Code(Sides, Decoded(Sides, b)) = b
  /\ \A b \in Int : Decodes(Kinds, b) =>
       /\ Decoded(Kinds, b) \in {"Level", "Trade", "Clear"}
       /\ Code(Kinds, Decoded(Kinds, b)) = b
<1>1. DOMAIN Sides = {1, 2} /\ Sides[1] = "Bid" /\ Sides[2] = "Ask" BY DEF Sides
<1>2. /\ DOMAIN Kinds = {1, 2, 3}
      /\ Kinds[1] = "Level" /\ Kinds[2] = "Trade" /\ Kinds[3] = "Clear"
  BY DEF Kinds
<1>3. ASSUME NEW b \in Int, Decodes(Sides, b)
      PROVE  Decoded(Sides, b) \in Side /\ Code(Sides, Decoded(Sides, b)) = b
  <2>1. b + 1 \in {1, 2} BY <1>1, <1>3 DEF Decodes
  <2> DEFINE v == Sides[b + 1]
             at == CHOOSE i \in DOMAIN Sides : Sides[i] = v
  <2>2. v \in Side BY <1>1, <2>1 DEF Side
  <2>3. b + 1 \in DOMAIN Sides /\ Sides[b + 1] = v BY <1>1, <2>1
  <2> HIDE DEF v
  <2>4. at \in DOMAIN Sides /\ Sides[at] = v BY <2>3
  <2>5. Code(Sides, v) = at - 1 BY DEF Code
  <2> HIDE DEF at
  <2>6. at = b + 1 BY <1>1, <2>1, <2>3, <2>4
  <2>7. Code(Sides, v) = b BY <1>3, <2>5, <2>6
  <2> QED BY <2>2, <2>7 DEF Decoded, v
<1>4. ASSUME NEW b \in Int, Decodes(Kinds, b)
      PROVE  /\ Decoded(Kinds, b) \in {"Level", "Trade", "Clear"}
             /\ Code(Kinds, Decoded(Kinds, b)) = b
  <2>1. b + 1 \in {1, 2, 3} BY <1>2, <1>4 DEF Decodes
  <2> DEFINE v == Kinds[b + 1]
             at == CHOOSE i \in DOMAIN Kinds : Kinds[i] = v
  <2>2. v \in {"Level", "Trade", "Clear"} BY <1>2, <2>1
  <2>3. b + 1 \in DOMAIN Kinds /\ Kinds[b + 1] = v BY <1>2, <2>1
  <2> HIDE DEF v
  <2>4. at \in DOMAIN Kinds /\ Kinds[at] = v BY <2>3
  <2>5. Code(Kinds, v) = at - 1 BY DEF Code
  <2> HIDE DEF at
  <2>6. at = b + 1 BY <1>2, <2>1, <2>3, <2>4
  <2>7. Code(Kinds, v) = b BY <1>4, <2>5, <2>6
  <2> QED BY <2>2, <2>7 DEF Decoded, v
<1> QED BY <1>3, <1>4

\* A record that is accepted is the one written for the event it loads as, but for what a
\* Clear leaves out (corpus.rs:96-126).
LEMMA RecordEncodes ==
  ASSUME NEW rec \in RawRecord, ~BadRecord(rec)
  PROVE  LET ev == EventFromParts(rec)
             written == EncodeRecord(ev)
         IN IF ev.kind = "Clear" THEN written.kind = rec.kind ELSE written = rec
<1> DEFINE s == Decoded(Sides, rec.side)
           kd == Decoded(Kinds, rec.kind)
           ev == EventFromParts(rec)
<1>1. /\ rec = [px |-> rec.px, qty |-> rec.qty, side |-> rec.side, kind |-> rec.kind]
      /\ rec.side \in Int /\ rec.kind \in Int
  BY RecordIs
<1>2. /\ s \in Side /\ Code(Sides, s) = rec.side
      /\ kd \in {"Level", "Trade", "Clear"} /\ Code(Kinds, kd) = rec.kind
  BY <1>1, CodesBack DEF BadRecord
<1>3. ev = CASE kd = "Level" -> LevelEvent(s, rec.px, rec.qty)
             [] kd = "Trade" -> TradeEvent(s, rec.px, rec.qty)
             [] kd = "Clear" -> ClearEvent
  BY DEF EventFromParts
<1> HIDE DEF s, kd, ev
<1>4. ev.kind = kd
  BY <1>2, <1>3 DEF LevelEvent, TradeEvent, ClearEvent
<1>5. CASE kd = "Clear"
  <2>1. EncodeRecord(ev).kind = rec.kind BY <1>2, <1>4 DEF EncodeRecord
  <2> QED BY <1>4, <1>5, <2>1 DEF ev
<1>6. CASE kd # "Clear"
  <2>1. ev.px = rec.px /\ ev.qty = rec.qty /\ ev.side = s
    BY <1>2, <1>3, <1>6 DEF LevelEvent, TradeEvent
  <2>2. EncodeRecord(ev) = [px |-> rec.px, qty |-> rec.qty, side |-> rec.side, kind |-> rec.kind]
    BY <1>2, <1>4, <2>1 DEF EncodeRecord
  <2> QED BY <1>1, <1>4, <1>6, <2>2 DEF ev
<1> QED BY <1>5, <1>6

\* What loads of a file is what was written for the events it loads.
LEMMA LoadsWritten ==
  ASSUME NEW f, IsFile(f), FromBytes(f).ok
  PROVE  LET events == FromBytes(f).events IN
           /\ f.header = Encode(events).header
           /\ Len(events) = Len(f.records) /\ f.rest = 0
           /\ \A i \in DOMAIN events :
                LET written == EncodeRecord(events[i]) IN
                  IF events[i].kind = "Clear" THEN written.kind = f.records[i].kind
                  ELSE written = f.records[i]
<1> DEFINE h == f.header[1]
           recs == f.records
           n == Len(recs)
           events == [i \in DOMAIN recs |-> EventFromParts(recs[i])]
           none == ""
<1>1. recs \in Seq(RawRecord) /\ f.rest \in 0 .. RECORD_SIZE - 1 BY DEF IsFile
<1>2. n \in Nat /\ DOMAIN recs = 1 .. n /\ \A i \in 1 .. n : recs[i] \in RawRecord
  BY <1>1, ElementOfSeq
<1>3. /\ f.header # <<>> /\ h.magic = MAGIC /\ h.version = VERSION
      /\ h.record_size = RECORD_SIZE /\ ~BadLength(f)
      /\ ~(\E i \in DOMAIN recs : BadRecord(recs[i]))
      /\ FromBytes(f) = [ok |-> TRUE, error |-> "", events |-> events]
  <2>1. \/ FromBytes(f) \in {Refused("Truncated"), Refused("BadMagic"),
                             Refused("UnsupportedVersion"), Refused("BadRecordSize"),
                             Refused("BadDiscriminant")}
        \/ /\ f.header # <<>> /\ h.magic = MAGIC /\ h.version = VERSION
           /\ h.record_size = RECORD_SIZE /\ ~BadLength(f)
           /\ ~(\E i \in DOMAIN recs : BadRecord(recs[i]))
           /\ FromBytes(f) = [ok |-> TRUE, error |-> "", events |-> events]
    BY DEF FromBytes
  <2> QED BY <2>1, RefusedNotOk
<1>4. IsHeader(h) /\ f.header = <<h>>
  <2>1. PICK g : IsHeader(g) /\ f.header = <<g>> BY <1>3 DEF IsFile
  <2> QED BY <2>1
<1>5. /\ h = [magic |-> MAGIC, version |-> VERSION, record_size |-> RECORD_SIZE,
              count |-> h.count]
      /\ h.count \in Nat
  BY <1>3, <1>4, HeaderIs
<1>6. /\ ~(h.count * RECORD_SIZE >= CountMod)
      /\ n * RECORD_SIZE + f.rest = h.count * RECORD_SIZE
  BY <1>3 DEF BadLength
<1>7. RECORD_SIZE \in Nat /\ RECORD_SIZE >= 2 /\ CountMod \in Nat BY CorpusAssumption
<1> DEFINE c == h.count
<1>8. c = n /\ f.rest = 0
  <2> HIDE DEF h, n
  <2>1. c \in Nat BY <1>5
  <2> HIDE DEF c
  <2> DEFINE a == n * RECORD_SIZE
             b == c * RECORD_SIZE
  <2>2. a \in Nat /\ b \in Nat /\ a + f.rest = b
    BY <1>2, <1>6, <1>7, <2>1 DEF c
  <2>3. n < c => a + RECORD_SIZE <= b BY <1>2, <1>7, <2>1, Shorter
  <2>4. c < n => b + RECORD_SIZE <= a BY <1>2, <1>7, <2>1, Shorter
  <2>5. c = n => a = b OBVIOUS
  <2> HIDE DEF a, b
  <2>6. ~(n < c) /\ ~(c < n) BY <1>1, <1>7, <2>2, <2>3, <2>4
  <2>7. c = n BY <1>2, <2>1, <2>6
  <2>8. f.rest = 0 BY <1>1, <1>7, <2>2, <2>5, <2>7
  <2> QED BY <2>7, <2>8
<1>9. n % CountMod = n
  <2>1. n <= n * RECORD_SIZE
    <3>1. CASE n = 0 BY <1>7, <3>1
    <3>2. CASE n # 0
      <4> HIDE DEF n
      <4>1. 1 * n + n <= RECORD_SIZE * n BY <1>2, <1>7, Shorter
      <4>2. RECORD_SIZE * n = n * RECORD_SIZE BY <1>2, <1>7
      <4> QED BY <1>2, <1>7, <4>1, <4>2
    <3> QED BY <3>1, <3>2
  <2>2. n * RECORD_SIZE < CountMod /\ n * RECORD_SIZE \in Nat
    <3> HIDE DEF n
    <3>1. n * RECORD_SIZE \in Nat BY <1>2, <1>7
    <3>2. ~(n * RECORD_SIZE >= CountMod) BY <1>6, <1>8
    <3> QED BY <1>7, <3>1, <3>2
  <2> HIDE DEF n
  <2>3. n < CountMod BY <1>2, <1>7, <2>1, <2>2
  <2> QED BY <1>2, <1>7, <2>3
<1> HIDE DEF h, recs, n
<1>10. /\ DOMAIN events = 1 .. n /\ Len(events) = n
       /\ \A i \in 1 .. n : events[i] = EventFromParts(recs[i])
  BY <1>2
<1>11. f.header = Encode(events).header
  <2>1. Encode(events).header = <<Header(Len(events) % CountMod)>> BY DEF Encode
  <2>2. Header(n) = h BY <1>5, <1>8 DEF Header, c
  <2> HIDE DEF events
  <2> QED BY <1>4, <1>9, <1>10, <2>1, <2>2
<1>12. ASSUME NEW i \in DOMAIN events
       PROVE  LET written == EncodeRecord(events[i]) IN
                IF events[i].kind = "Clear" THEN written.kind = recs[i].kind
                ELSE written = recs[i]
  <2>1. recs[i] \in RawRecord /\ ~BadRecord(recs[i]) /\ events[i] = EventFromParts(recs[i])
    BY <1>2, <1>3, <1>10
  <2> HIDE DEF events
  <2> QED BY <2>1, RecordEncodes
<1> DEFINE loaded == events
<1>13. FromBytes(f) = [ok |-> TRUE, error |-> none, events |-> loaded] BY <1>3
<1>14. /\ f.header = Encode(loaded).header
       /\ Len(loaded) = n
       /\ \A i \in DOMAIN loaded :
            LET written == EncodeRecord(loaded[i]) IN
              IF loaded[i].kind = "Clear" THEN written.kind = recs[i].kind
              ELSE written = recs[i]
  BY <1>10, <1>11, <1>12
<1> HIDE DEF loaded, none
<1>15. FromBytes(f).events = loaded BY <1>13
<1> QED BY <1>8, <1>14, <1>15 DEF n, recs

\* A header with one of its fields another is a header still.
LEMMA HeaderChanged ==
  ASSUME NEW count \in Nat
  PROVE  LET h == Header(count) IN
           /\ IsHeader(h)
           /\ IsHeader([h EXCEPT !.magic = "other"])
           /\ \A byte : IsHeader([h EXCEPT !.version = byte])
           /\ \A byte : IsHeader([h EXCEPT !.record_size = byte])
           /\ \A n \in Nat : IsHeader([h EXCEPT !.count = n])
<1> DEFINE h == Header(count)
<1>1. h = [magic |-> MAGIC, version |-> VERSION, record_size |-> RECORD_SIZE, count |-> count]
  BY DEF Header
<1>2. IsHeader(h) BY <1>1 DEF IsHeader
<1>3. IsHeader([h EXCEPT !.magic = "other"])
  <2>1. [h EXCEPT !.magic = "other"]
          = [magic |-> "other", version |-> VERSION, record_size |-> RECORD_SIZE,
             count |-> count]
    BY <1>1
  <2> QED BY <2>1 DEF IsHeader
<1>4. ASSUME NEW byte PROVE IsHeader([h EXCEPT !.version = byte])
  <2>1. [h EXCEPT !.version = byte]
          = [magic |-> MAGIC, version |-> byte, record_size |-> RECORD_SIZE, count |-> count]
    BY <1>1
  <2> QED BY <2>1 DEF IsHeader
<1>5. ASSUME NEW byte PROVE IsHeader([h EXCEPT !.record_size = byte])
  <2>1. [h EXCEPT !.record_size = byte]
          = [magic |-> MAGIC, version |-> VERSION, record_size |-> byte, count |-> count]
    BY <1>1
  <2> QED BY <2>1 DEF IsHeader
<1>6. ASSUME NEW n \in Nat PROVE IsHeader([h EXCEPT !.count = n])
  <2>1. [h EXCEPT !.count = n]
          = [magic |-> MAGIC, version |-> VERSION, record_size |-> RECORD_SIZE, count |-> n]
    BY <1>1
  <2> QED BY <2>1 DEF IsHeader
<1> QED BY <1>2, <1>3, <1>4, <1>5, <1>6

\* What is written of an event is a record, its codes a byte each.
LEMMA RawOf ==
  ASSUME NEW ev \in AnyEvent
  PROVE  EncodeRecord(ev) \in RawRecord
<1>1. /\ ev.px \in Int /\ ev.qty \in Int /\ ev.side \in Side
      /\ ev.kind \in {"Level", "Trade", "Clear"}
  BY DEF AnyEvent, AnyLevel, AnyTrade, LevelEvent, TradeEvent, ClearEvent, Side
<1>2. Code(Sides, ev.side) \in Byte BY <1>1, Codes DEF Byte
<1>3. Code(Kinds, ev.kind) \in Byte BY <1>1, Codes DEF Byte
<1> QED BY <1>1, <1>2, <1>3 DEF EncodeRecord, RawRecord

\* A damaged corpus is a file still, whichever of its fields was changed.
LEMMA DamagedIs ==
  ASSUME NEW evs \in Seq(AnyEvent), NEW f \in Damaged(Encode(evs))
  PROVE  IsFile(f)
<1> DEFINE n == Len(evs)
           file == Encode(evs)
           h == Header(n % CountMod)
           recs == file.records
<1>1. /\ file = [header |-> <<h>>, records |-> recs, rest |-> 0]
      /\ Len(recs) = n /\ DOMAIN recs = 1 .. n
      /\ \A i \in 1 .. n : recs[i] = EncodeRecord(evs[i])
  BY EncodedParts
<1>2. n \in Nat /\ \A i \in 1 .. n : evs[i] \in AnyEvent BY ElementOfSeq
<1>3. recs \in Seq(RawRecord)
  <2> DEFINE R == RawRecord
  <2>1. \A i \in 1 .. n : recs[i] \in R BY <1>1, <1>2, RawOf
  <2>2. recs = [i \in 1 .. n |-> recs[i]] BY EncodedParts, <1>1 DEF Encode
  <2> HIDE DEF R, recs
  <2>3. recs \in [1 .. n -> R] BY <2>1, <2>2
  <2>4. recs \in Seq(R) BY <1>2, <2>3
  <2> QED BY <2>4 DEF R
<1>4. RECORD_SIZE \in Nat /\ RECORD_SIZE >= 2 /\ CountMod \in Nat /\ CountMod > 0
  BY CorpusAssumption
<1>5. n % CountMod \in Nat BY <1>2, <1>4
<1> HIDE DEF n
<1>6. /\ IsHeader(h)
      /\ IsHeader([h EXCEPT !.magic = "other"])
      /\ \A byte : IsHeader([h EXCEPT !.version = byte])
      /\ \A byte : IsHeader([h EXCEPT !.record_size = byte])
      /\ \A c \in Nat : IsHeader([h EXCEPT !.count = c])
  BY <1>5, HeaderChanged
<1> HIDE DEF h, recs, file
<1>7. ASSUME NEW g, IsHeader(g), NEW rs \in Seq(RawRecord), NEW r \in 0 .. RECORD_SIZE - 1
      PROVE  IsFile([header |-> <<g>>, records |-> rs, rest |-> r])
  BY <1>7 DEF IsFile
<1>8. 0 \in 0 .. RECORD_SIZE - 1 BY <1>4
<1>9. CASE f = [file EXCEPT !.header = <<>>]
  <2>1. f = [header |-> <<>>, records |-> recs, rest |-> 0] BY <1>1, <1>9
  <2> QED BY <1>3, <1>8, <2>1 DEF IsFile
<1>10. ASSUME NEW g, f = [file EXCEPT !.header[1] = g], IsHeader(g) PROVE IsFile(f)
  <2>1. f = [header |-> <<g>>, records |-> recs, rest |-> 0] BY <1>1, <1>10
  <2>2. IsHeader(g) BY <1>10
  <2>3. IsFile([header |-> <<g>>, records |-> recs, rest |-> 0]) BY <1>3, <1>7, <1>8, <2>2
  <2> QED BY <2>1, <2>3
<1>11. file.header[1] = h BY <1>1
<1>12. CASE f = [file EXCEPT !.header[1].magic = "other"]
  <2>1. f = [file EXCEPT !.header[1] = [h EXCEPT !.magic = "other"]] BY <1>11, <1>12
  <2> QED BY <1>6, <1>10, <2>1
<1>13. CASE f \in {[file EXCEPT !.header[1].version = byte] : byte \in BadBytes}
  <2>1. PICK byte \in BadBytes : f = [file EXCEPT !.header[1].version = byte] BY <1>13
  <2>2. f = [file EXCEPT !.header[1] = [h EXCEPT !.version = byte]] BY <1>11, <2>1
  <2> QED BY <1>6, <1>10, <2>2
<1>14. CASE f \in {[file EXCEPT !.header[1].record_size = byte] : byte \in BadBytes}
  <2>1. PICK byte \in BadBytes : f = [file EXCEPT !.header[1].record_size = byte] BY <1>14
  <2>2. f = [file EXCEPT !.header[1] = [h EXCEPT !.record_size = byte]] BY <1>11, <2>1
  <2> QED BY <1>6, <1>10, <2>2
<1>15. CASE f \in {[file EXCEPT !.header[1].count = c] : c \in 0 .. CountMod - 1}
  <2>1. PICK c \in 0 .. CountMod - 1 : f = [file EXCEPT !.header[1].count = c] BY <1>15
  <2>2. f = [file EXCEPT !.header[1] = [h EXCEPT !.count = c]] BY <1>11, <2>1
  <2>3. c \in Nat BY <1>4, <2>1
  <2> QED BY <1>6, <1>10, <2>2, <2>3
<1>16. ASSUME NEW rs \in Seq(RawRecord), NEW r \in 0 .. RECORD_SIZE - 1,
              f = [header |-> <<h>>, records |-> rs, rest |-> r]
       PROVE  IsFile(f)
  BY <1>6, <1>7, <1>16
<1>17. ASSUME NEW i \in DOMAIN file.records, NEW rec \in RawRecord,
              f = [file EXCEPT !.records[i] = rec]
       PROVE  IsFile(f)
  <2> DEFINE R == RawRecord
             rs == [recs EXCEPT ![i] = rec]
  <2>1. f = [header |-> <<h>>, records |-> rs, rest |-> 0] BY <1>1, <1>17
  <2>2. i \in 1 .. Len(recs) BY <1>1 DEF recs
  <2> HIDE DEF R
  <2>3. recs \in Seq(R) /\ rec \in R BY <1>3 DEF R
  <2>4. rs \in Seq(R) BY <2>2, <2>3
  <2> HIDE DEF rs
  <2>5. rs \in Seq(RawRecord) BY <2>4 DEF R
  <2> QED BY <1>8, <1>16, <2>1, <2>5
<1>18. ASSUME NEW rec \in RawRecord, NEW byte \in BadBytes
       PROVE  [rec EXCEPT !.side = byte] \in RawRecord /\ [rec EXCEPT !.kind = byte] \in RawRecord
  BY OfflineAssumption DEF RawRecord
<1>19. \A i \in DOMAIN file.records : file.records[i] \in RawRecord
  BY <1>1, <1>3, ElementOfSeq DEF recs
<1>20. CASE f \in {[file EXCEPT !.records[i].side = byte] :
                      i \in DOMAIN file.records, byte \in BadBytes}
  <2>1. PICK i \in DOMAIN file.records, byte \in BadBytes :
          f = [file EXCEPT !.records[i].side = byte]
    BY <1>20
  <2>2. f = [file EXCEPT !.records[i] = [file.records[i] EXCEPT !.side = byte]] BY <1>1, <2>1
  <2> QED BY <1>17, <1>18, <1>19, <2>2
<1>21. CASE f \in {[file EXCEPT !.records[i].kind = byte] :
                      i \in DOMAIN file.records, byte \in BadBytes}
  <2>1. PICK i \in DOMAIN file.records, byte \in BadBytes :
          f = [file EXCEPT !.records[i].kind = byte]
    BY <1>21
  <2>2. f = [file EXCEPT !.records[i] = [file.records[i] EXCEPT !.kind = byte]] BY <1>1, <2>1
  <2> QED BY <1>17, <1>18, <1>19, <2>2
<1>22. CASE f \in {CutTo(file, m, r) : m \in 0 .. Len(file.records), r \in 0 .. RECORD_SIZE - 1}
  <2>1. PICK m \in 0 .. Len(file.records), r \in 0 .. RECORD_SIZE - 1 : f = CutTo(file, m, r)
    BY <1>22
  <2>2. f = [header |-> <<h>>, records |-> SubSeq(recs, 1, m), rest |-> r]
    BY <1>1, <2>1 DEF CutTo
  <2>3. m \in Nat /\ m <= Len(recs) BY <1>1, <1>2, <2>1 DEF recs
  <2> DEFINE R == RawRecord
             rs == SubSeq(recs, 1, m)
  <2>4. recs \in Seq(R) BY <1>3
  <2> HIDE DEF R
  <2>5. rs \in Seq(R) BY <2>3, <2>4, SubSeqProperties
  <2> HIDE DEF rs
  <2>6. rs \in Seq(RawRecord) BY <2>5 DEF R
  <2> QED BY <1>16, <2>2, <2>6 DEF rs
<1>23. CASE f = [file EXCEPT !.records = @ \o @]
  <2> DEFINE R == RawRecord
             rs == recs \o recs
  <2>1. f = [header |-> <<h>>, records |-> rs, rest |-> 0] BY <1>1, <1>23
  <2>2. recs \in Seq(R) BY <1>3
  <2> HIDE DEF R
  <2>3. rs \in Seq(R) BY <2>2
  <2> HIDE DEF rs
  <2>4. rs \in Seq(RawRecord) BY <2>3 DEF R
  <2> QED BY <1>8, <1>16, <2>1, <2>4
<1>24. CASE f \in DamagedHeader(file)
  <2>1. \/ f = [file EXCEPT !.header = <<>>]
        \/ f = [file EXCEPT !.header[1].magic = "other"]
        \/ f \in {[file EXCEPT !.header[1].version = byte] : byte \in BadBytes}
        \/ f \in {[file EXCEPT !.header[1].record_size = byte] : byte \in BadBytes}
        \/ f \in {[file EXCEPT !.header[1].count = c] : c \in 0 .. CountMod - 1}
    BY <1>24 DEF DamagedHeader
  <2> QED BY <1>9, <1>12, <1>13, <1>14, <1>15, <2>1
<1>25. CASE f \in DamagedRecord(file)
  <2>1. \/ f \in {[file EXCEPT !.records[i].side = byte] :
                   i \in DOMAIN file.records, byte \in BadBytes}
        \/ f \in {[file EXCEPT !.records[i].kind = byte] :
                   i \in DOMAIN file.records, byte \in BadBytes}
    BY <1>25 DEF DamagedRecord
  <2> QED BY <1>20, <1>21, <2>1
<1>26. CASE f \in Resized(file)
  <2>1. \/ f \in {CutTo(file, m, r) : m \in 0 .. Len(file.records),
                                      r \in 0 .. RECORD_SIZE - 1}
        \/ f = [file EXCEPT !.records = @ \o @]
    BY <1>26 DEF Resized
  <2> QED BY <1>22, <1>23, <2>1
<1> QED BY <1>24, <1>25, <1>26 DEF Damaged, file

-------------------------------------------------------------------------------
(* The civil date of a number of days.  The proofs compute with its constants, which   *)
(* only the SMT solver does: most leaves name it.                                       *)

\* The days of an era before its year y, and those of that year; a year begins in March.
FirstDay(y) == 365 * y + y \div 4 - y \div 100
YearLength(y) == IF Leap(y + 1) THEN 366 ELSE 365

\* The days of a year before its month mp, the first being March.
FirstOf(mp) == (153 * mp + 2) \div 5
MonthOf(doy) == (5 * doy + 2) \div 153

CivilMonth(mp) == IF mp < 10 THEN mp + 3 ELSE mp - 9

\* The date of day doy of year y of an era.
CivilYear(era, y, i) == y + era * 400 + (IF CivilMonth(i) <= 2 THEN 1 ELSE 0)

DateIn(era, y, doy, i) ==
  [y |-> CivilYear(era, y, i), m |-> CivilMonth(i), d |-> doy - FirstOf(i) + 1]

Dated(era, y, doy) == DateIn(era, y, doy, MonthOf(doy))

\* A day of an era, of 400 years.
IsDay(doe) == doe \in Int /\ 0 <= doe /\ doe < 146097

\* Century c of an era, but for the era's last day.
InCentury(c, doe) == 36524 * c <= doe /\ doe < 36524 * (c + 1)

\* The year of a day is found right within a century (recorder.rs:612).
LEMMA YearIn ==
  ASSUME NEW c \in {0, 1, 2, 3}, NEW doe \in Int, InCentury(c, doe)
  PROVE  /\ YearOfEra(doe) \in 0 .. 399
         /\ FirstDay(YearOfEra(doe)) <= doe /\ doe < FirstDay(YearOfEra(doe) + 1)
<1> DEFINE a == doe \div 1460
           y == YearOfEra(doe)
           fours == y \div 4
           later == (y + 1) \div 4
<1>1. doe \in Nat /\ doe < 146096 BY SMT DEF InCentury
<1>2. doe \div 36524 = c /\ doe \div 146096 = 0 BY <1>1, SMT DEF InCentury
<1> USE DEF InCentury
<1>3. a \in Int /\ 1460 * a <= doe /\ doe < 1460 * a + 1460 BY <1>1, SMT
<1>4. y = (doe - a + c) \div 365 BY <1>1, <1>2, SMT DEF YearOfEra
<1> HIDE DEF a
<1>5. y \in Int /\ 365 * y <= doe - a + c /\ doe - a + c < 365 * y + 365 BY <1>3, <1>4, SMT
<1> HIDE DEF y
<1>6. /\ fours \in Int /\ 4 * fours <= y /\ y <= 4 * fours + 3
      /\ later \in Int /\ 4 * later <= y + 1 /\ y + 1 <= 4 * later + 3
  BY <1>5, SMT
<1> HIDE DEF fours, later
<1>7. y \in 100 * c .. 100 * c + 99
  <2>1. CASE c = 0 BY <1>3, <1>5, <2>1, SMT
  <2>2. CASE c = 1 BY <1>3, <1>5, <2>2, SMT
  <2>3. CASE c = 2 BY <1>3, <1>5, <2>3, SMT
  <2>4. CASE c = 3 BY <1>3, <1>5, <2>4, SMT
  <2> QED BY <2>1, <2>2, <2>3, <2>4, SMT
<1>8. FirstDay(y) = 365 * y + fours - c
  <2>1. y \div 100 = c BY <1>5, <1>7, SMT
  <2> QED BY <2>1, SMT DEF FirstDay, fours
<1>9. FirstDay(y + 1) = 365 * (y + 1) + later - (IF y = 100 * c + 99 THEN c + 1 ELSE c)
  <2>1. (y + 1) \div 100 = IF y = 100 * c + 99 THEN c + 1 ELSE c BY <1>5, <1>7, SMT
  <2> QED BY <2>1, SMT DEF FirstDay, later
<1>10. 365 * y + fours - c <= doe
  <2>1. CASE c = 0 BY <1>3, <1>5, <1>6, <2>1, SMT
  <2>2. CASE c = 1 BY <1>3, <1>5, <1>6, <2>2, SMT
  <2>3. CASE c = 2 BY <1>3, <1>5, <1>6, <2>3, SMT
  <2>4. CASE c = 3 BY <1>3, <1>5, <1>6, <2>4, SMT
  <2> QED BY <2>1, <2>2, <2>3, <2>4, SMT
<1>11. y # 100 * c + 99 => doe < 365 * (y + 1) + later - c
  <2>1. CASE c = 0 BY <1>3, <1>5, <1>6, <1>7, <2>1, SMT
  <2>2. CASE c = 1 BY <1>3, <1>5, <1>6, <1>7, <2>2, SMT
  <2>3. CASE c = 2 BY <1>3, <1>5, <1>6, <1>7, <2>3, SMT
  <2>4. CASE c = 3 BY <1>3, <1>5, <1>6, <1>7, <2>4, SMT
  <2> QED BY <2>1, <2>2, <2>3, <2>4, SMT
<1>12. y = 100 * c + 99 => doe < 365 * (y + 1) + later - (c + 1)
  <2>1. y = 100 * c + 99 => later = 25 * (c + 1) BY <1>6, SMT
  <2> QED BY <2>1, SMT
<1> QED BY <1>5, <1>7, <1>8, <1>9, <1>10, <1>11, <1>12, SMT DEF y

\* An era ends with a leap day of its last year.
LEMMA LastDay ==
  /\ YearOfEra(146096) = 399
  /\ FirstDay(399) = 145731 /\ FirstDay(400) = 146096 /\ FirstDay(0) = 0
BY SMT DEF YearOfEra, FirstDay

\* The first days of the years ascend, by a year's length each.
LEMMA FirstDaysRise ==
  ASSUME NEW x \in Nat, NEW y \in Nat, x < y
  PROVE  FirstDay(x) + 365 <= FirstDay(y) /\ FirstDay(x) \in Int
BY SMT DEF FirstDay

\* A year has its leap day when the year that ends in it is leap.
LEMMA Leaps ==
  ASSUME NEW y \in 0 .. 398
  PROVE  FirstDay(y + 1) = FirstDay(y) + YearLength(y)
BY SMT DEF FirstDay, YearLength, Leap

\* The last year of an era is leap.
LEMMA LeapsLast == FirstDay(399) + YearLength(399) = 146097
BY LastDay, SMT DEF YearLength, Leap

\* A year has 365 days or one more.
LEMMA YearLengths ==
  ASSUME NEW y \in Int
  PROVE  FirstDay(y) \in Int /\ YearLength(y) \in {365, 366}
BY SMT DEF FirstDay, YearLength

\* The year computed for a day of an era is the one it is in (recorder.rs:612-613).
LEMMA YearOf ==
  ASSUME NEW doe, IsDay(doe)
  PROVE  /\ YearOfEra(doe) \in 0 .. 399
         /\ FirstDay(YearOfEra(doe)) <= doe
         /\ doe < FirstDay(YearOfEra(doe)) + YearLength(YearOfEra(doe))
<1> DEFINE y == YearOfEra(doe)
<1>1. doe \in Int /\ 0 <= doe /\ doe < 146097 BY SMT DEF IsDay
<1>2. \A c \in {0, 1, 2, 3} : InCentury(c, doe) =>
        y \in 0 .. 399 /\ FirstDay(y) <= doe /\ doe < FirstDay(y + 1)
  <2>1. ASSUME NEW c \in {0, 1, 2, 3}, InCentury(c, doe)
        PROVE y \in 0 .. 399 /\ FirstDay(y) <= doe /\ doe < FirstDay(y + 1)
    BY <1>1, <2>1, YearIn, SMT
  <2> QED BY <2>1, SMT
<1>3. doe = 146096 => y = 399 BY LastDay, SMT
<1> HIDE DEF y
<1>4. doe = 146096 => y \in 0 .. 399 /\ FirstDay(y) <= doe /\ doe < FirstDay(y) + YearLength(y)
  <2>1. FirstDay(399) <= 146096 BY LastDay, SMT
  <2>2. 146096 < FirstDay(399) + YearLength(399) BY LeapsLast, SMT
  <2> QED BY <1>3, <2>1, <2>2, SMT
<1>5. doe # 146096 => y \in 0 .. 399 /\ FirstDay(y) <= doe /\ doe < FirstDay(y + 1)
  <2>1. doe < 36524 => InCentury(0, doe) BY <1>1, SMT DEF InCentury
  <2>2. 36524 <= doe /\ doe < 73048 => InCentury(1, doe) BY <1>1, SMT DEF InCentury
  <2>3. 73048 <= doe /\ doe < 109572 => InCentury(2, doe) BY <1>1, SMT DEF InCentury
  <2>4. doe # 146096 /\ 109572 <= doe => InCentury(3, doe) BY <1>1, SMT DEF InCentury
  <2> QED BY <1>1, <1>2, <2>1, <2>2, <2>3, <2>4, SMT
<1>6. doe # 146096 => y \in 0 .. 399 /\ FirstDay(y) <= doe /\ doe < FirstDay(y) + YearLength(y)
  <2> SUFFICES ASSUME doe # 146096
               PROVE  y \in 0 .. 399 /\ FirstDay(y) <= doe /\ doe < FirstDay(y) + YearLength(y)
    BY SMT
  <2>1. y \in 0 .. 399 /\ FirstDay(y) <= doe /\ doe < FirstDay(y + 1) BY <1>5, SMT
  <2>2. y \in Int BY <2>1, SMT
  <2>3. FirstDay(y) \in Int /\ YearLength(y) \in {365, 366} BY <2>2, YearLengths, SMT
  <2>4. CASE y = 399
    <3>1. FirstDay(y) + YearLength(y) = 146097 BY <2>4, LeapsLast, SMT
    <3> QED BY <1>1, <2>1, <2>3, <3>1, SMT
  <2>5. CASE y # 399
    <3>1. y \in 0 .. 398 BY <2>1, <2>5, SMT
    <3>2. FirstDay(y + 1) = FirstDay(y) + YearLength(y) BY <3>1, Leaps, SMT
    <3> QED BY <2>1, <3>2, SMT
  <2> QED BY <2>4, <2>5, SMT
<1> QED BY <1>4, <1>6, SMT DEF y

\* Years of an era in order, and the days of one before those of the other.
Earlier(x, y) == x \in 0 .. 399 /\ y \in 0 .. 399 /\ x < y
YearAfter(x, y) == FirstDay(x) + YearLength(x) <= FirstDay(y)

\* A year begins after the days of every year before it.
LEMMA After ==
  ASSUME NEW x, NEW y, Earlier(x, y)
  PROVE  YearAfter(x, y)
<1> USE DEF Earlier, YearAfter
<1>1. x \in 0 .. 398 /\ x \in Int /\ y \in Int /\ x + 1 \in Nat /\ y \in Nat BY SMT
<1>2. FirstDay(x + 1) = FirstDay(x) + YearLength(x) BY <1>1, Leaps, SMT
<1>3. FirstDay(x + 1) \in Int /\ FirstDay(y) \in Int BY <1>1, YearLengths, SMT
<1>4. CASE y = x + 1 BY <1>2, <1>3, <1>4, SMT
<1>5. CASE y # x + 1
  <2>1. x + 1 < y BY <1>1, <1>5, SMT
  <2>2. FirstDay(x + 1) + 365 <= FirstDay(y) BY <1>1, <2>1, FirstDaysRise, SMT
  <2> QED BY <1>2, <1>3, <2>2, SMT
<1> QED BY <1>4, <1>5, SMT

\* No other year has that day.
LEMMA YearBack ==
  ASSUME NEW y \in 0 .. 399, NEW doy \in 0 .. YearLength(y) - 1
  PROVE  IsDay(FirstDay(y) + doy) /\ YearOfEra(FirstDay(y) + doy) = y
<1> DEFINE f == FirstDay(y)
           l == YearLength(y)
           doe == f + doy
           x == YearOfEra(doe)
<1>1. y \in Int BY SMT
<1>2. f \in Int /\ l \in {365, 366} BY <1>1, YearLengths, SMT
<1>3. f >= 0 BY SMT DEF FirstDay
<1>4. f + l <= 146097
  <2>1. CASE y = 399 BY <2>1, LeapsLast, SMT
  <2>2. CASE y # 399
    <3>1. Earlier(y, 399) BY <1>1, <2>2, SMT DEF Earlier
    <3>2. YearAfter(y, 399) BY <3>1, After, SMT
    <3> HIDE DEF f, l
    <3> QED BY <1>2, <3>2, LastDay, SMT DEF YearAfter, f, l
  <2> QED BY <2>1, <2>2, SMT
<1>5. doy \in Int /\ 0 <= doy /\ doy < l BY <1>2, SMT
<1> HIDE DEF f, l
<1>6. IsDay(doe) BY <1>2, <1>3, <1>4, <1>5, SMT DEF IsDay
<1>7. doe \in Int /\ f <= doe /\ doe < f + l BY <1>2, <1>5, SMT
<1> HIDE DEF doe
<1>8. x \in 0 .. 399 /\ FirstDay(x) <= doe /\ doe < FirstDay(x) + YearLength(x)
  BY <1>6, YearOf, SMT
<1> HIDE DEF x
<1>9. x \in Int /\ FirstDay(x) \in Int /\ YearLength(x) \in {365, 366} BY <1>8, YearLengths, SMT
<1>10. ~(y < x)
  <2>0. y < x => Earlier(y, x) BY <1>8, SMT DEF Earlier
  <2>1. y < x => YearAfter(y, x) BY <2>0, After, SMT
  <2>2. YearAfter(y, x) => f + l <= FirstDay(x) BY SMT DEF YearAfter, f, l
  <2> QED BY <1>2, <1>7, <1>8, <1>9, <2>1, <2>2, SMT
<1>11. ~(x < y)
  <2>0. x < y => Earlier(x, y) BY <1>8, SMT DEF Earlier
  <2>1. x < y => YearAfter(x, y) BY <2>0, After, SMT
  <2>2. YearAfter(x, y) => FirstDay(x) + YearLength(x) <= f BY SMT DEF YearAfter, f
  <2> QED BY <1>2, <1>7, <1>8, <1>9, <2>1, <2>2, SMT
<1>12. x = y BY <1>8, <1>10, <1>11, SMT
<1> QED BY <1>6, <1>12, SMT DEF x, doe, f

\* A number of days is that of one day of one year of one era (recorder.rs:605-624).
IsPlace(z, era, y, doy) ==
  /\ era \in Int /\ y \in 0 .. 399 /\ doy \in 0 .. YearLength(y) - 1
  /\ z + 719468 = era * 146097 + (FirstDay(y) + doy)

\* The date of day doe of an era.
OfEra(era, doe) == Dated(era, YearOfEra(doe), doe - FirstDay(YearOfEra(doe)))

\* What the code computes is that of the era it finds (recorder.rs:609-624).
LEMMA ByEra ==
  ASSUME NEW z \in Int
  PROVE  LET era == (z + 719468) \div 146097
         IN CivilFromDays(z) = OfEra(era, z + 719468 - era * 146097)
BY SMT DEF CivilFromDays, OfEra, Dated, DateIn, CivilYear, FirstDay, MonthOf, FirstOf, CivilMonth

\* Each number of days is one, and ...
LEMMA PlaceExists ==
  ASSUME NEW z \in Int
  PROVE  \E era, y, doy : IsPlace(z, era, y, doy)
<1> DEFINE era == (z + 719468) \div 146097
           doe == z + 719468 - era * 146097
           y == YearOfEra(doe)
<1>1. era \in Int /\ doe \in Int /\ 0 <= doe /\ doe < 146097 /\ z + 719468 = era * 146097 + doe
  BY SMT
<1> HIDE DEF era, doe
<1>2. IsDay(doe) BY <1>1, SMT DEF IsDay
<1>3. y \in 0 .. 399 /\ FirstDay(y) <= doe /\ doe < FirstDay(y) + YearLength(y)
  BY <1>2, YearOf, SMT
<1> HIDE DEF y
<1>4. FirstDay(y) \in Int /\ YearLength(y) \in {365, 366} BY <1>3, YearLengths, SMT
<1> DEFINE doy == doe - FirstDay(y)
<1>5. doy \in 0 .. YearLength(y) - 1 /\ FirstDay(y) + doy = doe BY <1>1, <1>3, <1>4, SMT
<1> HIDE DEF doy
<1>6. IsPlace(z, era, y, doy) BY <1>1, <1>3, <1>5, SMT DEF IsPlace
<1> QED BY <1>6, SMT

\* ... is given the date of it.
LEMMA PlaceDated ==
  ASSUME NEW z \in Int, NEW era, NEW y, NEW doy, IsPlace(z, era, y, doy)
  PROVE  CivilFromDays(z) = Dated(era, y, doy)
<1> DEFINE n == z + 719468
           doe == FirstDay(y) + doy
<1>1. era \in Int /\ y \in 0 .. 399 /\ doy \in 0 .. YearLength(y) - 1 /\ n = era * 146097 + doe
  BY SMT DEF IsPlace
<1>2. IsDay(doe) /\ YearOfEra(doe) = y
  <2>1. y \in 0 .. 399 /\ doy \in 0 .. YearLength(y) - 1 BY <1>1, SMT
  <2> QED BY <2>1, YearBack, Zenon
<1>3. FirstDay(y) \in Int /\ YearLength(y) \in {365, 366} BY <1>1, YearLengths, SMT
<1>4. doy \in Int /\ doe - FirstDay(y) = doy BY <1>1, <1>3, SMT
<1> HIDE DEF doe
<1>5. doe \in Int /\ 0 <= doe /\ doe < 146097 BY <1>2, SMT DEF IsDay
<1>6. n \in Int BY SMT
<1> HIDE DEF n
<1>7. n \div 146097 = era /\ n - era * 146097 = doe BY <1>1, <1>5, <1>6, SMT
<1>8. CivilFromDays(z) = OfEra(era, doe) BY <1>7, ByEra, SMT DEF n
<1>9. OfEra(era, doe) = Dated(era, y, doy)
  <2>1. YearOfEra(doe) = y /\ doe - FirstDay(y) = doy BY <1>2, <1>4, SMT
  <2>2. OfEra(era, doe) = Dated(era, YearOfEra(doe), doe - FirstDay(YearOfEra(doe)))
    BY Zenon DEF OfEra
  <2> QED BY <2>1, <2>2, Zenon
<1> QED BY <1>8, <1>9, SMT

\* The months, the first being March.
LEMMA Months ==
  /\ FirstOf(0) = 0 /\ FirstOf(1) = 31 /\ FirstOf(2) = 61 /\ FirstOf(3) = 92
  /\ FirstOf(4) = 122 /\ FirstOf(5) = 153 /\ FirstOf(6) = 184 /\ FirstOf(7) = 214
  /\ FirstOf(8) = 245 /\ FirstOf(9) = 275 /\ FirstOf(10) = 306 /\ FirstOf(11) = 337
  /\ FirstOf(12) = 367
BY SMT DEF FirstOf

\* A day between the first of a month and the next one's is in that month.
LEMMA MonthIs ==
  ASSUME NEW i \in 0 .. 11, NEW doy \in Int, FirstOf(i) <= doy, doy < FirstOf(i + 1)
  PROVE  MonthOf(doy) = i
BY SMT DEF FirstOf, MonthOf

\* Each day of a year is in one (recorder.rs:615).
LEMMA MonthIn ==
  ASSUME NEW doy \in 0 .. 365
  PROVE  /\ MonthOf(doy) \in 0 .. 11
         /\ FirstOf(MonthOf(doy)) <= doy /\ doy < FirstOf(MonthOf(doy) + 1)
BY SMT DEF FirstOf, MonthOf

\* A month before February has the days from its first to the next one's.
LEMMA DaysInMonth ==
  ASSUME NEW y \in Int, NEW i \in 0 .. 10
  PROVE  /\ DaysIn(y, CivilMonth(i)) = FirstOf(i + 1) - FirstOf(i)
         /\ FirstOf(i + 1) - FirstOf(i) \in {30, 31}
BY SMT DEF DaysIn, CivilMonth, FirstOf

\* February is the last month of a year of the era, which is leap or not by its own year.
LEMMA DaysInFebruary ==
  ASSUME NEW era \in Int, NEW y \in 0 .. 399
  PROVE  DaysIn(y + era * 400 + 1, 2) = YearLength(y) - 337
<1>1. Leap(y + era * 400 + 1) <=> Leap(y + 1)
  <2> DEFINE e == era * 400
             x == y + e + 1
  <2>1. x % 4 = (y + 1) % 4 /\ x % 100 = (y + 1) % 100 /\ x % 400 = (y + 1) % 400 BY SMT
  <2> HIDE DEF x
  <2>2. Leap(x) <=> Leap(y + 1) BY <2>1, SMT DEF Leap
  <2> QED BY <2>2, SMT DEF x
<1> QED BY <1>1, SMT DEF DaysIn, YearLength

\* The day after a date, spelt out.
LEMMA NextIs ==
  ASSUME NEW y \in Int, NEW m \in Int, NEW d \in Int
  PROVE  NextDay([y |-> y, m |-> m, d |-> d])
           = IF d < DaysIn(y, m) THEN [y |-> y, m |-> m, d |-> d + 1]
             ELSE IF m < 12 THEN [y |-> y, m |-> m + 1, d |-> 1]
             ELSE [y |-> y + 1, m |-> 1, d |-> 1]
BY SMT DEF NextDay

\* The day after, within a year that begins in March.
LEMMA NextInYear ==
  ASSUME NEW era \in Int, NEW y \in 0 .. 399, NEW doy \in 0 .. YearLength(y) - 2
  PROVE  NextDay(Dated(era, y, doy)) = Dated(era, y, doy + 1)
<1> DEFINE l == YearLength(y)
           i == MonthOf(doy)
           m == CivilMonth(i)
           yr == CivilYear(era, y, i)
           d == doy - FirstOf(i) + 1
<1>1. l \in {365, 366} /\ y \in Int BY YearLengths, SMT
<1>2. doy \in Int /\ 0 <= doy /\ doy + 1 < l /\ doy \in 0 .. 365 /\ doy + 1 \in 0 .. 365
  BY <1>1, SMT
<1>3. i \in 0 .. 11 /\ FirstOf(i) <= doy /\ doy < FirstOf(i + 1) BY <1>2, MonthIn, SMT
<1> HIDE DEF i, l
<1>4. FirstOf(i) \in Int /\ FirstOf(i + 1) \in Int BY <1>3, SMT DEF FirstOf
<1>5. m \in 1 .. 12 /\ yr \in Int /\ d \in Int
  BY <1>1, <1>2, <1>3, <1>4, SMT DEF CivilMonth, CivilYear
<1>6. Dated(era, y, doy) = [y |-> yr, m |-> m, d |-> d] BY SMT DEF Dated, DateIn, i
<1> HIDE DEF yr, m, d
<1>7. NextDay(Dated(era, y, doy))
        = IF d < DaysIn(yr, m) THEN [y |-> yr, m |-> m, d |-> d + 1]
          ELSE IF m < 12 THEN [y |-> yr, m |-> m + 1, d |-> 1]
          ELSE [y |-> yr + 1, m |-> 1, d |-> 1]
  BY <1>5, <1>6, NextIs, SMT
<1>8. CASE doy + 1 < FirstOf(i + 1)
  <2>1. MonthOf(doy + 1) = i BY <1>2, <1>3, <1>4, <1>8, MonthIs, SMT
  <2>2. d < DaysIn(yr, m)
    <3>1. CASE i \in 0 .. 10
      <4>1. DaysIn(yr, m) = FirstOf(i + 1) - FirstOf(i) BY <1>5, <3>1, DaysInMonth, SMT DEF m
      <4> QED BY <1>2, <1>4, <1>8, <4>1, SMT DEF d
    <3>2. CASE i = 11
      <4>1. m = 2 /\ yr = y + era * 400 + 1 BY <1>1, <3>2, SMT DEF m, yr, CivilMonth, CivilYear
      <4>2. DaysIn(yr, m) = l - 337 BY <4>1, DaysInFebruary, SMT DEF l
      <4> QED BY <1>1, <1>2, <3>2, <4>2, Months, SMT DEF d
    <3> QED BY <1>3, <3>1, <3>2, SMT
  <2>3. Dated(era, y, doy + 1) = [y |-> yr, m |-> m, d |-> d + 1]
    <3>1. Dated(era, y, doy + 1) = DateIn(era, y, doy + 1, i) BY <2>1, Zenon DEF Dated
    <3>2. DateIn(era, y, doy + 1, i) = [y |-> yr, m |-> m, d |-> (doy + 1) - FirstOf(i) + 1]
      BY Zenon DEF DateIn, yr, m
    <3>3. (doy + 1) - FirstOf(i) + 1 = d + 1 BY <1>2, <1>4, SMT DEF d
    <3> QED BY <3>1, <3>2, <3>3, Zenon
  <2> QED BY <1>7, <2>2, <2>3, SMT
<1>9. CASE doy + 1 = FirstOf(i + 1)
  <2>1. i \in 0 .. 10 BY <1>1, <1>2, <1>3, <1>9, Months, SMT
  <2>2. DaysIn(yr, m) = FirstOf(i + 1) - FirstOf(i) BY <1>5, <2>1, DaysInMonth, SMT DEF m
  <2>3. ~(d < DaysIn(yr, m)) BY <1>2, <1>4, <1>9, <2>2, SMT DEF d
  <2>4. MonthOf(doy + 1) = i + 1
    <3>1. i + 1 \in 0 .. 11 /\ FirstOf(i + 1) < FirstOf(i + 2) BY <2>1, SMT DEF FirstOf
    <3>2. doy + 1 \in Int /\ FirstOf(i + 1) <= doy + 1 /\ doy + 1 < FirstOf(i + 1 + 1)
      BY <1>2, <1>4, <1>9, <2>1, <3>1, SMT
    <3> QED BY <3>1, <3>2, MonthIs, SMT
  <2> DEFINE n == CivilMonth(i + 1)
             x == CivilYear(era, y, i + 1)
  <2>5. Dated(era, y, doy + 1) = [y |-> x, m |-> n, d |-> (doy + 1) - FirstOf(i + 1) + 1]
    <3>1. Dated(era, y, doy + 1) = DateIn(era, y, doy + 1, i + 1) BY <2>4, Zenon DEF Dated
    <3> QED BY <3>1, Zenon DEF DateIn
  <2> HIDE DEF n, x
  <2>6. (doy + 1) - FirstOf(i + 1) + 1 = 1 BY <1>2, <1>4, <1>9, SMT
  <2>7. CASE m < 12
    <3>1. n = m + 1 /\ x = yr BY <1>1, <2>1, <2>7, SMT DEF m, n, x, yr, CivilMonth, CivilYear
    <3> QED BY <1>7, <2>3, <2>5, <2>6, <2>7, <3>1, SMT
  <2>8. CASE ~(m < 12)
    <3>1. n = 1 /\ x = yr + 1 BY <1>1, <2>1, <2>8, SMT DEF m, n, x, yr, CivilMonth, CivilYear
    <3> QED BY <1>7, <2>3, <2>5, <2>6, <2>8, <3>1, SMT
  <2> QED BY <2>7, <2>8, SMT
<1> QED BY <1>2, <1>3, <1>4, <1>8, <1>9, SMT

\* The day after the last day of February is the first of March.
LEMMA NextYear ==
  ASSUME NEW era \in Int, NEW y \in 0 .. 399
  PROVE  LET next == NextDay(Dated(era, y, YearLength(y) - 1)) IN
           (y < 399 => next = Dated(era, y + 1, 0)) /\ (y = 399 => next = Dated(era + 1, 0, 0))
<1> DEFINE l == YearLength(y)
           yr == y + era * 400 + 1
<1>1. l \in {365, 366} /\ y \in Int BY YearLengths, SMT
<1> HIDE DEF l
<1>2. MonthOf(l - 1) = 11 BY <1>1, MonthIs, Months, SMT
<1>3. CivilMonth(11) = 2 /\ CivilMonth(0) = 3 BY SMT DEF CivilMonth
<1>4. Dated(era, y, l - 1) = [y |-> yr, m |-> 2, d |-> l - 337]
  <2>1. Dated(era, y, l - 1) = [y |-> yr, m |-> 2, d |-> l - 1 - FirstOf(11) + 1]
    <3>1. Dated(era, y, l - 1) = DateIn(era, y, l - 1, 11) BY <1>2, Zenon DEF Dated
    <3> QED BY <1>3, <3>1, SMT DEF DateIn, CivilYear
  <2>2. l - 1 - FirstOf(11) + 1 = l - 337 BY <1>1, Months, SMT
  <2> QED BY <2>1, <2>2, SMT
<1>5. DaysIn(yr, 2) = l - 337 BY DaysInFebruary, SMT DEF l
<1>6. yr \in Int /\ l - 337 \in Int BY <1>1, SMT
<1>7. NextDay(Dated(era, y, l - 1)) = [y |-> yr, m |-> 3, d |-> 1]
  <2> HIDE DEF yr
  <2> DEFINE d == l - 337
             m == 2
  <2>1. /\ d \in Int /\ ~(d < DaysIn(yr, m))
        /\ m \in Int /\ m < 12 /\ m + 1 = 3
    BY <1>5, <1>6, SMT
  <2>2. Dated(era, y, l - 1) = [y |-> yr, m |-> m, d |-> d] BY <1>4
  <2> HIDE DEF d, m
  <2>3. NextDay([y |-> yr, m |-> m, d |-> d])
          = IF d < DaysIn(yr, m) THEN [y |-> yr, m |-> m, d |-> d + 1]
            ELSE IF m < 12 THEN [y |-> yr, m |-> m + 1, d |-> 1]
            ELSE [y |-> yr + 1, m |-> 1, d |-> 1]
    BY <1>6, <2>1, NextIs, Zenon
  <2> QED BY <2>1, <2>2, <2>3, Zenon
<1>8. MonthOf(0) = 0 BY MonthIs, Months, SMT
<1>9. ASSUME NEW e \in Int, NEW x \in Int
      PROVE  Dated(e, x, 0) = [y |-> x + e * 400, m |-> 3, d |-> 1]
  <2>1. Dated(e, x, 0) = DateIn(e, x, 0, 0) BY <1>8, Zenon DEF Dated
  <2> QED BY <1>3, <2>1, Months, SMT DEF DateIn, CivilYear
<1>10. CASE y < 399
  <2>1. (y + 1) + era * 400 = yr BY <1>1, SMT
  <2> QED BY <1>1, <1>7, <1>9, <1>10, <2>1, SMT DEF l
<1>11. CASE y = 399
  <2>1. 0 + (era + 1) * 400 = yr BY <1>1, <1>11, SMT
  <2> QED BY <1>1, <1>7, <1>9, <1>11, <2>1, SMT DEF l
<1> QED BY <1>10, <1>11, SMT DEF l

\* The date of each day is the day after that of the day before (recorder.rs:605-624).
LEMMA DaysCount ==
  ASSUME NEW z \in Int
  PROVE  CivilFromDays(z + 1) = NextDay(CivilFromDays(z))
<1>1. PICK era, y, doy : IsPlace(z, era, y, doy) BY PlaceExists, SMT
<1>2. /\ era \in Int /\ y \in 0 .. 399 /\ doy \in 0 .. YearLength(y) - 1
      /\ z + 719468 = era * 146097 + (FirstDay(y) + doy)
  BY <1>1, SMT DEF IsPlace
<1>3. CivilFromDays(z) = Dated(era, y, doy) BY <1>1, PlaceDated, SMT
<1>4. /\ y \in Int /\ FirstDay(y) \in Int /\ YearLength(y) \in {365, 366}
      /\ z + 1 \in Int /\ doy \in Int
  BY <1>2, YearLengths, SMT
<1>5. CASE doy # YearLength(y) - 1
  <2>1. IsPlace(z + 1, era, y, doy + 1) BY <1>2, <1>4, <1>5, SMT DEF IsPlace
  <2>2. doy \in 0 .. YearLength(y) - 2 BY <1>2, <1>4, <1>5, SMT
  <2>3. CivilFromDays(z + 1) = Dated(era, y, doy + 1)
    <3> DEFINE n == z + 1
    <3>1. n \in Int /\ IsPlace(n, era, y, doy + 1) BY <1>4, <2>1
    <3> HIDE DEF n
    <3> QED BY <3>1, PlaceDated DEF n
  <2>4. era \in Int /\ y \in 0 .. 399 BY <1>2, SMT
  <2>5. NextDay(Dated(era, y, doy)) = Dated(era, y, doy + 1) BY <2>2, <2>4, NextInYear, Zenon
  <2> QED BY <1>3, <2>3, <2>5, Zenon
<1>6. CASE doy = YearLength(y) - 1 /\ y < 399
  <2> DEFINE n == z + 1
             x == y + 1
  <2>1. FirstDay(x) = FirstDay(y) + YearLength(y) BY <1>2, <1>6, Leaps, SMT
  <2>2. n \in Int /\ IsPlace(n, era, x, 0)
    <3>1. x \in 0 .. 399 /\ YearLength(x) \in {365, 366} BY <1>2, <1>4, <1>6, YearLengths, SMT
    <3>2. 0 \in 0 .. YearLength(x) - 1 BY <3>1, SMT
    <3>3. n + 719468 = era * 146097 + (FirstDay(x) + 0) BY <1>2, <1>4, <1>6, <2>1, SMT
    <3> QED BY <1>2, <1>4, <3>1, <3>2, <3>3, SMT DEF IsPlace
  <2>3. NextDay(Dated(era, y, doy)) = Dated(era, x, 0)
    <3>1. era \in Int /\ y \in 0 .. 399 /\ y < 399 BY <1>2, <1>6, SMT
    <3>2. doy = YearLength(y) - 1 BY <1>6
    <3> QED BY <3>1, <3>2, NextYear, Zenon
  <2> HIDE DEF n, x
  <2>4. CivilFromDays(n) = Dated(era, x, 0) BY <2>2, PlaceDated, SMT
  <2> QED BY <1>3, <2>3, <2>4, Zenon DEF n
<1>7. CASE doy = YearLength(y) - 1 /\ ~(y < 399)
  <2> DEFINE n == z + 1
             e == era + 1
  <2>1. y = 399 /\ FirstDay(y) + YearLength(y) = 146097 BY <1>2, <1>7, LeapsLast, SMT
  <2>2. n \in Int /\ IsPlace(n, e, 0, 0)
    <3>1. YearLength(0) \in {365, 366} BY YearLengths, SMT
    <3> QED BY <1>2, <1>4, <1>7, <2>1, <3>1, LastDay, SMT DEF IsPlace
  <2>3. NextDay(Dated(era, y, doy)) = Dated(e, 0, 0)
    <3>1. era \in Int /\ y \in 0 .. 399 /\ y = 399 BY <1>2, <2>1, SMT
    <3>2. doy = YearLength(y) - 1 BY <1>7
    <3> QED BY <3>1, <3>2, NextYear, Zenon
  <2> HIDE DEF n, e
  <2>4. CivilFromDays(n) = Dated(e, 0, 0) BY <2>2, PlaceDated, SMT
  <2> QED BY <1>3, <2>3, <2>4, Zenon DEF n
<1> QED BY <1>2, <1>5, <1>6, <1>7, SMT

\* Day zero is the first of January 1970.
LEMMA Epoch == CivilFromDays(0) = [y |-> 1970, m |-> 1, d |-> 1]
BY SMT DEF CivilFromDays, YearOfEra

-------------------------------------------------------------------------------
(* What a chunked answer carries *)

\* The functions that HexValue and Dechunk are defined by, the second from a position on.
IsUpTo(f, s, n) == f = [i \in 0 .. n |-> IF i = 0 THEN 0 ELSE 16 * f[i - 1] + HexDigit[s[i]]]

\* What the function of a text gives, digit by digit.
LEMMA UpToIs ==
  ASSUME NEW f, NEW s, NEW n \in Nat, IsUpTo(f, s, n)
  PROVE  f[0] = 0 /\ \A i \in 1 .. n : f[i] = 16 * f[i - 1] + HexDigit[s[i]]
<1> DEFINE g == [i \in 0 .. n |-> IF i = 0 THEN 0 ELSE 16 * f[i - 1] + HexDigit[s[i]]]
<1>1. f = g BY DEF IsUpTo
<1>2. g[0] = 0 OBVIOUS
<1>3. \A i \in 1 .. n : g[i] = 16 * f[i - 1] + HexDigit[s[i]] OBVIOUS
<1> HIDE DEF g
<1> QED BY <1>1, <1>2, <1>3

\* There is one: the shortest text without would have one digit more than one with.
LEMMA UpToExists ==
  ASSUME NEW s, NEW n \in Nat
  PROVE  \E f : IsUpTo(f, s, n)
<1> DEFINE S == {m \in Nat : ~(\E f : IsUpTo(f, s, m))}
<1>1. SUFFICES ASSUME S # {} PROVE FALSE OBVIOUS
<1>2. PICK m \in S : \A c \in S : m <= c
  <2>1. S \subseteq Nat OBVIOUS
  <2> HIDE DEF S
  <2> QED BY <1>1, <2>1, LeastOf
<1>3. CASE m = 0
  <2> DEFINE g == [i \in 0 .. 0 |-> 0]
  <2>1. g = [i \in 0 .. 0 |-> IF i = 0 THEN 0 ELSE 16 * g[i - 1] + HexDigit[s[i]]]
    <3> HIDE DEF g
    <3>1. \A i \in 0 .. 0 : i = 0 OBVIOUS
    <3> QED BY <3>1 DEF g
  <2>2. IsUpTo(g, s, m) BY <1>3, <2>1 DEF IsUpTo
  <2> QED BY <1>2, <2>2
<1>4. CASE m # 0
  <2>1. m \in Nat /\ m - 1 \in Nat /\ ~(m <= m - 1) BY <1>4
  <2>2. m - 1 \notin S BY <1>2, <2>1
  <2>3. PICK f : IsUpTo(f, s, m - 1) BY <2>1, <2>2
  <2>4. f[0] = 0 /\ \A i \in 1 .. m - 1 : f[i] = 16 * f[i - 1] + HexDigit[s[i]]
    BY <2>1, <2>3, UpToIs
  <2> DEFINE last == 16 * f[m - 1] + HexDigit[s[m]]
             g == [i \in 0 .. m |-> IF i < m THEN f[i] ELSE last]
             h == [i \in 0 .. m |-> IF i = 0 THEN 0 ELSE 16 * g[i - 1] + HexDigit[s[i]]]
  <2>5. \A i \in 0 .. m : g[i] = h[i]
    <3> TAKE i \in 0 .. m
    <3>1. CASE i = 0 BY <2>1, <2>4, <3>1
    <3>2. CASE i \in 1 .. m - 1
      <4>1. g[i - 1] = f[i - 1] /\ g[i] = f[i] BY <2>1, <3>2
      <4>2. f[i] = 16 * f[i - 1] + HexDigit[s[i]] BY <2>4, <3>2
      <4>3. h[i] = 16 * g[i - 1] + HexDigit[s[i]] BY <2>1, <3>2
      <4> HIDE DEF g, h
      <4> QED BY <4>1, <4>2, <4>3
    <3>3. CASE i = m
      <4>1. g[m - 1] = f[m - 1] /\ g[m] = last BY <2>1
      <4>2. h[m] = 16 * g[m - 1] + HexDigit[s[m]] BY <1>4, <2>1
      <4> HIDE DEF g, h
      <4> QED BY <3>3, <4>1, <4>2
    <3> QED BY <2>1, <3>1, <3>2, <3>3
  <2>6. g = h
    <3>1. g = [i \in 0 .. m |-> g[i]] /\ h = [i \in 0 .. m |-> h[i]] OBVIOUS
    <3> HIDE DEF g, h
    <3>2. [i \in 0 .. m |-> g[i]] = [i \in 0 .. m |-> h[i]] BY <2>5
    <3> QED BY <3>1, <3>2
  <2>7. IsUpTo(g, s, m)
    <3>1. IsUpTo(g, s, m) <=> g = h BY DEF IsUpTo
    <3> QED BY <2>6, <3>1
  <2> HIDE DEF g, h
  <2> QED BY <1>2, <2>7
<1> QED BY <1>3, <1>4

\* The value of a text of digits is a natural number.
LEMMA HexIsNat ==
  ASSUME NEW S, NEW s \in Seq(S), IsHex(s)
  PROVE  HexValue(s) \in Nat
<1> DEFINE n == Len(s)
           f == CHOOSE f : IsUpTo(f, s, n)
<1>1. n \in Nat /\ \A i \in 1 .. n : s[i] \in DOMAIN HexDigit BY DEF IsHex
<1>2. IsUpTo(f, s, n) BY <1>1, UpToExists
<1>3. HexValue(s) = f[n] BY DEF HexValue, IsUpTo
<1> HIDE DEF f
<1>4. f[0] = 0 /\ \A i \in 1 .. n : f[i] = 16 * f[i - 1] + HexDigit[s[i]]
  BY <1>1, <1>2, UpToIs
<1> DEFINE B == {i \in 0 .. n : f[i] \notin Nat}
<1>5. B = {}
  <2> SUFFICES ASSUME B # {} PROVE FALSE OBVIOUS
  <2>1. PICK m \in B : \A c \in B : m <= c
    <3>1. B \subseteq Nat OBVIOUS
    <3> HIDE DEF B
    <3> QED BY <3>1, LeastOf
  <2>2. m # 0 BY <1>4, <2>1
  <2>3. m \in 1 .. n /\ m - 1 \in 0 .. n /\ ~(m <= m - 1) BY <1>1, <2>1, <2>2
  <2>4. f[m - 1] \in Nat BY <2>1, <2>3
  <2>5. HexDigit[s[m]] \in Nat BY <1>1, <2>3, HttpAssumption
  <2>6. f[m] = 16 * f[m - 1] + HexDigit[s[m]] BY <1>4, <2>3
  <2>7. f[m] \in Nat BY <2>4, <2>5, <2>6
  <2> QED BY <2>1, <2>7
<1>6. n \in 0 .. n BY <1>1
<1> QED BY <1>3, <1>5, <1>6

\* The lengths that stay before the first extension of a size line.
Plain(line) == {n \in 0 .. Len(line) : \A i \in 1 .. n : line[i] # ";"}

\* One of them is the longest.
LEMMA LongestPlain ==
  ASSUME NEW line, Len(line) \in Nat
  PROVE  \E n \in Plain(line) : \A c \in Plain(line) : c <= n
<1> DEFINE B == {Len(line) - c : c \in Plain(line)}
<1>1. Plain(line) \subseteq 0 .. Len(line) /\ 0 \in Plain(line)
  <2>1. 0 \in 0 .. Len(line) /\ 1 .. 0 = {} OBVIOUS
  <2> QED BY <2>1 DEF Plain
<1>2. B \subseteq Nat /\ B # {}
  <2>1. \A c \in Plain(line) : Len(line) - c \in Nat
    <3> TAKE c \in Plain(line)
    <3>1. c \in 0 .. Len(line) BY <1>1
    <3> QED BY <3>1
  <2> QED BY <1>1, <2>1
<1>3. PICK x \in B : \A y \in B : x <= y
  <2> HIDE DEF B
  <2> QED BY <1>2, LeastOf
<1>4. PICK n \in Plain(line) : x = Len(line) - n BY <1>3
<1>5. \A c \in Plain(line) : c <= n
  <2> TAKE c \in Plain(line)
  <2>1. x <= Len(line) - c BY <1>3
  <2>2. c \in Nat /\ n \in Nat BY <1>1
  <2> QED BY <1>4, <2>1, <2>2
<1> QED BY <1>5

\* A size line up to its extensions is a text.
LEMMA SizeIsText ==
  ASSUME NEW S, NEW line \in Seq(S)
  PROVE  SizeText(line) \in Seq(S)
<1> DEFINE n == CHOOSE m \in Plain(line) : \A c \in Plain(line) : c <= m
<1>1. Len(line) \in Nat OBVIOUS
<1>2. n \in Plain(line) BY <1>1, LongestPlain
<1>3. SizeText(line) = SubSeq(line, 1, n) BY DEF SizeText, Plain
<1>4. n \in 0 .. Len(line) BY <1>2 DEF Plain
<1> HIDE DEF n
<1>5. \A i \in 1 .. n : line[i] \in S
  <2> TAKE i \in 1 .. n
  <2>1. i \in 1 .. Len(line) BY <1>1, <1>4
  <2> QED BY <2>1, ElementOfSeq
<1>6. SubSeq(line, 1, n) \in Seq(S)
  <2>1. 1 \in Int /\ n \in Int BY <1>4
  <2> QED BY <1>5, <2>1, SubSeqProperties
<1> QED BY <1>3, <1>6

\* The line that ends first.
LEMMA LineEndIs ==
  ASSUME NEW body, Len(body) \in Nat, NEW p \in Nat, LineEnds(body, p) # {}
  PROVE  /\ LineEnd(body, p) \in LineEnds(body, p)
         /\ \A j \in LineEnds(body, p) : LineEnd(body, p) <= j
         /\ LineEnd(body, p) \in p .. Len(body) - 1
<1>1. LineEnds(body, p) \subseteq Nat /\ LineEnds(body, p) \subseteq p .. Len(body) - 1
  BY DEF LineEnds
<1>2. \E i \in LineEnds(body, p) : \A j \in LineEnds(body, p) : i <= j BY <1>1, LeastOf
<1> QED BY <1>1, <1>2 DEF LineEnd

-------------------------------------------------------------------------------

\* What dechunk finds at position p: the text of a size, where the data begins, its size,
\* where the next chunk begins, and the data.
TextAt(body, p) == SizeText(SubSeq(body, p, LineEnd(body, p) - 1))
StartAt(body, p) == LineEnd(body, p) + 2
SizeAt(body, p) == HexValue(TextAt(body, p))
NextAt(body, p) == StartAt(body, p) + SizeAt(body, p) + 2
DataAt(body, p) == SubSeq(body, StartAt(body, p), StartAt(body, p) + SizeAt(body, p) - 1)

\* There is a chunk at p, and it is whole.
HasChunk(body, p) ==
  /\ LineEnds(body, p) # {} /\ IsHex(TextAt(body, p)) /\ SizeAt(body, p) # 0
  /\ ~ChunkCut(body, StartAt(body, p), SizeAt(body, p))

\* The end of the chunks.
AtEnd(body, p) == LineEnds(body, p) # {} /\ IsHex(TextAt(body, p)) /\ SizeAt(body, p) = 0

\* What dechunk makes of the rest from p on, others being what it makes of the next rest.
ThenRest(body, p, others) ==
  IF others.ok THEN Body(DataAt(body, p) \o others.bytes) ELSE BadResponse

FromAt(f, body, p) ==
  IF LineEnds(body, p) = {} THEN CutShort
  ELSE IF ~IsHex(TextAt(body, p)) THEN BadResponse
  ELSE IF SizeAt(body, p) = 0 THEN Body(<<>>)
  ELSE IF ChunkCut(body, StartAt(body, p), SizeAt(body, p)) THEN CutShort
  ELSE ThenRest(body, p, f[NextAt(body, p)])

\* dechunk refuses, or goes on, or is at the end.
LEMMA FromCases ==
  ASSUME NEW f, NEW body, NEW p
  PROVE  /\ HasChunk(body, p) => FromAt(f, body, p) = ThenRest(body, p, f[NextAt(body, p)])
         /\ AtEnd(body, p) => FromAt(f, body, p) = Body(<<>>)
         /\ ~HasChunk(body, p) /\ ~AtEnd(body, p) => FromAt(f, body, p) = BadResponse
<1>1. CASE LineEnds(body, p) = {} BY <1>1 DEF FromAt, HasChunk, AtEnd, CutShort
<1>2. CASE LineEnds(body, p) # {}
  <2>1. CASE ~IsHex(TextAt(body, p)) BY <1>2, <2>1 DEF FromAt, HasChunk, AtEnd
  <2>2. CASE IsHex(TextAt(body, p))
    <3>1. CASE SizeAt(body, p) = 0 BY <1>2, <2>2, <3>1 DEF FromAt, HasChunk, AtEnd
    <3>2. CASE SizeAt(body, p) # 0 BY <1>2, <2>2, <3>2 DEF FromAt, HasChunk, AtEnd, CutShort
    <3> QED BY <3>1, <3>2
  <2> QED BY <2>1, <2>2
<1> QED BY <1>1, <1>2

\* The next chunk is further on.
LEMMA NextIsOn ==
  ASSUME NEW S, NEW body \in Seq(S), NEW p \in 1 .. Len(body) + 1, HasChunk(body, p)
  PROVE  /\ SizeAt(body, p) \in Nat
         /\ LineEnd(body, p) \in p .. Len(body) - 1
         /\ NextAt(body, p) \in p + 1 .. Len(body) + 1
<1>1. Len(body) \in Nat /\ p \in Nat OBVIOUS
<1>2. LineEnd(body, p) \in p .. Len(body) - 1 BY <1>1, LineEndIs DEF HasChunk
<1>3. TextAt(body, p) \in Seq(S)
  <2> DEFINE e == LineEnd(body, p) - 1
  <2>1. e \in Int /\ e <= Len(body) BY <1>1, <1>2
  <2> HIDE DEF e
  <2>2. \A i \in p .. e : body[i] \in S BY <1>1, <2>1, ElementOfSeq
  <2>3. SubSeq(body, p, e) \in Seq(S) BY <1>1, <2>1, <2>2, SubSeqProperties
  <2> QED BY <2>3, SizeIsText DEF TextAt, e
<1>4. SizeAt(body, p) \in Nat BY <1>3, HexIsNat DEF HasChunk, SizeAt
<1>5. ~(Len(body) - StartAt(body, p) + 1 < SizeAt(body, p) + 2)
  BY DEF HasChunk, ChunkCut
<1> DEFINE size == SizeAt(body, p)
           e == LineEnd(body, p)
<1>6. StartAt(body, p) = e + 2 /\ NextAt(body, p) = StartAt(body, p) + size + 2
  BY DEF StartAt, NextAt
<1> HIDE DEF size, e
<1>7. NextAt(body, p) \in p + 1 .. Len(body) + 1
  BY <1>1, <1>2, <1>4, <1>5, <1>6 DEF size, e
<1> QED BY <1>2, <1>4, <1>7

\* What a position gives rests on the positions after it.
LEMMA FromReads ==
  ASSUME NEW S, NEW body \in Seq(S), NEW p \in 1 .. Len(body) + 1, NEW f, NEW g,
         \A i \in p + 1 .. Len(body) + 1 : f[i] = g[i]
  PROVE  FromAt(f, body, p) = FromAt(g, body, p)
<1>1. CASE HasChunk(body, p)
  <2>1. f[NextAt(body, p)] = g[NextAt(body, p)] BY <1>1, NextIsOn
  <2> QED BY <1>1, <2>1, FromCases
<1>2. CASE ~HasChunk(body, p)
  <2>1. CASE AtEnd(body, p) BY <2>1, FromCases
  <2>2. CASE ~AtEnd(body, p) BY <1>2, <2>2, FromCases
  <2> QED BY <2>1, <2>2
<1> QED BY <1>1, <1>2

\* The function that dechunk is, from position m on.
IsFrom(f, body, m) == f = [p \in m .. Len(body) + 1 |-> FromAt(f, body, p)]

\* What it gives, position by position.
LEMMA FromIs ==
  ASSUME NEW f, NEW body, NEW m, IsFrom(f, body, m)
  PROVE  \A p \in m .. Len(body) + 1 : f[p] = FromAt(f, body, p)
<1> DEFINE g == [p \in m .. Len(body) + 1 |-> FromAt(f, body, p)]
<1>1. f = g BY DEF IsFrom
<1>2. \A p \in m .. Len(body) + 1 : g[p] = FromAt(f, body, p) OBVIOUS
<1> HIDE DEF g
<1> QED BY <1>1, <1>2

\* One position more at its front.
LEMMA FromOneMore ==
  ASSUME NEW S, NEW body \in Seq(S), NEW m \in 1 .. Len(body) + 1, NEW f,
         \A p \in m + 1 .. Len(body) + 1 : f[p] = FromAt(f, body, p)
  PROVE  \E g : IsFrom(g, body, m)
<1> DEFINE L == Len(body) + 1
           first == FromAt(f, body, m)
           g == [p \in m .. L |-> IF p = m THEN first ELSE f[p]]
           h == [p \in m .. L |-> FromAt(g, body, p)]
<1>1. L \in Nat /\ m \in Nat /\ m <= L OBVIOUS
<1>2. g[m] = first /\ \A p \in m + 1 .. L : g[p] = f[p] BY <1>1
<1>3. \A p \in m .. L : h[p] = FromAt(g, body, p) OBVIOUS
<1>4. g = [p \in m .. L |-> g[p]] /\ h = [p \in m .. L |-> h[p]] OBVIOUS
<1> HIDE DEF g, h
<1>5. ASSUME NEW p \in m .. L
      PROVE  FromAt(f, body, p) = FromAt(g, body, p)
  <2>1. p \in 1 .. Len(body) + 1 BY <1>1 DEF L
  <2>2. \A i \in p + 1 .. Len(body) + 1 : f[i] = g[i]
    <3> TAKE i \in p + 1 .. Len(body) + 1
    <3>1. i \in m + 1 .. L BY <1>1 DEF L
    <3> QED BY <1>2, <3>1
  <2> QED BY <2>1, <2>2, FromReads
<1>6. \A p \in m .. L : g[p] = h[p]
  <2> TAKE p \in m .. L
  <2>1. FromAt(f, body, p) = h[p] BY <1>3, <1>5
  <2>2. CASE p = m BY <1>2, <2>1, <2>2 DEF first
  <2>3. CASE p # m
    <3>1. p \in m + 1 .. L BY <1>1, <2>3
    <3> QED BY <1>2, <2>1, <3>1 DEF L
  <2> QED BY <2>2, <2>3
<1>7. g = h
  <2>1. [p \in m .. L |-> g[p]] = [p \in m .. L |-> h[p]] BY <1>6
  <2> QED BY <1>4, <2>1
<1>8. h = [p \in m .. Len(body) + 1 |-> FromAt(g, body, p)] BY DEF h, L
<1> QED BY <1>7, <1>8 DEF IsFrom

\* There is one from the first byte on: the last position without one would be one before
\* a position with one.
LEMMA FromExists ==
  ASSUME NEW S, NEW body \in Seq(S)
  PROVE  \E f : IsFrom(f, body, 1)
<1> DEFINE L == Len(body)
           Has(c) == \E f : IsFrom(f, body, L + 1 - c)
           B == {c \in Nat : c <= L /\ ~Has(c)}
<1>1. L \in Nat OBVIOUS
<1>2. CASE B = {}
  <2>1. Has(L) BY <1>1, <1>2
  <2>2. L + 1 - L = 1 BY <1>1
  <2> QED BY <2>1, <2>2
<1>3. CASE B # {}
  <2>1. PICK c \in B : \A j \in B : c <= j
    <3>1. B \subseteq Nat OBVIOUS
    <3> HIDE DEF B
    <3> QED BY <1>3, <3>1, LeastOf
  <2>2. c \in Nat /\ c <= L /\ ~Has(c) BY <2>1
  <2> DEFINE m == L + 1 - c
  <2>3. m \in 1 .. L + 1 BY <1>1, <2>2
  <2>4. \E f : \A p \in m + 1 .. L + 1 : f[p] = FromAt(f, body, p)
    <3>1. CASE c = 0
      <4>1. m + 1 .. L + 1 = {} BY <1>1, <3>1
      <4> QED BY <4>1
    <3>2. CASE c # 0
      <4>1. c - 1 \in Nat /\ c - 1 <= L /\ ~(c <= c - 1) BY <2>2, <3>2
      <4>2. Has(c - 1)
        <5> HIDE DEF Has
        <5> QED BY <2>1, <4>1
      <4>3. PICK f : IsFrom(f, body, L + 1 - (c - 1)) BY <4>2
      <4>4. L + 1 - (c - 1) = m + 1 BY <1>1, <2>2
      <4>5. IsFrom(f, body, m + 1) BY <4>3, <4>4
      <4> QED BY <4>5, FromIs
    <3> QED BY <3>1, <3>2
  <2>5. \E g : IsFrom(g, body, m) BY <2>3, <2>4, FromOneMore
  <2> QED BY <2>2, <2>5
<1> QED BY <1>2, <1>3

\* What dechunk answers is what its function gives at the first byte.
LEMMA DechunkIs ==
  ASSUME NEW S, NEW body \in Seq(S)
  PROVE  \E f : IsFrom(f, body, 1) /\ Dechunk(body) = f[1]
<1> DEFINE f == CHOOSE f : IsFrom(f, body, 1)
<1>1. IsFrom(f, body, 1) BY FromExists
<1>2. Dechunk(body) = f[1]
  BY DEF Dechunk, IsFrom, FromAt, TextAt, StartAt, SizeAt, NextAt, DataAt, ThenRest
<1> QED BY <1>1, <1>2

-------------------------------------------------------------------------------
(* A body that is cut off *)

\* Within what is left, the two bodies read alike.
LEMMA CutReads ==
  ASSUME NEW S, NEW body \in Seq(S), NEW n \in 0 .. Len(body)
  PROVE  LET cut == SubSeq(body, 1, n) IN
           /\ cut \in Seq(S) /\ Len(cut) = n /\ \A i \in 1 .. n : cut[i] = body[i]
           /\ \A a \in Nat \ {0}, b \in Int : b <= n => SubSeq(cut, a, b) = SubSeq(body, a, b)
<1> DEFINE cut == SubSeq(body, 1, n)
<1>1. Len(body) \in Nat /\ n \in Nat /\ n <= Len(body) OBVIOUS
<1>2. \A i \in 1 .. Len(body) : body[i] \in S BY ElementOfSeq
<1>3. \A i \in 1 .. n : body[i] \in S BY <1>1, <1>2
<1>4. /\ cut \in Seq(S) /\ Len(cut) = IF 1 <= n THEN n - 1 + 1 ELSE 0
      /\ \A i \in 1 .. n - 1 + 1 : cut[i] = body[1 + i - 1]
  BY <1>1, <1>3, SubSeqProperties
<1>5. Len(cut) = n /\ \A i \in 1 .. n : cut[i] = body[i] BY <1>1, <1>4
<1> HIDE DEF cut
<1>6. ASSUME NEW a \in Nat \ {0}, NEW b \in Int, b <= n
      PROVE  SubSeq(cut, a, b) = SubSeq(body, a, b)
  <2>1. \A i \in a .. b : i \in 1 .. n BY <1>1, <1>6
  <2>2. \A i \in a .. b : body[i] \in S /\ cut[i] \in S BY <1>3, <1>5, <2>1
  <2> DEFINE s == SubSeq(cut, a, b)
             t == SubSeq(body, a, b)
  <2>3. /\ s \in Seq(S) /\ Len(s) = IF a <= b THEN b - a + 1 ELSE 0
        /\ \A i \in 1 .. b - a + 1 : s[i] = cut[a + i - 1]
    BY <2>2, SubSeqProperties
  <2>4. /\ t \in Seq(S) /\ Len(t) = IF a <= b THEN b - a + 1 ELSE 0
        /\ \A i \in 1 .. b - a + 1 : t[i] = body[a + i - 1]
    BY <2>2, SubSeqProperties
  <2> HIDE DEF s, t
  <2>5. \A i \in 1 .. Len(s) : s[i] = t[i]
    <3> TAKE i \in 1 .. Len(s)
    <3>1. i \in 1 .. b - a + 1 /\ a + i - 1 \in 1 .. n BY <1>1, <1>6, <2>3
    <3> QED BY <1>5, <2>3, <2>4, <3>1
  <2>6. s = t BY <2>3, <2>4, <2>5, SeqEqual
  <2> QED BY <2>6 DEF s, t
<1> QED BY <1>4, <1>5, <1>6 DEF cut

\* A line that ends in what is left ends there in the whole.
LEMMA CutLine ==
  ASSUME NEW S, NEW body \in Seq(S), NEW cut \in Seq(S), Len(cut) <= Len(body),
         \A i \in 1 .. Len(cut) : cut[i] = body[i],
         NEW p \in 1 .. Len(cut) + 1, LineEnds(cut, p) # {}
  PROVE  LineEnds(body, p) # {} /\ LineEnd(body, p) = LineEnd(cut, p)
<1>1. Len(cut) \in Nat /\ Len(body) \in Nat /\ p \in Nat /\ 1 <= p OBVIOUS
<1> DEFINE e == LineEnd(cut, p)
<1>2. /\ e \in LineEnds(cut, p) /\ \A j \in LineEnds(cut, p) : e <= j
      /\ e \in p .. Len(cut) - 1
  BY <1>1, LineEndIs
<1> HIDE DEF e
<1>3. \A i \in p .. Len(cut) - 1 : cut[i] = body[i] /\ cut[i + 1] = body[i + 1] BY <1>1
<1>4. e \in LineEnds(body, p) BY <1>1, <1>2, <1>3 DEF LineEnds
<1> DEFINE d == LineEnd(body, p)
<1>5. /\ d \in LineEnds(body, p) /\ \A j \in LineEnds(body, p) : d <= j
      /\ d \in p .. Len(body) - 1
  BY <1>1, <1>4, LineEndIs
<1> HIDE DEF d
<1>6. d <= e BY <1>4, <1>5
<1>7. d \in p .. Len(cut) - 1 BY <1>1, <1>2, <1>5, <1>6
<1>8. d \in LineEnds(cut, p) BY <1>3, <1>5, <1>7 DEF LineEnds
<1>9. e <= d BY <1>2, <1>8
<1>10. e = d BY <1>1, <1>2, <1>5, <1>6, <1>9
<1> QED BY <1>4, <1>10 DEF d, e

\* A chunk, or the end of them, that is there in what is left is the one of the whole.
LEMMA CutChunk ==
  ASSUME NEW S, NEW body \in Seq(S), NEW n \in 0 .. Len(body), NEW p \in 1 .. n + 1
  PROVE  LET cut == SubSeq(body, 1, n) IN
           /\ AtEnd(cut, p) => AtEnd(body, p)
           /\ HasChunk(cut, p) => /\ HasChunk(body, p)
                                  /\ NextAt(body, p) = NextAt(cut, p)
                                  /\ DataAt(body, p) = DataAt(cut, p)
<1> DEFINE cut == SubSeq(body, 1, n)
<1>1. Len(body) \in Nat /\ n \in Nat /\ n <= Len(body) /\ p \in Nat \ {0} OBVIOUS
<1>2. /\ cut \in Seq(S) /\ Len(cut) = n /\ \A i \in 1 .. n : cut[i] = body[i]
      /\ \A a \in Nat \ {0}, b \in Int : b <= n => SubSeq(cut, a, b) = SubSeq(body, a, b)
  BY CutReads
<1> HIDE DEF cut
<1>3. ASSUME LineEnds(cut, p) # {}
      PROVE  /\ LineEnds(body, p) # {} /\ LineEnd(body, p) = LineEnd(cut, p)
             /\ TextAt(body, p) = TextAt(cut, p) /\ SizeAt(body, p) = SizeAt(cut, p)
             /\ StartAt(body, p) = StartAt(cut, p)
  <2>1. LineEnds(body, p) # {} /\ LineEnd(body, p) = LineEnd(cut, p)
    BY <1>1, <1>2, <1>3, CutLine
  <2> DEFINE e == LineEnd(cut, p)
  <2>2. e \in p .. n - 1 BY <1>1, <1>2, <1>3, LineEndIs
  <2> HIDE DEF e
  <2>3. e - 1 \in Int /\ e - 1 <= n BY <1>1, <2>2
  <2>4. SubSeq(cut, p, e - 1) = SubSeq(body, p, e - 1) BY <1>1, <1>2, <2>3
  <2>5. TextAt(body, p) = TextAt(cut, p) BY <2>1, <2>4 DEF TextAt, e
  <2> QED BY <2>1, <2>5 DEF SizeAt, StartAt
<1>4. AtEnd(cut, p) => AtEnd(body, p) BY <1>3 DEF AtEnd
<1>5. ASSUME HasChunk(cut, p)
      PROVE  /\ HasChunk(body, p) /\ NextAt(body, p) = NextAt(cut, p)
             /\ DataAt(body, p) = DataAt(cut, p)
  <2>1. LineEnds(cut, p) # {} BY <1>5 DEF HasChunk
  <2>2. SizeAt(cut, p) \in Nat /\ LineEnd(cut, p) \in p .. n - 1
    BY <1>2, <1>5, NextIsOn
  <2>3. NextAt(body, p) = NextAt(cut, p) BY <1>3, <2>1 DEF NextAt
  <2> DEFINE start == StartAt(cut, p)
             size == SizeAt(cut, p)
  <2>4. start \in Nat \ {0}
    <3>1. start = LineEnd(cut, p) + 2 BY DEF StartAt
    <3> HIDE DEF start
    <3> QED BY <1>1, <2>2, <3>1
  <2>5. ~(n - start + 1 < size + 2) BY <1>2, <1>5 DEF HasChunk, ChunkCut
  <2> HIDE DEF start, size
  <2>6. size \in Nat BY <2>2 DEF size
  <2>7. ~(Len(body) - start + 1 < size + 2) BY <1>1, <2>4, <2>5, <2>6
  <2>8. start + size - 1 \in Int /\ start + size - 1 <= n BY <1>1, <2>4, <2>5, <2>6
  <2>9. SubSeq(cut, start, start + size - 1) = SubSeq(body, start, start + size - 1)
    BY <1>2, <2>4, <2>8
  <2>10. DataAt(body, p) = DataAt(cut, p) BY <1>3, <2>1, <2>9 DEF DataAt, start, size
  <2>11. ~ChunkCut(body, StartAt(body, p), SizeAt(body, p))
    BY <1>3, <2>1, <2>7 DEF ChunkCut, start, size
  <2>12. HasChunk(body, p) BY <1>3, <1>5, <2>1, <2>11 DEF HasChunk
  <2> QED BY <2>3, <2>10, <2>12
<1> QED BY <1>4, <1>5 DEF cut

\* A chunked body cut off anywhere is refused, or dechunks to the very same
\* (recorder.rs:256-279).
LEMMA CutWhole ==
  ASSUME NEW S, NEW body \in Seq(S), NEW n \in 0 .. Len(body),
         Dechunk(SubSeq(body, 1, n)).ok
  PROVE  Dechunk(SubSeq(body, 1, n)) = Dechunk(body)
<1> DEFINE cut == SubSeq(body, 1, n)
<1>1. Len(body) \in Nat /\ n \in Nat /\ n <= Len(body) OBVIOUS
<1>2. cut \in Seq(S) /\ Len(cut) = n BY CutReads
<1>3. PICK f : IsFrom(f, cut, 1) /\ Dechunk(cut) = f[1] BY <1>2, DechunkIs
<1>4. PICK g : IsFrom(g, body, 1) /\ Dechunk(body) = g[1] BY DechunkIs
<1>5. \A p \in 1 .. n + 1 : f[p] = FromAt(f, cut, p) BY <1>2, <1>3, FromIs
<1>6. \A p \in 1 .. n + 1 : g[p] = FromAt(g, body, p)
  <2>1. \A p \in 1 .. Len(body) + 1 : g[p] = FromAt(g, body, p) BY <1>4, FromIs
  <2> QED BY <1>1, <2>1
<1>7. \A p \in 1 .. n + 1 :
        /\ AtEnd(cut, p) => AtEnd(body, p)
        /\ HasChunk(cut, p) => /\ HasChunk(body, p)
                               /\ NextAt(body, p) = NextAt(cut, p)
                               /\ DataAt(body, p) = DataAt(cut, p)
  BY CutChunk
<1>8. \A p \in 1 .. n + 1 : HasChunk(cut, p) => NextAt(cut, p) \in p + 1 .. n + 1
  BY <1>2, NextIsOn
<1> HIDE DEF cut
<1> DEFINE Same(p) == f[p].ok => f[p] = g[p]
           B == {c \in Nat : c <= n /\ ~Same(n + 1 - c)}
<1>9. ASSUME NEW p \in 1 .. n + 1, \A r \in p + 1 .. n + 1 : Same(r)
      PROVE  Same(p)
  <2>1. CASE HasChunk(cut, p)
    <3> DEFINE r == NextAt(cut, p)
    <3>1. r \in p + 1 .. n + 1 /\ NextAt(body, p) = r BY <1>7, <1>8, <2>1
    <3>2. Same(r) BY <1>9, <3>1
    <3>3. f[p] = ThenRest(cut, p, f[r]) BY <1>5, <2>1, FromCases
    <3>4. g[p] = ThenRest(body, p, g[r]) BY <1>6, <1>7, <2>1, <3>1, FromCases
    <3>5. DataAt(body, p) = DataAt(cut, p) BY <1>7, <2>1
    <3> HIDE DEF r
    <3>6. CASE f[r].ok
      <4>1. f[r] = g[r] BY <3>2, <3>6
      <4>2. ThenRest(cut, p, f[r]) = ThenRest(body, p, g[r]) BY <3>5, <4>1 DEF ThenRest
      <4> QED BY <3>3, <3>4, <4>2
    <3>7. CASE ~f[r].ok
      <4>1. f[p] = BadResponse BY <3>3, <3>7 DEF ThenRest
      <4>2. ~f[p].ok BY <4>1 DEF BadResponse
      <4> QED BY <4>2
    <3> QED BY <3>6, <3>7
  <2>2. CASE AtEnd(cut, p)
    <3>1. f[p] = Body(<<>>) BY <1>5, <2>2, FromCases
    <3>2. g[p] = Body(<<>>) BY <1>6, <1>7, <2>2, FromCases
    <3> QED BY <3>1, <3>2
  <2>3. CASE ~HasChunk(cut, p) /\ ~AtEnd(cut, p)
    <3>1. f[p] = BadResponse BY <1>5, <2>3, FromCases
    <3>2. ~f[p].ok BY <3>1 DEF BadResponse
    <3> QED BY <3>2
  <2> QED BY <2>1, <2>2, <2>3
<1> HIDE DEF Same
<1>10. B = {}
  <2> SUFFICES ASSUME B # {} PROVE FALSE OBVIOUS
  <2>1. PICK c \in B : \A j \in B : c <= j
    <3>1. B \subseteq Nat OBVIOUS
    <3> HIDE DEF B
    <3> QED BY <3>1, LeastOf
  <2> DEFINE p == n + 1 - c
  <2>2. c \in Nat /\ c <= n /\ ~Same(p) BY <2>1
  <2>3. p \in 1 .. n + 1 BY <1>1, <2>2
  <2>4. \A r \in p + 1 .. n + 1 : Same(r)
    <3> TAKE r \in p + 1 .. n + 1
    <3> DEFINE j == n + 1 - r
    <3>1. j \in Nat /\ j <= n /\ ~(c <= j) /\ n + 1 - j = r BY <1>1, <2>2
    <3> HIDE DEF j
    <3>2. j \notin B BY <2>1, <3>1
    <3>3. Same(n + 1 - j) BY <3>1, <3>2
    <3> QED BY <3>1, <3>3
  <2>5. Same(p)
    <3> HIDE DEF p
    <3> QED BY <1>9, <2>3, <2>4
  <2> QED BY <2>2, <2>5
<1>11. Same(1)
  <2>1. n \in Nat /\ n <= n /\ n + 1 - n = 1 BY <1>1
  <2>2. n \notin B BY <1>10
  <2>3. Same(n + 1 - n) BY <2>1, <2>2
  <2> QED BY <2>1, <2>3
<1>12. f[1].ok => f[1] = g[1] BY <1>11 DEF Same
<1> QED BY <1>3, <1>4, <1>12 DEF cut

-------------------------------------------------------------------------------
(* The parts together *)

OfflineInv ==
  /\ program \in Program /\ input \in Inputs(program)
  /\ SynInv /\ BinInv /\ SvcInv

\* Whichever part runs, all of them begin as they were created.
LEMMA OfflineStarts == ASSUME OfflineInit PROVE OfflineInv
BY BinStarts, SvcStarts DEF OfflineInit, OfflineInv

\* A step of the generator's run or of the service benchmark's, or none.
LEMMA OfflineSteps ==
  ASSUME OfflineInv, [OfflineNext]_offlineVars
  PROVE  /\ OfflineInv'
         /\ [AllTouch(sim.out, sim'.out)]_genVars
         /\ [cellDepth' = cellDepth /\ (gap # <<>> => gap' = <<>>)]_serviceVars
<1>1. CASE UNCHANGED offlineVars
  <2>1. /\ UNCHANGED <<program, input>> /\ UNCHANGED genVars /\ UNCHANGED binVars
        /\ UNCHANGED serviceVars
    BY <1>1 DEF offlineVars
  <2>2. SynInv' BY <2>1 DEF OfflineInv, SynInv, genVars
  <2>3. BinInv' BY <2>1 DEF OfflineInv, BinInv, genVars, binVars
  <2>4. SvcInv' BY <2>1 DEF OfflineInv, SvcInv, serviceVars
  <2>5. program' \in Program /\ input' \in Inputs(program') BY <2>1 DEF OfflineInv
  <2> QED BY <2>1, <2>2, <2>3, <2>4, <2>5 DEF OfflineInv, Inputs
<1>2. CASE program = "gen" /\ WriteCorpus /\ UNCHANGED serviceVars /\ UNCHANGED <<program, input>>
  <2>1. SynInv' /\ BinInv' /\ AllTouch(sim.out, sim'.out) BY <1>2, BinSteps DEF OfflineInv
  <2>2. SvcInv' BY <1>2 DEF OfflineInv, SvcInv, serviceVars
  <2>3. program' \in Program /\ input' \in Inputs(program') BY <1>2 DEF OfflineInv
  <2> QED BY <1>2, <2>1, <2>2, <2>3 DEF OfflineInv, Inputs
<1>3. CASE program = "service" /\ ServiceNext /\ UNCHANGED writeVars /\ UNCHANGED <<program, input>>
  <2>1. UNCHANGED genVars /\ UNCHANGED binVars BY <1>3 DEF writeVars
  <2>2. SynInv' BY <2>1 DEF OfflineInv, SynInv, genVars
  <2>3. BinInv' BY <2>1 DEF OfflineInv, BinInv, genVars, binVars
  <2>4. SvcInv' /\ cellDepth' = cellDepth /\ (gap # <<>> => gap' = <<>>)
    BY <1>3, SvcSteps DEF OfflineInv
  <2>5. program' \in Program /\ input' \in Inputs(program') BY <1>3 DEF OfflineInv
  <2> QED BY <2>1, <2>2, <2>3, <2>4, <2>5 DEF OfflineInv, Inputs
<1> QED BY <1>1, <1>2, <1>3 DEF OfflineNext

\* The invariant is one of the specification.
LEMMA OfflineHolds == OfflineSpec => []OfflineInv
<1>1. OfflineInit => OfflineInv BY OfflineStarts
<1>2. OfflineInv /\ [OfflineNext]_offlineVars => OfflineInv' BY OfflineSteps
<1> QED BY <1>1, <1>2, PTL DEF OfflineSpec

\* The stream has as many events as were asked for when the generator is done, never
\* more, and its replay is the ladder the generator aims by (synthetic.rs:54-55, 73-74).
THEOREM StreamWhole == OfflineSpec => []StreamIsLadder
<1>1. OfflineInv => StreamIsLadder BY SoundStream DEF OfflineInv
<1> QED BY <1>1, OfflineHolds, PTL

\* The book of the stream is never crossed, and in a band that holds edge churn and the
\* recovery no level leaves it (synthetic.rs:45, 193, 241-264).
THEOREM PricesHold == OfflineSpec => []PricesInPlace
<1>1. OfflineInv => PricesInPlace BY SoundPrices DEF OfflineInv
<1> QED BY <1>1, OfflineHolds, PTL

\* A trade prints at the best price of the book the stream has built when it prints
\* (synthetic.rs:223-238, 319-330).
THEOREM TradesPrintAtTouch == OfflineSpec => TradesAtTouch
<1>1. OfflineInv /\ [OfflineNext]_offlineVars =>
        [\A i \in Len(sim.out) + 1 .. Len(sim'.out) :
           LET ev == sim'.out[i]
               taken == Replay(SubSeq(sim'.out, 1, i - 1))[Opposite(ev.side)]
           IN ev.kind = "Trade" =>
                /\ ev.px \in DOMAIN taken
                /\ \A p \in DOMAIN taken \ {ev.px} :
                     Better(Opposite(ev.side), ev.px, p)]_genVars
  BY OfflineSteps, SoundTrades
<1> QED BY <1>1, OfflineHolds, PTL DEF OfflineSpec, TradesAtTouch

\* Sidecar, corpus and stream tell the same wherever the program was stopped, and every
\* event of a corpus that loads goes through a ring record unchanged, if the byte counts
\* fit the header's integer and the values an i64 (gen.rs:89-92, pack.rs:26-73).
THEOREM FilesTruthful == (CorporaFit /\ ValuesFit) => (OfflineSpec => []WrittenTruthfully)
<1> SUFFICES ASSUME CorporaFit, ValuesFit PROVE OfflineSpec => []WrittenTruthfully
  OBVIOUS
<1>1. OfflineInv => WrittenTruthfully BY WrittenTrue DEF OfflineInv
<1> QED BY <1>1, OfflineHolds, PTL

\* Every sample of a cell is taken at the cell's depth, whichever way its book was built
\* (workload.rs:52-53, service.rs:6-12).
THEOREM DepthHeld == OfflineSpec => []LadderHeld
<1>1. OfflineInv => LadderHeld BY HeldLadder DEF OfflineInv
<1> QED BY <1>1, OfflineHolds, PTL

\* What is timed as an insert adds a level, as a remove takes one away, and as an update
\* or a trade does neither (service.rs:6-13, workload.rs:108-110).
THEOREM TimedAsNamed == OfflineSpec => TimesWhatItNames
<1>1. OfflineInv /\ OfflineInv' /\ [OfflineNext]_offlineVars =>
        [\A side \in Side :
           LET before == Cardinality(DOMAIN ladder[side])
               after == Cardinality(DOMAIN ladder'[side])
           IN CASE gap = <<>> /\ gap' # <<>> -> after - before = IF side = gap'[1] THEN 1 ELSE 0
                [] gap # <<>> -> before - after = IF side = gap[1] THEN 1 ELSE 0
                [] OTHER -> DOMAIN ladder'[side] = DOMAIN ladder[side]]_serviceVars
  BY OfflineSteps, NamedSteps DEF OfflineInv
<1> QED BY <1>1, OfflineHolds, PTL DEF OfflineSpec, TimesWhatItNames

\* A corpus with one of its fields changed, or its end moved, is refused unless each byte
\* that the checks read is one that was written for the events it loads, if it was that
\* of a stream of events (corpus.rs:167-254).
THEOREM LoadsLoudly == (Originals \subseteq Seq(AnyEvent)) => (OfflineSpec => []FailsLoudly)
<1> SUFFICES ASSUME Originals \subseteq Seq(AnyEvent) PROVE OfflineSpec => []FailsLoudly
  OBVIOUS
<1>1. OfflineInv => FailsLoudly
  <2> SUFFICES ASSUME OfflineInv, program = "load", FromBytes(input).ok PROVE FailsLoudly
    BY DEF FailsLoudly
  <2>1. input \in UNION {Damaged(Encode(events)) : events \in Originals}
    BY DEF OfflineInv, Inputs
  <2>2. PICK events \in Originals : input \in Damaged(Encode(events)) BY <2>1
  <2>3. events \in Seq(AnyEvent) BY <2>2
  <2>4. IsFile(input) BY <2>2, <2>3, DamagedIs
  <2> QED BY <2>4, LoadsWritten DEF FailsLoudly
<1> QED BY <1>1, OfflineHolds, PTL

\* Every variable has its type: no counter of a loop falls below zero, an emitted quantity
\* is never negative, and that of the service loops is odd (synthetic.rs:110-202,
\* service.rs:61-67).
THEOREM OfflineTypes == OfflineSpec => []OfflineTypeOK
<1>1. OfflineInv => OfflineTypeOK
  <2> SUFFICES ASSUME OfflineInv PROVE OfflineTypeOK OBVIOUS
  <2>1. /\ program \in Program /\ cfg \in Configs
        /\ phase \in {"new", "seed", "flow", "calm", "burst", "sweep", "recover", "done"}
        /\ left \in Nat /\ k \in Nat
    BY DEF OfflineInv, SynInv
  <2>2. ASSUME NEW i \in DOMAIN sim.out
        PROVE  sim.out[i].kind \in {"Level", "Trade", "Clear"} /\ sim.out[i].qty \in Nat
    <3>1. sim.out \in Seq(Emitted(cfg)) BY DEF OfflineInv, SynInv, SimSound
    <3>2. sim.out[i] \in Emitted(cfg) BY <2>2, <3>1, ElementOfSeq
    <3>3. sim.out[i] \in AnyEvent /\ sim.out[i].qty \in 0 .. LargestOf(cfg)
      BY <3>2 DEF Emitted
    <3>4. LargestOf(cfg) \in Nat BY <2>1, Configured
    <3> QED BY <3>3, <3>4
         DEF AnyEvent, AnyLevel, AnyTrade, LevelEvent, TradeEvent, ClearEvent
  <2>3. /\ stage \in {"generate", "save", "write", "describe", "describing", "written"}
        /\ meta \in {<<>>, OldMeta, <<cfg>>}
    BY DEF OfflineInv, BinInv
  <2>4. /\ cellDepth \in Depths /\ op \in Op /\ q \in {n \in 1 .. QtyMod : n % 2 = 1}
        /\ gap # <<>> => op \in {"insert", "remove"}
    BY DEF OfflineInv, SvcInv
  <2>5. gap # <<>> => gap[1] \in Side /\ gap[2] \in Int
    <3> SUFFICES ASSUME gap # <<>> PROVE gap[1] \in Side /\ gap[2] \in Int OBVIOUS
    <3>1. PICK side \in Side, off \in TouchOffset(cellDepth) :
            gap = <<side, GapPrice(TouchPrice(side, off), side)>>
      BY DEF OfflineInv, SvcInv, IsGap
    <3>2. cellDepth \in Nat BY <2>4, WorkloadAssumption
    <3>3. GapPrice(TouchPrice(side, off), side) \in Int BY <3>2, TouchIsRung
    <3> DEFINE px == GapPrice(TouchPrice(side, off), side)
    <3> HIDE DEF px
    <3>4. gap = <<side, px>> /\ px \in Int BY <3>1, <3>3 DEF px
    <3> QED BY <3>4
  <2> QED BY <2>1, <2>2, <2>3, <2>4, <2>5 DEF OfflineTypeOK
<1> QED BY <1>1, OfflineHolds, PTL

\* A chunked answer cut off anywhere is never taken for a shorter one: it is refused, or
\* gives the whole payload (recorder.rs:231-279).
THEOREM FetchedHolds == OfflineSpec => []FetchedWhole
<1>1. OfflineInv => FetchedWhole
  <2> SUFFICES ASSUME OfflineInv, program = "fetch", ParseHttpBody(input).ok
               PROVE  ParseHttpBody(input).bytes = input.payload
    BY DEF FetchedWhole, WholeOrRefused
  <2>1. PICK c \in Chunkings : input \in Responses(c[1], c[2]) BY DEF OfflineInv, Inputs
  <2>2. c[1] \in Seq(STRING) /\ Dechunk(c[1]) = Body(c[2]) BY ChunkingsAssumption
  <2>3. input.payload = c[2] BY <2>1 DEF Responses
  <2>4. CASE input.chunked
    <3>1. PICK n \in 0 .. Len(c[1]) : input.body = SubSeq(c[1], 1, n)
      BY <2>1, <2>4 DEF Responses
    <3>2. ParseHttpBody(input) = Dechunk(SubSeq(c[1], 1, n))
      BY <2>4, <3>1 DEF ParseHttpBody, BadResponse
    <3>3. ParseHttpBody(input) = Body(c[2]) BY <2>2, <3>2, CutWhole
    <3> QED BY <2>3, <3>3 DEF Body
  <2>5. CASE ~input.chunked
    <3>1. input.body = c[2] BY <2>1, <2>5 DEF Responses
    <3>2. ParseHttpBody(input) = Body(input.body)
      BY <2>5 DEF ParseHttpBody, BadResponse
    <3> QED BY <2>3, <3>1, <3>2 DEF Body
  <2> QED BY <2>4, <2>5
<1> QED BY <1>1, OfflineHolds, PTL

\* The date of each day is the day after that of the day before by the calendar, for every
\* number of days, and day zero is the first of January 1970 (recorder.rs:605-624).
THEOREM DatesHold == OfflineSpec => []DatesCount
<1>1. OfflineInv => DatesCount
  <2> SUFFICES ASSUME OfflineInv, program = "date" PROVE CountsDays(input) BY DEF DatesCount
  <2>1. input \in Spans BY DEF OfflineInv, Inputs
  <2>2. \A z \in input : z \in Int BY <2>1, OfflineAssumption
  <2>3. \A z \in input : CivilFromDays(z + 1) = NextDay(CivilFromDays(z)) BY <2>2, DaysCount
  <2> QED BY <2>3, Epoch DEF CountsDays
<1> QED BY <1>1, OfflineHolds, PTL
===============================================================================
