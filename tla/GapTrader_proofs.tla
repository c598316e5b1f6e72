--------------------------- MODULE GapTrader_proofs ---------------------------
(***************************************************************************)
(* Proofs about the gap-up trader: its types, that a session watches what  *)
(* the account comes to once its orders are filled, and that one half of a *)
(* position is sold once.                                                  *)
(***************************************************************************)
EXTENDS GapTrader, TLAPS

\* The groups of variables are used as the variables they are.
USE DEF gtAccount, gtWatch

-----------------------------------------------------------------------------
(* What the account's acceptance of an order does, slot by slot.           *)

\* The account sells no more than it holds, and stays within the bound.
Covered ==
    \A s \in Symbols :
        gtSelling[s] <= gtHeld[s] /\ gtHeld[s] + gtBuying[s] <= MaxHeld

\* The order's quantity is bought or sold from now on.
LEMMA AcceptAccount ==
  ASSUME GapTypeOK, Covered, NEW k \in Sessions, NEW o \in Orders,
         NEW left \in Shares, NEW blurs \in BOOLEAN, Accept(k, o, left, blurs)
  PROVE  /\ gtHeld' = gtHeld
         /\ gtBuying' \in [Symbols -> Shares]
         /\ gtSelling' \in [Symbols -> Shares]
         /\ Covered'
         /\ \A s \in Symbols \ {o.sym} :
               gtBuying'[s] = gtBuying[s] /\ gtSelling'[s] = gtSelling[s]
         /\ o.side = "sell" => /\ gtBuying'[o.sym] = gtBuying[o.sym]
                               /\ gtSelling'[o.sym] = gtSelling[o.sym] + o.qty
         /\ o.side = "buy" => /\ gtBuying'[o.sym] = gtBuying[o.sym] + o.qty
                              /\ gtSelling'[o.sym] = gtSelling[o.sym]
  <1> DEFINE b == IF o.side = "buy" THEN gtBuying[o.sym] + o.qty
                                    ELSE gtBuying[o.sym]
             n == IF o.side = "sell" THEN gtSelling[o.sym] + o.qty
                                     ELSE gtSelling[o.sym]
  <1>1. /\ o.sym \in Symbols /\ o.qty \in Shares /\ o.side \in {"buy", "sell"}
        /\ gtHeld[o.sym] \in Shares /\ gtBuying[o.sym] \in Shares
        /\ gtSelling[o.sym] \in Shares
    BY DEF GapTypeOK, Orders
  <1>2. /\ gtHeld' = gtHeld
        /\ gtBuying' = [gtBuying EXCEPT ![o.sym] = b]
        /\ gtSelling' = [gtSelling EXCEPT ![o.sym] = n]
    BY DEF Accept
  <1>3. /\ gtSelling[o.sym] <= gtHeld[o.sym]
        /\ gtHeld[o.sym] + gtBuying[o.sym] <= MaxHeld
    BY <1>1 DEF Covered
  <1>4. /\ b \in Shares /\ n \in Shares
        /\ n <= gtHeld[o.sym] /\ gtHeld[o.sym] + b <= MaxHeld
    BY <1>1, <1>3, GapBoundsAssumption DEF Shares, Accept
  <1>5. /\ o.side = "sell" => b = gtBuying[o.sym] /\ n = gtSelling[o.sym] + o.qty
        /\ o.side = "buy" => b = gtBuying[o.sym] + o.qty /\ n = gtSelling[o.sym]
    OBVIOUS
  <1> HIDE DEF b, n
  <1>6. /\ gtBuying' \in [Symbols -> Shares] /\ gtSelling' \in [Symbols -> Shares]
        /\ gtBuying'[o.sym] = b /\ gtSelling'[o.sym] = n
        /\ \A s \in Symbols \ {o.sym} :
              gtBuying'[s] = gtBuying[s] /\ gtSelling'[s] = gtSelling[s]
    BY <1>1, <1>2, <1>4 DEF GapTypeOK
  <1>7. Covered'
    BY <1>1, <1>2, <1>4, <1>6 DEF Covered
  <1> QED BY <1>2, <1>5, <1>6, <1>7

\* A session is out of step afterwards if it was, if it is concerned in the
\* symbol that another traded, or if it says so.
LEMMA AcceptBlur ==
  ASSUME GapTypeOK, NEW k \in Sessions, NEW o \in Orders, NEW left \in Shares,
         NEW blurs \in BOOLEAN, Accept(k, o, left, blurs)
  PROVE  /\ gtBlur' \in [Sessions -> [Symbols -> BOOLEAN]]
         /\ \A j \in Sessions, s \in Symbols \ {o.sym} :
               gtBlur'[j][s] = gtBlur[j][s]
         /\ \A j \in Sessions \ {k} :
               gtBlur'[j][o.sym] = (gtBlur[j][o.sym] \/ Concerned(j, o.sym))
         /\ gtBlur'[k][o.sym] = (left > 0 /\ (gtBlur[k][o.sym] \/ blurs))
  <1> DEFINE b(j) == IF j = k THEN left > 0 /\ (gtBlur[j][o.sym] \/ blurs)
                     ELSE gtBlur[j][o.sym] \/ Concerned(j, o.sym)
  <1>1. o.sym \in Symbols
    BY DEF Orders
  <1>2. \A j \in Sessions : b(j) \in BOOLEAN
    BY <1>1 DEF GapTypeOK, Concerned
  <1>3. gtBlur' = [j \in Sessions |-> [gtBlur[j] EXCEPT ![o.sym] = b(j)]]
    BY DEF Accept
  <1>4. b(k) = (left > 0 /\ (gtBlur[k][o.sym] \/ blurs))
    OBVIOUS
  <1>5. \A j \in Sessions \ {k} :
           b(j) = (gtBlur[j][o.sym] \/ Concerned(j, o.sym))
    OBVIOUS
  <1> HIDE DEF b
  <1>6. \A j \in Sessions : gtBlur[j] \in [Symbols -> BOOLEAN]
    BY DEF GapTypeOK
  <1>7. \A j \in Sessions : gtBlur'[j] = [gtBlur[j] EXCEPT ![o.sym] = b(j)]
    BY <1>3
  <1>8. \A j \in Sessions : gtBlur'[j][o.sym] = b(j)
    BY <1>1, <1>6, <1>7
  <1>9. \A j \in Sessions, s \in Symbols \ {o.sym} :
           gtBlur'[j][s] = gtBlur[j][s]
    BY <1>6, <1>7
  <1>10. gtBlur' \in [Sessions -> [Symbols -> BOOLEAN]]
    BY <1>1, <1>2, <1>3, <1>6
  <1> QED BY <1>4, <1>5, <1>8, <1>9, <1>10

\* Only the half of a first take-profit counts, and only for a session that
\* is in step; a position that is closed counts from nothing.
LEMMA AcceptHalves ==
  ASSUME GapTypeOK, HalfSoldOnce, NEW k \in Sessions, NEW o \in Orders,
         NEW left \in Shares, NEW blurs \in BOOLEAN, Accept(k, o, left, blurs),
         o.tp1 /\ ~gtBlur[k][o.sym] /\ ~blurs => gtHalves[k][o.sym] = 0
  PROVE  /\ gtHalves' \in [Sessions -> [Symbols -> Shares]]
         /\ \A j \in Sessions, s \in Symbols :
               j # k \/ s # o.sym => gtHalves'[j][s] = gtHalves[j][s]
         /\ gtHalves'[k][o.sym] <= 1
         /\ left = 0 => gtHalves'[k][o.sym] = 0
         /\ blurs \/ ~o.tp1 \/ gtBlur[k][o.sym] =>
               gtHalves'[k][o.sym] \in {0, gtHalves[k][o.sym]}
  <1> DEFINE n == IF left = 0 THEN 0
                  ELSE IF o.tp1 /\ ~gtBlur[k][o.sym] /\ ~blurs
                         THEN gtHalves[k][o.sym] + 1
                  ELSE gtHalves[k][o.sym]
  <1>1. o.sym \in Symbols
    BY DEF Orders
  <1>2. gtHalves[k][o.sym] \in Shares /\ gtHalves[k][o.sym] <= 1
    BY <1>1 DEF GapTypeOK, HalfSoldOnce
  <1>3. n \in Shares /\ n <= 1
    BY <1>2, GapBoundsAssumption DEF Shares
  <1>4. gtHalves' = [gtHalves EXCEPT ![k][o.sym] = n]
    BY DEF Accept
  <1>5. (left = 0 => n = 0)
        /\ (blurs \/ ~o.tp1 \/ gtBlur[k][o.sym] => n \in {0, gtHalves[k][o.sym]})
    OBVIOUS
  <1> HIDE DEF n
  <1>6. gtHalves \in [Sessions -> [Symbols -> Shares]]
    BY DEF GapTypeOK
  <1>7. gtHalves'[k][o.sym] = n
    BY <1>1, <1>4, <1>6
  <1> QED BY <1>1, <1>3, <1>4, <1>5, <1>6, <1>7

-----------------------------------------------------------------------------
(* The inductive invariant.                                                *)

\* A first take-profit is a sale of a position that had none.
OrderIsFirst ==
    \A k \in Sessions : gtPc[k] = "order" /\ gtOrder[k].tp1 =>
        gtOrder[k].side = "sell" /\ ~gtTp1[k][gtOrder[k].sym]

\* A half that was sold in step is on record.
HalfOnRecord ==
    \A k \in Sessions, s \in Symbols :
        gtHalves[k][s] >= 1 /\ ~gtBlur[k][s] => gtTp1[k][s]

\* What is not watched has no half.
NoneUnwatched ==
    \A k \in Sessions, s \in Symbols : gtQty[k][s] = 0 => gtHalves[k][s] = 0

\* What a session is about to register is what the account comes to, unless
\* the session is out of step; it does nothing else meanwhile.
SeenIsExpected ==
    \A k \in Sessions, s \in Symbols : gtSeen[k][s] > 0 =>
        gtPc[k] = "sync" /\ (~gtBlur[k][s] => gtSeen[k][s] = Expected(s))

GapInv == /\ GapTypeOK /\ WatchedIsExpected /\ HalfSoldOnce
          /\ OrderIsFirst /\ HalfOnRecord /\ NoneUnwatched
          /\ Covered /\ SeenIsExpected

LEMMA NoOrderTyped == NoOrder \in Orders
  BY GapSymbolsAssumption, GapBoundsAssumption DEF NoOrder, Orders, Shares

LEMMA InitGap == GapInit => GapInv
  <1> SUFFICES ASSUME GapInit PROVE GapInv
    OBVIOUS
  <1>1. GapTypeOK
    BY NoOrderTyped, GapBoundsAssumption DEF GapInit, GapTypeOK, Shares
  <1>2. Covered
    BY GapBoundsAssumption DEF GapInit, Covered, Shares
  <1>3. /\ WatchedIsExpected /\ HalfSoldOnce /\ OrderIsFirst /\ HalfOnRecord
        /\ NoneUnwatched /\ SeenIsExpected
    BY DEF GapInit, WatchedIsExpected, HalfSoldOnce, OrderIsFirst, HalfOnRecord,
       NoneUnwatched, SeenIsExpected
  <1> QED BY <1>1, <1>2, <1>3 DEF GapInv

-----------------------------------------------------------------------------
(* The jobs: they touch no share, and place orders of the right kind.      *)

gapBook == <<gtHeld, gtBuying, gtSelling, gtQty, gtTp1, gtBlur, gtHalves>>

\* A step that leaves account and positions alone keeps the invariant when
\* it keeps the types and what is said of orders and of the balance read.
LEMMA BookKept ==
  ASSUME GapInv, GapTypeOK', OrderIsFirst', SeenIsExpected', UNCHANGED gapBook
  PROVE  GapInv'
  BY DEF GapInv, gapBook, WatchedIsExpected, Expected, HalfSoldOnce,
         HalfOnRecord, NoneUnwatched, Covered

\* A step of a session that is not in the middle of a sync.
LEMMA SeenKept ==
  ASSUME GapInv, NEW k \in Sessions, gtPc[k] # "sync",
         \A j \in Sessions \ {k} : gtPc'[j] = gtPc[j],
         UNCHANGED <<gapBook, gtSeen>>
  PROVE  SeenIsExpected'
  BY DEF GapInv, gapBook, SeenIsExpected, Expected

LEMMA LeaveTyped ==
  ASSUME GapTypeOK, NEW k \in Sessions, NEW todo \in SUBSET Symbols,
         NEW job \in {"none", "check", "buy", "sell"}, RestOfJob(k, todo, job)
  PROVE  /\ gtTodo' \in [Sessions -> SUBSET Symbols]
         /\ gtJob' \in [Sessions -> {"none", "check", "buy", "sell"}]
  BY DEF GapTypeOK, RestOfJob

LEMMA ContinueTyped ==
  ASSUME GapTypeOK, NEW k \in Sessions, NEW todo \in SUBSET Symbols,
         NEW job \in {"none", "check", "buy", "sell"}, Continue(k, todo, job)
  PROVE  /\ gtTodo' \in [Sessions -> SUBSET Symbols]
         /\ gtPc' \in [Sessions -> {"idle", "sync", "loop", "order"}]
         /\ gtJob' \in [Sessions -> {"none", "check", "buy", "sell"}]
         /\ gtPc'[k] # "order"
         /\ \A j \in Sessions \ {k} : gtPc'[j] = gtPc[j]
  BY DEF GapTypeOK, Continue, RestOfJob

LEMMA PlaceTyped ==
  ASSUME GapTypeOK, NEW k \in Sessions, NEW o \in Orders, Place(k, o)
  PROVE  /\ gtOrder' \in [Sessions -> Orders]
         /\ gtPc' \in [Sessions -> {"idle", "sync", "loop", "order"}]
         /\ gtOrder'[k] = o
         /\ \A j \in Sessions \ {k} : gtPc'[j] = gtPc[j] /\ gtOrder'[j] = gtOrder[j]
  BY DEF GapTypeOK, Place

\* Going on with a job keeps the invariant.
LEMMA ContinueKeeps ==
  ASSUME GapInv, NEW k \in Sessions, NEW todo \in SUBSET Symbols,
         NEW job \in {"none", "check", "buy", "sell"}, Continue(k, todo, job),
         gtPc[k] # "sync", UNCHANGED <<gapBook, gtTrades, gtSeen, gtOrder, gtTry>>
  PROVE  GapInv'
  <1>1. GapTypeOK /\ OrderIsFirst
    BY DEF GapInv
  <1>2. GapTypeOK'
    BY <1>1, ContinueTyped DEF GapTypeOK, gapBook
  <1>3. OrderIsFirst'
    BY <1>1, ContinueTyped DEF OrderIsFirst, gapBook
  <1>4. SeenIsExpected'
    BY <1>1, ContinueTyped, SeenKept
  <1> QED BY <1>2, <1>3, <1>4, BookKept

\* Placing an order keeps it, if a first take-profit is one.
LEMMA PlaceKeeps ==
  ASSUME GapInv, NEW k \in Sessions, NEW o \in Orders, Place(k, o),
         o.tp1 => o.side = "sell" /\ ~gtTp1[k][o.sym],
         gtTodo' \in [Sessions -> SUBSET Symbols],
         gtJob' \in [Sessions -> {"none", "check", "buy", "sell"}],
         gtPc[k] # "sync", UNCHANGED <<gapBook, gtTrades, gtSeen, gtTry>>
  PROVE  GapInv'
  <1>1. GapTypeOK /\ OrderIsFirst
    BY DEF GapInv
  <1>2. GapTypeOK'
    BY <1>1, PlaceTyped DEF GapTypeOK, gapBook
  <1>3. OrderIsFirst'
    BY <1>1, PlaceTyped DEF OrderIsFirst, gapBook
  <1>4. SeenIsExpected'
    BY <1>1, PlaceTyped, SeenKept
  <1> QED BY <1>2, <1>3, <1>4, BookKept

LEMMA StepJobs ==
  ASSUME GapInv, NEW k \in Sessions,
         \/ StartJob(k) \/ BuyNext(k) \/ CheckNext(k) \/ SellNext(k)
         \/ \E s \in Symbols : ManualOrder(k, s)
  PROVE  GapInv'
  <1>0. /\ GapTypeOK
        /\ gtTodo \in [Sessions -> SUBSET Symbols]
        /\ \A s \in Symbols : gtQty[k][s] \in Shares
    BY DEF GapInv, GapTypeOK
  <1>h. \A n \in Shares : Half(n) \in Shares
    BY GapBoundsAssumption DEF Half, Shares
  <1>1. \A s \in Symbols :
          [side |-> "buy", sym |-> s, qty |-> 1, tp1 |-> FALSE] \in Orders
    BY GapBoundsAssumption DEF Orders, Shares
  <1>2. \A s \in Symbols, n \in Shares, half \in BOOLEAN :
          [side |-> "sell", sym |-> s, qty |-> n, tp1 |-> half] \in Orders
    BY DEF Orders
  <1>3. CASE StartJob(k)
    <2>1. CASE \E c \in SUBSET Symbols : Continue(k, c, "buy")
      BY <1>3, <2>1, ContinueKeeps DEF StartJob, gapBook
    <2>2. CASE Continue(k, OpenOf(k), "sell")
      BY <1>3, <2>2, ContinueKeeps DEF StartJob, gapBook, OpenOf
    <2> QED BY <1>3, <2>1, <2>2 DEF StartJob
  <1>4. CASE BuyNext(k)
    <2>1. CASE Continue(k, {}, "buy") /\ UNCHANGED gtOrder
      BY <1>4, <2>1, ContinueKeeps DEF BuyNext, gapBook
    <2>2. ASSUME NEW s \in gtTodo[k], UNCHANGED gtOrder,
                 Continue(k, gtTodo[k] \ {s}, "buy")
          PROVE  GapInv'
      BY <1>0, <1>4, <2>2, ContinueKeeps DEF BuyNext, gapBook
    <2>3. ASSUME NEW s \in gtTodo[k], RestOfJob(k, gtTodo[k] \ {s}, "buy"),
                 Place(k, [side |-> "buy", sym |-> s, qty |-> 1, tp1 |-> FALSE])
          PROVE  GapInv'
      <3> DEFINE o == [side |-> "buy", sym |-> s, qty |-> 1, tp1 |-> FALSE]
      <3>1. o \in Orders /\ ~o.tp1
        BY <1>0, <1>1, <2>3
      <3>2. /\ gtTodo' \in [Sessions -> SUBSET Symbols]
            /\ gtJob' \in [Sessions -> {"none", "check", "buy", "sell"}]
        BY <1>0, <2>3, LeaveTyped
      <3> QED BY <1>4, <2>3, <3>1, <3>2, PlaceKeeps DEF BuyNext, gapBook
    <2> QED BY <1>4, <2>1, <2>2, <2>3 DEF BuyNext
  <1>5. CASE CheckNext(k)
    <2> DEFINE sale(s, n, half) ==
                 [side |-> "sell", sym |-> s, qty |-> n, tp1 |-> half]
    <2>1. PICK s \in gtTodo[k] :
            \/ Continue(k, gtTodo[k] \ {s}, "check") /\ UNCHANGED gtOrder
            \/ /\ RestOfJob(k, gtTodo[k] \ {s}, "check")
               /\ \/ Place(k, sale(s, gtQty[k][s], FALSE))
                  \/ ~gtTp1[k][s] /\ Place(k, sale(s, Half(gtQty[k][s]), TRUE))
                  \/ Place(k, sale(s, Half(gtQty[k][s]), FALSE))
      BY <1>5 DEF CheckNext, HalfAllowed
    <2>2. CASE Continue(k, gtTodo[k] \ {s}, "check") /\ UNCHANGED gtOrder
      BY <1>0, <1>5, <2>2, ContinueKeeps DEF CheckNext, gapBook
    <2>3. s \in Symbols
      BY <1>0
    <2>4. ASSUME NEW n \in Shares, NEW half \in BOOLEAN, half => ~gtTp1[k][s],
                 RestOfJob(k, gtTodo[k] \ {s}, "check"), Place(k, sale(s, n, half))
          PROVE  GapInv'
      <3> DEFINE o == sale(s, n, half)
      <3>1. o \in Orders /\ (o.tp1 => o.side = "sell" /\ ~gtTp1[k][o.sym])
        BY <1>2, <2>3, <2>4
      <3>2. /\ gtTodo' \in [Sessions -> SUBSET Symbols]
            /\ gtJob' \in [Sessions -> {"none", "check", "buy", "sell"}]
        BY <1>0, <2>4, LeaveTyped
      <3> QED BY <1>5, <2>4, <3>1, <3>2, PlaceKeeps DEF CheckNext, gapBook
    <2> HIDE DEF sale
    <2> QED BY <1>0, <1>h, <2>1, <2>2, <2>3, <2>4
  <1>6. CASE SellNext(k)
    <2>1. PICK s \in gtTodo[k] :
            /\ RestOfJob(k, gtTodo[k] \ {s}, "sell")
            /\ Place(k, [side |-> "sell", sym |-> s, qty |-> gtQty[k][s],
                         tp1 |-> FALSE])
      BY <1>6 DEF SellNext
    <2> DEFINE o == [side |-> "sell", sym |-> s, qty |-> gtQty[k][s],
                     tp1 |-> FALSE]
    <2>2. o \in Orders /\ ~o.tp1
      BY <1>0, <1>2
    <2>3. /\ gtTodo' \in [Sessions -> SUBSET Symbols]
          /\ gtJob' \in [Sessions -> {"none", "check", "buy", "sell"}]
      BY <1>0, <2>1, LeaveTyped
    <2> QED BY <1>6, <2>1, <2>2, <2>3, PlaceKeeps DEF SellNext, gapBook
  <1>7. ASSUME NEW s \in Symbols, ManualOrder(k, s) PROVE GapInv'
    <2>1. /\ gtPc[k] # "sync"
          /\ UNCHANGED <<gapBook, gtTrades, gtSeen, gtTry, gtJob, gtTodo>>
      BY <1>7 DEF ManualOrder, gapBook
    <2>0. /\ gtTodo' \in [Sessions -> SUBSET Symbols]
          /\ gtJob' \in [Sessions -> {"none", "check", "buy", "sell"}]
      BY <1>0, <2>1 DEF GapTypeOK
    <2>2. CASE Place(k, [side |-> "buy", sym |-> s, qty |-> 1, tp1 |-> FALSE])
      <3> DEFINE o == [side |-> "buy", sym |-> s, qty |-> 1, tp1 |-> FALSE]
      <3>1. o \in Orders /\ ~o.tp1
        BY <1>1
      <3> QED BY <2>0, <2>1, <2>2, <3>1, PlaceKeeps
    <2>3. ASSUME NEW n \in 1 .. gtQty[k][s],
                 Place(k, [side |-> "sell", sym |-> s, qty |-> n, tp1 |-> FALSE])
          PROVE  GapInv'
      <3> DEFINE o == [side |-> "sell", sym |-> s, qty |-> n, tp1 |-> FALSE]
      <3>1. n \in Shares
        BY <1>0, GapBoundsAssumption DEF Shares
      <3>2. o \in Orders /\ ~o.tp1
        BY <1>2, <3>1
      <3> QED BY <2>0, <2>1, <2>3, <3>2, PlaceKeeps
    <2> QED BY <1>7, <2>2, <2>3 DEF ManualOrder
  <1> QED BY <1>3, <1>4, <1>5, <1>6, <1>7

-----------------------------------------------------------------------------
(* The exit check: what it finds is watched afresh.                        *)

\* A balance read when no order works is what the account comes to.
LEMMA StepReadBalance ==
  ASSUME GapInv, NEW k \in Sessions, ReadBalance(k)
  PROVE  GapInv'
  <1>1. PICK read \in BOOLEAN :
          LET found == {s \in Symbols : read /\ gtHeld[s] > 0 /\ s \notin OpenOf(k)}
          IN
          /\ gtSeen' = [gtSeen EXCEPT ![k] = [s \in Symbols |->
                           IF s \in found THEN gtHeld[s] ELSE 0]]
          /\ gtBlur' = [gtBlur EXCEPT ![k] = [s \in Symbols |->
                           IF s \in found THEN Working(s) ELSE gtBlur[k][s]]]
    BY DEF ReadBalance
  <1> DEFINE found == {s \in Symbols : read /\ gtHeld[s] > 0 /\ s \notin OpenOf(k)}
             seen == [s \in Symbols |-> IF s \in found THEN gtHeld[s] ELSE 0]
             blur == [s \in Symbols |->
                        IF s \in found THEN Working(s) ELSE gtBlur[k][s]]
  <1>2. /\ GapTypeOK /\ WatchedIsExpected /\ HalfSoldOnce /\ OrderIsFirst
        /\ HalfOnRecord /\ NoneUnwatched /\ Covered /\ SeenIsExpected
    BY DEF GapInv
  <1>3. /\ gtSeen' = [gtSeen EXCEPT ![k] = seen]
        /\ gtBlur' = [gtBlur EXCEPT ![k] = blur]
        /\ gtPc' = [gtPc EXCEPT ![k] = "sync"]
        /\ UNCHANGED <<gtHeld, gtBuying, gtSelling, gtQty, gtTp1, gtTrades,
                       gtHalves, gtJob, gtTodo, gtOrder, gtTry>>
    BY <1>1 DEF ReadBalance
  <1>4. found \subseteq Symbols /\ \A s \in found : gtQty[k][s] = 0
    BY <1>2 DEF OpenOf, GapTypeOK, Shares
  <1>5. /\ \A s \in found : seen[s] = gtHeld[s]
        /\ \A s \in Symbols \ found : seen[s] = 0
        /\ \A s \in found : blur[s] = Working(s)
        /\ \A s \in Symbols \ found : blur[s] = gtBlur[k][s]
    BY <1>4
  <1>6. seen \in [Symbols -> Shares]
    BY <1>2, GapBoundsAssumption DEF GapTypeOK, Shares
  <1>7. blur \in [Symbols -> BOOLEAN]
    <2>1. \A s \in Symbols : Working(s) \in BOOLEAN /\ gtBlur[k][s] \in BOOLEAN
      BY <1>2 DEF GapTypeOK, Working
    <2> QED BY <2>1
  <1> HIDE DEF found, seen, blur
  <1>8. /\ gtSeen'[k] = seen /\ gtBlur'[k] = blur /\ gtPc'[k] = "sync"
        /\ \A j \in Sessions \ {k} :
              gtSeen'[j] = gtSeen[j] /\ gtBlur'[j] = gtBlur[j] /\ gtPc'[j] = gtPc[j]
    BY <1>2, <1>3 DEF GapTypeOK
  <1>9. GapTypeOK'
    BY <1>2, <1>3, <1>6, <1>7 DEF GapTypeOK
  <1>10. WatchedIsExpected'
    <2>1. \A s \in Symbols : gtQty[k][s] > 0 /\ ~gtBlur'[k][s] => ~gtBlur[k][s]
      BY <1>4, <1>5, <1>8
    <2> QED BY <1>2, <1>3, <1>8, <2>1 DEF WatchedIsExpected, Expected
  <1>11. HalfOnRecord'
    <2>1. \A s \in Symbols :
             gtHalves[k][s] >= 1 /\ ~gtBlur'[k][s] => ~gtBlur[k][s]
      BY <1>2, <1>4, <1>5, <1>8 DEF NoneUnwatched
    <2> QED BY <1>2, <1>3, <1>8, <2>1 DEF HalfOnRecord
  <1>12. SeenIsExpected'
    <2>1. ASSUME NEW s \in Symbols, seen[s] > 0, ~blur[s]
          PROVE  seen[s] = Expected(s)
      <3>1. s \in found /\ seen[s] = gtHeld[s]
        BY <1>5, <2>1
      <3>2. ~Working(s)
        BY <1>5, <2>1, <3>1, Zenon
      <3>3. /\ gtBuying[s] \in Shares /\ gtSelling[s] \in Shares
            /\ gtHeld[s] \in Shares
        BY <1>2 DEF GapTypeOK
      <3>4. gtBuying[s] = 0 /\ gtSelling[s] = 0
        BY <3>2, <3>3, GapBoundsAssumption DEF Working, Shares
      <3> QED BY <3>1, <3>3, <3>4 DEF Expected, Shares
    <2> QED BY <1>2, <1>3, <1>8, <2>1 DEF SeenIsExpected, Expected
  <1>13. HalfSoldOnce' /\ NoneUnwatched' /\ Covered'
    BY <1>2, <1>3 DEF HalfSoldOnce, NoneUnwatched, Covered
  <1>14. OrderIsFirst'
    BY <1>2, <1>3, <1>8 DEF OrderIsFirst
  <1> QED BY <1>9, <1>10, <1>11, <1>12, <1>13, <1>14 DEF GapInv

LEMMA StepRegisterFound ==
  ASSUME GapInv, NEW k \in Sessions, RegisterFound(k)
  PROVE  GapInv'
  <1> DEFINE found == {s \in Symbols : gtSeen[k][s] > 0}
             qty == [s \in Symbols |->
                       IF s \in found THEN gtSeen[k][s] ELSE gtQty[k][s]]
             none == [s \in Symbols |-> 0]
  <1>1. /\ GapTypeOK /\ WatchedIsExpected /\ HalfSoldOnce /\ OrderIsFirst
        /\ HalfOnRecord /\ NoneUnwatched /\ Covered /\ SeenIsExpected
    BY DEF GapInv
  <1>2. /\ gtQty' = [gtQty EXCEPT ![k] = qty]
        /\ gtSeen' = [gtSeen EXCEPT ![k] = none]
        /\ Continue(k, OpenOf(k) \cup found, "check")
        /\ UNCHANGED <<gtHeld, gtBuying, gtSelling, gtTp1, gtTrades, gtBlur,
                       gtHalves, gtOrder, gtTry>>
    BY DEF RegisterFound
  <1>3. OpenOf(k) \cup found \in SUBSET Symbols
    BY DEF OpenOf
  <1>4. \A s \in Symbols : gtSeen[k][s] \in Shares /\ gtQty[k][s] \in Shares
    BY <1>1 DEF GapTypeOK
  <1>5. /\ qty \in [Symbols -> Shares]
        /\ \A s \in Symbols : gtSeen[k][s] > 0 => qty[s] = gtSeen[k][s]
        /\ \A s \in Symbols : ~(gtSeen[k][s] > 0) => qty[s] = gtQty[k][s]
    BY <1>4
  <1>6. none \in [Symbols -> Shares] /\ \A s \in Symbols : none[s] = 0
    BY GapBoundsAssumption DEF Shares
  <1> HIDE DEF found, qty, none
  <1>7. /\ gtQty'[k] = qty /\ gtSeen'[k] = none
        /\ \A j \in Sessions \ {k} : gtQty'[j] = gtQty[j] /\ gtSeen'[j] = gtSeen[j]
    BY <1>1, <1>2 DEF GapTypeOK
  <1>8. /\ gtTodo' \in [Sessions -> SUBSET Symbols]
        /\ gtPc' \in [Sessions -> {"idle", "sync", "loop", "order"}]
        /\ gtJob' \in [Sessions -> {"none", "check", "buy", "sell"}]
        /\ gtPc'[k] # "order"
        /\ \A j \in Sessions \ {k} : gtPc'[j] = gtPc[j]
    BY <1>1, <1>2, <1>3, ContinueTyped
  <1>9. GapTypeOK'
    BY <1>1, <1>2, <1>5, <1>6, <1>8 DEF GapTypeOK
  <1>10. WatchedIsExpected'
    <2>1. ASSUME NEW s \in Symbols, qty[s] > 0, ~gtBlur[k][s]
          PROVE  qty[s] = Expected(s)
      <3>1. CASE gtSeen[k][s] > 0
        BY <1>1, <1>5, <2>1, <3>1 DEF SeenIsExpected
      <3>2. CASE ~(gtSeen[k][s] > 0)
        BY <1>1, <1>5, <2>1, <3>2 DEF WatchedIsExpected
      <3> QED BY <3>1, <3>2
    <2> QED BY <1>1, <1>2, <1>7, <2>1 DEF WatchedIsExpected, Expected
  <1>11. SeenIsExpected'
    BY <1>1, <1>2, <1>6, <1>7, <1>8 DEF SeenIsExpected, Expected
  <1>12. NoneUnwatched'
    <2>1. \A s \in Symbols : qty[s] = 0 => gtQty[k][s] = 0
      BY <1>4, <1>5
    <2> QED BY <1>1, <1>2, <1>7, <2>1 DEF NoneUnwatched
  <1>13. HalfSoldOnce' /\ HalfOnRecord' /\ Covered'
    BY <1>1, <1>2 DEF HalfSoldOnce, HalfOnRecord, Covered
  <1>14. OrderIsFirst'
    BY <1>1, <1>2, <1>8 DEF OrderIsFirst
  <1> QED BY <1>9, <1>10, <1>11, <1>12, <1>13, <1>14 DEF GapInv

-----------------------------------------------------------------------------
(* The answer of the broker.                                               *)

LEMMA OrderDoneTyped ==
  ASSUME GapTypeOK, NEW k \in Sessions, OrderDone(k)
  PROVE  /\ gtOrder' \in [Sessions -> Orders]
         /\ gtTry' \in [Sessions -> 0 .. MaxRetries]
         /\ gtTodo' \in [Sessions -> SUBSET Symbols]
         /\ gtPc' \in [Sessions -> {"idle", "sync", "loop", "order"}]
         /\ gtJob' \in [Sessions -> {"none", "check", "buy", "sell"}]
         /\ gtPc'[k] # "order"
         /\ \A j \in Sessions \ {k} :
               gtPc'[j] = gtPc[j] /\ gtOrder'[j] = gtOrder[j]
  <1>1. gtTodo[k] \in SUBSET Symbols
        /\ gtJob[k] \in {"none", "check", "buy", "sell"}
    BY DEF GapTypeOK
  <1>2. Continue(k, gtTodo[k], gtJob[k])
    BY DEF OrderDone
  <1>3. /\ gtOrder' = [gtOrder EXCEPT ![k] = NoOrder]
        /\ gtTry' = [gtTry EXCEPT ![k] = 0]
    BY DEF OrderDone
  <1>4. gtOrder' \in [Sessions -> Orders] /\ gtTry' \in [Sessions -> 0 .. MaxRetries]
    BY <1>3, NoOrderTyped, GapBoundsAssumption DEF GapTypeOK
  <1>5. \A j \in Sessions \ {k} : gtOrder'[j] = gtOrder[j]
    BY <1>3 DEF GapTypeOK
  <1> QED BY <1>1, <1>2, <1>4, <1>5, ContinueTyped

LEMMA StepAccepted ==
  ASSUME GapInv, NEW k \in Sessions, GapAccepted(k)
  PROVE  GapInv'
  <1>0. PICK o \in Orders : o = gtOrder[k]
    BY DEF GapInv, GapTypeOK
  <1> DEFINE x == o.sym
             left == IF o.side = "buy" THEN Registered(k, o) ELSE Remaining(k, o)
             opens == o.side = "buy" /\ gtQty[k][x] = 0
             more == o.side = "buy" /\ Expected(x) > 0
             tp1 == ~opens /\ left > 0 /\ (gtTp1[k][x] \/ o.tp1)
             trades == IF o.side = "sell" /\ gtTrades[k] < MaxTrades
                         THEN gtTrades[k] + 1 ELSE gtTrades[k]
  <1>1. /\ GapTypeOK /\ WatchedIsExpected /\ HalfSoldOnce /\ OrderIsFirst
        /\ HalfOnRecord /\ NoneUnwatched /\ Covered /\ SeenIsExpected
    BY DEF GapInv
  <1>2. /\ o \in Orders /\ x \in Symbols /\ o.qty \in Shares
        /\ o.side \in {"buy", "sell"} /\ o.tp1 \in BOOLEAN
    BY <1>1 DEF GapTypeOK, Orders
  <1>3. gtQty[k][x] \in Shares /\ gtHalves[k][x] \in Shares
    BY <1>1, <1>2 DEF GapTypeOK
  <1>e. Expected(x) \in Int /\ Expected(x) >= 0
    <2>1. /\ gtHeld[x] \in Int /\ gtBuying[x] \in Nat /\ gtSelling[x] \in Int
          /\ gtSelling[x] <= gtHeld[x]
      BY <1>1, <1>2 DEF GapTypeOK, Covered, Shares
    <2> QED BY <2>1 DEF Expected
  <1>4. left \in Shares /\ more \in BOOLEAN /\ tp1 \in BOOLEAN
    BY <1>2, <1>3, GapBoundsAssumption DEF Registered, Remaining, Shares
  <1>5. trades \in 0 .. MaxTrades
    BY <1>1, GapBoundsAssumption DEF GapTypeOK
  <1>6. /\ gtPc[k] = "order"
        /\ Accept(k, o, left, more)
        /\ gtQty' = [gtQty EXCEPT ![k][x] = left]
        /\ gtTp1' = [gtTp1 EXCEPT ![k][x] = tp1]
        /\ gtTrades' = [gtTrades EXCEPT ![k] = trades]
        /\ OrderDone(k)
        /\ gtSeen' = gtSeen
    BY <1>0, <1>1, <1>2 DEF GapAccepted, GapTypeOK
  <1>7. o.tp1 => o.side = "sell" /\ ~gtTp1[k][x]
    BY <1>0, <1>1, <1>6 DEF OrderIsFirst
  <1>8. o.tp1 /\ ~gtBlur[k][x] => gtHalves[k][x] = 0
    BY <1>1, <1>2, <1>3, <1>7 DEF HalfOnRecord, Shares
  <1>9. o.side = "buy" => left = (IF gtQty[k][x] > 0 THEN gtQty[k][x] ELSE o.qty)
    BY DEF Registered
  <1>10. o.side = "sell" =>
           left = (IF o.qty >= gtQty[k][x] THEN 0 ELSE gtQty[k][x] - o.qty)
    BY DEF Remaining
  <1>11. ~opens /\ left > 0 => (tp1 <=> gtTp1[k][x] \/ o.tp1)
    OBVIOUS
  <1>12. opens => ~tp1
    OBVIOUS
  <1>m. o.side = "buy" /\ ~more => ~(Expected(x) > 0)
    OBVIOUS
  <1> HIDE DEF left, tp1, trades, more
  <1> HIDE DEF x
  <1>13. GapTypeOK'
    <2>1. gtQty' \in [Sessions -> [Symbols -> Shares]]
      BY <1>1, <1>2, <1>4, <1>6 DEF GapTypeOK
    <2>2. gtTp1' \in [Sessions -> [Symbols -> BOOLEAN]]
      BY <1>1, <1>2, <1>4, <1>6 DEF GapTypeOK
    <2>3. gtTrades' \in [Sessions -> 0 .. MaxTrades]
      BY <1>1, <1>5, <1>6 DEF GapTypeOK
    <2>4. /\ gtHeld' \in [Symbols -> Shares] /\ gtBuying' \in [Symbols -> Shares]
          /\ gtSelling' \in [Symbols -> Shares]
      BY <1>1, <1>2, <1>4, <1>6, AcceptAccount DEF GapTypeOK
    <2>5. gtBlur' \in [Sessions -> [Symbols -> BOOLEAN]]
      BY <1>1, <1>2, <1>4, <1>6, AcceptBlur
    <2>6. gtHalves' \in [Sessions -> [Symbols -> Shares]]
      BY <1>1, <1>2, <1>4, <1>6, <1>8, AcceptHalves DEF x
    <2> QED BY <1>1, <1>6, <2>1, <2>2, <2>3, <2>4, <2>5, <2>6, OrderDoneTyped
            DEF GapTypeOK
  <1>14. /\ gtQty'[k][x] = left /\ gtTp1'[k][x] = tp1
         /\ \A j \in Sessions, s \in Symbols : j # k \/ s # x =>
               gtQty'[j][s] = gtQty[j][s] /\ gtTp1'[j][s] = gtTp1[j][s]
    BY <1>1, <1>2, <1>6 DEF GapTypeOK
  <1>15. /\ \A s \in Symbols \ {x} : Expected(s)' = Expected(s)
         /\ o.side = "sell" => Expected(x)' = Expected(x) - o.qty
         /\ o.side = "buy" => Expected(x)' = Expected(x) + o.qty
         /\ Covered'
    <2>1. /\ gtHeld' = gtHeld
          /\ Covered'
          /\ \A s \in Symbols \ {x} :
                gtBuying'[s] = gtBuying[s] /\ gtSelling'[s] = gtSelling[s]
          /\ o.side = "sell" => /\ gtBuying'[x] = gtBuying[x]
                                /\ gtSelling'[x] = gtSelling[x] + o.qty
          /\ o.side = "buy" => /\ gtBuying'[x] = gtBuying[x] + o.qty
                               /\ gtSelling'[x] = gtSelling[x]
      BY <1>1, <1>2, <1>4, <1>6, AcceptAccount DEF x
    <2>2. /\ gtHeld[x] \in Int /\ gtBuying[x] \in Int /\ gtSelling[x] \in Int
          /\ o.qty \in Int
      BY <1>1, <1>2 DEF GapTypeOK, Shares
    <2>3. \A s \in Symbols \ {x} : Expected(s)' = Expected(s)
      BY <2>1 DEF Expected
    <2>4. o.side = "sell" => Expected(x)' = Expected(x) - o.qty
      BY <2>1, <2>2 DEF Expected
    <2>5. o.side = "buy" => Expected(x)' = Expected(x) + o.qty
      BY <2>1, <2>2 DEF Expected
    <2> QED BY <2>1, <2>3, <2>4, <2>5
  <1>16. /\ \A j \in Sessions, s \in Symbols \ {x} : gtBlur'[j][s] = gtBlur[j][s]
         /\ \A j \in Sessions \ {k} :
               gtBlur'[j][x] = (gtBlur[j][x] \/ Concerned(j, x))
         /\ gtBlur'[k][x] = (left > 0 /\ (gtBlur[k][x] \/ more))
    BY <1>1, <1>2, <1>4, <1>6, AcceptBlur DEF x
  <1>17. /\ \A j \in Sessions, s \in Symbols :
              j # k \/ s # x => gtHalves'[j][s] = gtHalves[j][s]
         /\ gtHalves'[k][x] <= 1
         /\ left = 0 => gtHalves'[k][x] = 0
         /\ ~o.tp1 \/ gtBlur[k][x] => gtHalves'[k][x] \in {0, gtHalves[k][x]}
    BY <1>1, <1>2, <1>4, <1>6, <1>8, AcceptHalves DEF x
  <1>18. WatchedIsExpected'
    <2>1. gtQty'[k][x] > 0 /\ ~gtBlur'[k][x] => gtQty'[k][x] = Expected(x)'
      <3> SUFFICES ASSUME gtQty'[k][x] > 0, ~gtBlur'[k][x]
                   PROVE  gtQty'[k][x] = Expected(x)'
        OBVIOUS
      <3>1. left > 0 /\ ~gtBlur[k][x] /\ ~more
        BY <1>14, <1>16
      <3>2. gtQty[k][x] > 0 => gtQty[k][x] = Expected(x)
        BY <1>1, <1>2, <3>1 DEF WatchedIsExpected
      <3>3. CASE o.side = "buy"
        BY <1>2, <1>3, <1>e, <1>m, <1>9, <1>14, <1>15, <3>1, <3>2, <3>3 DEF Shares
      <3>4. CASE o.side = "sell"
        BY <1>2, <1>3, <1>e, <1>10, <1>14, <1>15, <3>1, <3>2, <3>4 DEF Shares
      <3> QED BY <1>2, <3>3, <3>4
    <2>2. \A j \in Sessions \ {k} : gtQty'[j][x] > 0 => gtBlur'[j][x]
      BY <1>2, <1>14, <1>16 DEF Concerned
    <2>3. \A j \in Sessions, s \in Symbols \ {x} :
             gtQty'[j][s] > 0 /\ ~gtBlur'[j][s] => gtQty'[j][s] = Expected(s)'
      BY <1>1, <1>14, <1>15, <1>16 DEF WatchedIsExpected
    <2>4. \A j \in Sessions, s \in Symbols :
             gtQty'[j][s] > 0 /\ ~gtBlur'[j][s] => gtQty'[j][s] = Expected(s)'
      <3> SUFFICES ASSUME NEW j \in Sessions, NEW s \in Symbols,
                          gtQty'[j][s] > 0, ~gtBlur'[j][s]
                   PROVE  gtQty'[j][s] = Expected(s)'
        OBVIOUS
      <3>1. CASE s = x /\ j = k
        <4>1. gtQty'[k][x] > 0 /\ ~gtBlur'[k][x]
          BY <3>1, Zenon
        <4>2. gtQty'[k][x] = Expected(x)'
          BY <2>1, <4>1
        <4> QED BY <3>1, <4>2 DEF Expected
      <3>2. CASE s = x /\ j # k
        BY <2>2, <3>2
      <3>3. CASE s # x
        BY <2>3, <3>3
      <3> QED BY <3>1, <3>2, <3>3
    <2> QED BY <2>4 DEF WatchedIsExpected
  <1>23. SeenIsExpected'
    <2>1. \A s \in Symbols : ~(gtSeen[k][s] > 0)
      BY <1>1, <1>6 DEF SeenIsExpected
    <2>2. \A j \in Sessions \ {k} : gtSeen[j][x] > 0 => gtBlur'[j][x]
      BY <1>16 DEF Concerned
    <2>3. \A j \in Sessions \ {k} : gtPc'[j] = gtPc[j]
      BY <1>1, <1>6, OrderDoneTyped
    <2>4. ASSUME NEW j \in Sessions \ {k}, NEW s \in Symbols, gtSeen[j][s] > 0
          PROVE  gtPc'[j] = "sync"
                 /\ (~gtBlur'[j][s] => gtSeen[j][s] = Expected(s)')
      <3>1. gtPc[j] = "sync" /\ (~gtBlur[j][s] => gtSeen[j][s] = Expected(s))
        BY <1>1, <2>4 DEF SeenIsExpected
      <3>2. CASE s = x
        BY <2>2, <2>3, <2>4, <3>1, <3>2
      <3>3. CASE s # x
        BY <1>15, <1>16, <2>3, <3>1, <3>3
      <3> QED BY <3>2, <3>3
    <2> QED BY <1>6, <2>1, <2>4 DEF SeenIsExpected
  <1>19. HalfSoldOnce'
    BY <1>1, <1>17 DEF HalfSoldOnce
  <1>20. OrderIsFirst'
    <2>1. \A j \in Sessions \ {k} : gtTp1'[j] = gtTp1[j]
      BY <1>1, <1>6 DEF GapTypeOK
    <2> QED BY <1>1, <1>6, <2>1, OrderDoneTyped DEF OrderIsFirst
  <1>21. NoneUnwatched'
    <2>1. gtQty'[k][x] = 0 => gtHalves'[k][x] = 0
      BY <1>14, <1>17
    <2> QED BY <1>1, <1>14, <1>17, <2>1 DEF NoneUnwatched
  <1>22. HalfOnRecord'
    <2>1. gtHalves'[k][x] >= 1 /\ ~gtBlur'[k][x] => gtTp1'[k][x]
      <3> SUFFICES ASSUME gtHalves'[k][x] >= 1, ~gtBlur'[k][x]
                   PROVE  gtTp1'[k][x]
        OBVIOUS
      <3>1. left > 0
        BY <1>4, <1>17 DEF Shares
      <3>2. ~gtBlur[k][x]
        BY <1>16, <3>1
      <3>3. CASE o.tp1
        <4>1. ~opens
          BY <1>7, <3>3
        <4> QED BY <1>11, <1>14, <3>1, <3>3, <4>1
      <3>4. CASE ~o.tp1
        <4>1. gtHalves[k][x] >= 1
          BY <1>17, <3>4
        <4>2. gtTp1[k][x]
          BY <1>1, <1>2, <3>2, <4>1 DEF HalfOnRecord
        <4>3. ~opens
          BY <1>1, <1>2, <4>1 DEF NoneUnwatched
        <4> QED BY <1>11, <1>14, <3>1, <4>2, <4>3
      <3> QED BY <3>3, <3>4
    <2>2. \A j \in Sessions \ {k} :
             gtHalves'[j][x] >= 1 /\ ~gtBlur'[j][x] => gtTp1'[j][x]
      <3> TAKE j \in Sessions \ {k}
      <3>1. gtBlur[j][x] => gtBlur'[j][x]
        BY <1>16, Zenon
      <3>2. gtHalves'[j][x] = gtHalves[j][x] /\ gtTp1'[j][x] = gtTp1[j][x]
        BY <1>2, <1>14, <1>17
      <3>3. gtHalves[j][x] >= 1 /\ ~gtBlur[j][x] => gtTp1[j][x]
        BY <1>1, <1>2 DEF HalfOnRecord
      <3> QED BY <3>1, <3>2, <3>3
    <2>3. \A j \in Sessions, s \in Symbols \ {x} :
             gtHalves'[j][s] >= 1 /\ ~gtBlur'[j][s] => gtTp1'[j][s]
      BY <1>1, <1>14, <1>16, <1>17 DEF HalfOnRecord
    <2> QED BY <2>1, <2>2, <2>3 DEF HalfOnRecord
  <1> QED BY <1>13, <1>15, <1>18, <1>19, <1>20, <1>21, <1>22, <1>23 DEF GapInv

\* A failed attempt changes no watch; if the account accepted it, the session
\* is out of step.
LEMMA StepFailed ==
  ASSUME GapInv, NEW k \in Sessions, GapFailed(k)
  PROVE  GapInv'
  <1> DEFINE o == gtOrder[k]
             x == o.sym
             left == gtQty[k][x]
  <1>1. /\ GapTypeOK /\ WatchedIsExpected /\ HalfSoldOnce /\ OrderIsFirst
        /\ HalfOnRecord /\ NoneUnwatched /\ Covered /\ SeenIsExpected
    BY DEF GapInv
  <1>2. o \in Orders /\ x \in Symbols /\ left \in Shares
    BY <1>1 DEF GapTypeOK, Orders
  <1>3. /\ gtPc[k] = "order"
        /\ \/ UNCHANGED <<gtAccount, gtBlur, gtHalves>>
           \/ Accept(k, o, left, TRUE)
        /\ UNCHANGED <<gtQty, gtTp1, gtTrades, gtSeen>>
    BY DEF GapFailed
  <1> HIDE DEF o, x, left
  <1>4. /\ gtHeld' \in [Symbols -> Shares]
        /\ gtBuying' \in [Symbols -> Shares]
        /\ gtSelling' \in [Symbols -> Shares]
        /\ gtBlur' \in [Sessions -> [Symbols -> BOOLEAN]]
        /\ gtHalves' \in [Sessions -> [Symbols -> Shares]]
    <2>1. CASE UNCHANGED <<gtAccount, gtBlur, gtHalves>>
      BY <1>1, <2>1 DEF GapTypeOK
    <2>2. CASE Accept(k, o, left, TRUE)
      <3>1. /\ gtHeld' \in [Symbols -> Shares] /\ gtBuying' \in [Symbols -> Shares]
            /\ gtSelling' \in [Symbols -> Shares]
        BY <1>1, <1>2, <2>2, AcceptAccount DEF GapTypeOK
      <3>2. /\ gtBlur' \in [Sessions -> [Symbols -> BOOLEAN]]
            /\ gtHalves' \in [Sessions -> [Symbols -> Shares]]
        BY <1>1, <1>2, <2>2, AcceptBlur, AcceptHalves
      <3> QED BY <3>1, <3>2
    <2> QED BY <1>3, <2>1, <2>2
  <1>5. /\ gtOrder' \in [Sessions -> Orders]
        /\ gtTry' \in [Sessions -> 0 .. MaxRetries]
        /\ gtTodo' \in [Sessions -> SUBSET Symbols]
        /\ gtPc' \in [Sessions -> {"idle", "sync", "loop", "order"}]
        /\ gtJob' \in [Sessions -> {"none", "check", "buy", "sell"}]
        /\ \A j \in Sessions : gtPc'[j] = "order" =>
              gtPc[j] = "order" /\ gtOrder'[j] = gtOrder[j]
        /\ \A j \in Sessions \ {k} : gtPc'[j] = gtPc[j]
    <2>1. CASE OrderDone(k)
      BY <1>1, <2>1, OrderDoneTyped
    <2>2. CASE /\ MayRetry(k)
               /\ gtTry' = [gtTry EXCEPT ![k] = gtTry[k] + 1]
               /\ UNCHANGED <<gtPc, gtJob, gtTodo, gtOrder>>
      <3>1. gtTry[k] + 1 \in 0 .. MaxRetries
        BY <1>1, <2>2, GapBoundsAssumption DEF MayRetry, GapTypeOK
      <3> QED BY <1>1, <2>2, <3>1 DEF GapTypeOK
    <2> QED BY <2>1, <2>2 DEF GapFailed
  <1>6. GapTypeOK'
    BY <1>1, <1>3, <1>4, <1>5 DEF GapTypeOK
  <1>7. OrderIsFirst'
    BY <1>1, <1>3, <1>5 DEF OrderIsFirst
  <1>8. CASE UNCHANGED <<gtAccount, gtBlur, gtHalves>>
    <2>1. UNCHANGED <<gapBook, gtSeen>>
      BY <1>3, <1>8 DEF gapBook
    <2>2. SeenIsExpected'
      BY <1>3, <1>5, <2>1, SeenKept
    <2> QED BY <1>6, <1>7, <2>1, <2>2, BookKept
  <1>9. CASE Accept(k, o, left, TRUE)
    <2>1. Covered' /\ \A s \in Symbols \ {x} : Expected(s)' = Expected(s)
      <3>1. /\ gtHeld' = gtHeld
            /\ Covered'
            /\ \A s \in Symbols \ {x} :
                  gtBuying'[s] = gtBuying[s] /\ gtSelling'[s] = gtSelling[s]
        BY <1>1, <1>2, <1>9, AcceptAccount DEF x
      <3> QED BY <3>1 DEF Expected
    <2>2. /\ \A j \in Sessions, s \in Symbols \ {x} :
                gtBlur'[j][s] = gtBlur[j][s]
          /\ \A j \in Sessions \ {k} :
                gtBlur'[j][x] = (gtBlur[j][x] \/ Concerned(j, x))
          /\ gtBlur'[k][x] = (left > 0 /\ (gtBlur[k][x] \/ TRUE))
      BY <1>1, <1>2, <1>9, AcceptBlur DEF x
    <2>3. /\ \A j \in Sessions, s \in Symbols :
               j # k \/ s # x => gtHalves'[j][s] = gtHalves[j][s]
          /\ gtHalves'[k][x] <= 1
          /\ left = 0 => gtHalves'[k][x] = 0
      BY <1>1, <1>2, <1>9, AcceptHalves DEF x
    <2>4. \A j \in Sessions : gtQty[j][x] > 0 => gtBlur'[j][x]
      BY <2>2 DEF left, Concerned
    <2>5. WatchedIsExpected'
      BY <1>1, <1>3, <2>1, <2>2, <2>4 DEF WatchedIsExpected
    <2>9. SeenIsExpected'
      <3>1. \A s \in Symbols : ~(gtSeen[k][s] > 0)
        BY <1>1, <1>3 DEF SeenIsExpected
      <3>2. \A j \in Sessions \ {k} : gtSeen[j][x] > 0 => gtBlur'[j][x]
        BY <2>2 DEF Concerned
      <3>3. ASSUME NEW j \in Sessions \ {k}, NEW s \in Symbols, gtSeen[j][s] > 0
            PROVE  gtPc'[j] = "sync"
                   /\ (~gtBlur'[j][s] => gtSeen[j][s] = Expected(s)')
        <4>1. gtPc[j] = "sync" /\ (~gtBlur[j][s] => gtSeen[j][s] = Expected(s))
          BY <1>1, <3>3 DEF SeenIsExpected
        <4>2. CASE s = x
          BY <1>5, <3>2, <3>3, <4>1, <4>2
        <4>3. CASE s # x
          BY <1>5, <2>1, <2>2, <4>1, <4>3
        <4> QED BY <4>2, <4>3
      <3> QED BY <1>3, <3>1, <3>3 DEF SeenIsExpected
    <2>6. HalfSoldOnce'
      BY <1>1, <2>3 DEF HalfSoldOnce
    <2>7. NoneUnwatched'
      <3>1. gtQty'[k][x] = 0 => gtHalves'[k][x] = 0
        BY <1>3, <2>3 DEF left
      <3> QED BY <1>1, <1>3, <2>3, <3>1 DEF NoneUnwatched
    <2>8. HalfOnRecord'
      <3> SUFFICES ASSUME NEW j \in Sessions, NEW s \in Symbols,
                          gtHalves'[j][s] >= 1, ~gtBlur'[j][s]
                   PROVE  gtTp1[j][s]
        BY <1>3 DEF HalfOnRecord
      <3>1. CASE s = x
        <4>1. gtQty[j][x] = 0
          BY <1>1, <2>4, <3>1 DEF GapTypeOK, Shares
        <4>2. gtHalves'[j][x] = 0
          BY <1>1, <1>2, <1>3, <2>7, <4>1 DEF NoneUnwatched
        <4> QED BY <3>1, <4>2
      <3>2. CASE s # x
        BY <1>1, <2>2, <2>3, <3>2 DEF HalfOnRecord
      <3> QED BY <3>1, <3>2
    <2> QED BY <1>6, <1>7, <2>1, <2>5, <2>6, <2>7, <2>8, <2>9 DEF GapInv
  <1> QED BY <1>3, <1>8, <1>9

-----------------------------------------------------------------------------
(* The working orders.                                                     *)

\* A share that is filled is expected before as after.
LEMMA StepFills ==
  ASSUME GapInv, NEW s \in Symbols, Fills(s)
  PROVE  GapInv'
  <1>1. /\ GapTypeOK /\ WatchedIsExpected /\ HalfSoldOnce /\ OrderIsFirst
        /\ HalfOnRecord /\ NoneUnwatched /\ Covered /\ SeenIsExpected
    BY DEF GapInv
  <1>2. UNCHANGED <<gtQty, gtTp1, gtTrades, gtBlur, gtHalves, gtSeen, gtPc, gtJob,
                    gtTodo, gtOrder, gtTry>>
    BY DEF Fills
  <1>3. /\ gtHeld[s] \in Shares /\ gtBuying[s] \in Shares /\ gtSelling[s] \in Shares
        /\ gtSelling[s] <= gtHeld[s] /\ gtHeld[s] + gtBuying[s] <= MaxHeld
    BY <1>1 DEF GapTypeOK, Covered
  <1>4. /\ gtHeld' \in [Symbols -> Shares] /\ gtBuying' \in [Symbols -> Shares]
        /\ gtSelling' \in [Symbols -> Shares]
        /\ \A u \in Symbols \ {s} : /\ gtHeld'[u] = gtHeld[u]
                                    /\ gtBuying'[u] = gtBuying[u]
                                    /\ gtSelling'[u] = gtSelling[u]
        /\ gtSelling'[s] <= gtHeld'[s] /\ gtHeld'[s] + gtBuying'[s] <= MaxHeld
        /\ gtHeld'[s] + gtBuying'[s] - gtSelling'[s] =
              gtHeld[s] + gtBuying[s] - gtSelling[s]
    <2>1. CASE /\ gtBuying[s] > 0
               /\ gtBuying' = [gtBuying EXCEPT ![s] = gtBuying[s] - 1]
               /\ gtHeld' = [gtHeld EXCEPT ![s] = gtHeld[s] + 1]
               /\ gtSelling' = gtSelling
      <3>1. gtBuying[s] - 1 \in Shares /\ gtHeld[s] + 1 \in Shares
        BY <1>3, <2>1, GapBoundsAssumption DEF Shares
      <3>2. gtBuying'[s] = gtBuying[s] - 1 /\ gtHeld'[s] = gtHeld[s] + 1
        BY <1>1, <2>1 DEF GapTypeOK
      <3>3. /\ gtSelling'[s] <= gtHeld'[s] /\ gtHeld'[s] + gtBuying'[s] <= MaxHeld
            /\ gtHeld'[s] + gtBuying'[s] - gtSelling'[s] =
                  gtHeld[s] + gtBuying[s] - gtSelling[s]
        BY <1>3, <2>1, <3>2, GapBoundsAssumption DEF Shares
      <3> QED BY <1>1, <2>1, <3>1, <3>3 DEF GapTypeOK
    <2>2. CASE /\ gtSelling[s] > 0
               /\ gtSelling' = [gtSelling EXCEPT ![s] = gtSelling[s] - 1]
               /\ gtHeld' = [gtHeld EXCEPT ![s] = gtHeld[s] - 1]
               /\ gtBuying' = gtBuying
      <3>1. gtSelling[s] - 1 \in Shares /\ gtHeld[s] - 1 \in Shares
        BY <1>3, <2>2, GapBoundsAssumption DEF Shares
      <3>2. gtSelling'[s] = gtSelling[s] - 1 /\ gtHeld'[s] = gtHeld[s] - 1
        BY <1>1, <2>2 DEF GapTypeOK
      <3>3. /\ gtSelling'[s] <= gtHeld'[s] /\ gtHeld'[s] + gtBuying'[s] <= MaxHeld
            /\ gtHeld'[s] + gtBuying'[s] - gtSelling'[s] =
                  gtHeld[s] + gtBuying[s] - gtSelling[s]
        BY <1>3, <2>2, <3>2, GapBoundsAssumption DEF Shares
      <3> QED BY <1>1, <2>2, <3>1, <3>3 DEF GapTypeOK
    <2> QED BY <2>1, <2>2 DEF Fills
  <1>5. \A u \in Symbols : Expected(u)' = Expected(u)
    BY <1>4 DEF Expected
  <1>6. GapTypeOK'
    BY <1>1, <1>2, <1>4 DEF GapTypeOK
  <1>7. Covered'
    BY <1>1, <1>4 DEF Covered
  <1>8. WatchedIsExpected' /\ SeenIsExpected'
    BY <1>1, <1>2, <1>5 DEF WatchedIsExpected, SeenIsExpected
  <1>9. HalfSoldOnce' /\ OrderIsFirst' /\ HalfOnRecord' /\ NoneUnwatched'
    BY <1>1, <1>2 DEF HalfSoldOnce, OrderIsFirst, HalfOnRecord, NoneUnwatched
  <1> QED BY <1>6, <1>7, <1>8, <1>9 DEF GapInv

\* A share that lapses puts every session concerned out of step.
LEMMA StepLapses ==
  ASSUME GapInv, NEW s \in Symbols, Lapses(s)
  PROVE  GapInv'
  <1>1. /\ GapTypeOK /\ WatchedIsExpected /\ HalfSoldOnce /\ OrderIsFirst
        /\ HalfOnRecord /\ NoneUnwatched /\ Covered /\ SeenIsExpected
    BY DEF GapInv
  <1>2. UNCHANGED <<gtHeld, gtQty, gtTp1, gtTrades, gtHalves, gtSeen, gtPc, gtJob,
                    gtTodo, gtOrder, gtTry>>
    BY DEF Lapses
  <1>3. /\ gtHeld[s] \in Shares /\ gtBuying[s] \in Shares /\ gtSelling[s] \in Shares
        /\ gtSelling[s] <= gtHeld[s] /\ gtHeld[s] + gtBuying[s] <= MaxHeld
    BY <1>1 DEF GapTypeOK, Covered
  <1>4. /\ gtBuying' \in [Symbols -> Shares] /\ gtSelling' \in [Symbols -> Shares]
        /\ \A u \in Symbols \ {s} : /\ gtBuying'[u] = gtBuying[u]
                                    /\ gtSelling'[u] = gtSelling[u]
        /\ gtSelling'[s] <= gtHeld[s] /\ gtHeld[s] + gtBuying'[s] <= MaxHeld
    <2>1. CASE /\ gtBuying[s] > 0
               /\ gtBuying' = [gtBuying EXCEPT ![s] = gtBuying[s] - 1]
               /\ gtSelling' = gtSelling
      <3>1. gtBuying[s] - 1 \in Shares
        BY <1>3, <2>1, GapBoundsAssumption DEF Shares
      <3>2. gtBuying'[s] = gtBuying[s] - 1
        BY <1>1, <2>1 DEF GapTypeOK
      <3>3. gtSelling'[s] <= gtHeld[s] /\ gtHeld[s] + gtBuying'[s] <= MaxHeld
        BY <1>3, <2>1, <3>2, GapBoundsAssumption DEF Shares
      <3> QED BY <1>1, <2>1, <3>1, <3>3 DEF GapTypeOK
    <2>2. CASE /\ gtSelling[s] > 0
               /\ gtSelling' = [gtSelling EXCEPT ![s] = gtSelling[s] - 1]
               /\ gtBuying' = gtBuying
      <3>1. gtSelling[s] - 1 \in Shares
        BY <1>3, <2>2, GapBoundsAssumption DEF Shares
      <3>2. gtSelling'[s] = gtSelling[s] - 1
        BY <1>1, <2>2 DEF GapTypeOK
      <3>3. gtSelling'[s] <= gtHeld[s] /\ gtHeld[s] + gtBuying'[s] <= MaxHeld
        BY <1>3, <2>2, <3>2, GapBoundsAssumption DEF Shares
      <3> QED BY <1>1, <2>2, <3>1, <3>3 DEF GapTypeOK
    <2> QED BY <2>1, <2>2 DEF Lapses
  <1>5. \A u \in Symbols \ {s} : Expected(u)' = Expected(u)
    BY <1>2, <1>4 DEF Expected
  <1>6. /\ gtBlur' \in [Sessions -> [Symbols -> BOOLEAN]]
        /\ \A j \in Sessions : gtBlur'[j][s] = (gtBlur[j][s] \/ Concerned(j, s))
        /\ \A j \in Sessions, u \in Symbols \ {s} : gtBlur'[j][u] = gtBlur[j][u]
    <2> DEFINE b(j) == gtBlur[j][s] \/ Concerned(j, s)
    <2>1. \A j \in Sessions : b(j) \in BOOLEAN /\ gtBlur[j] \in [Symbols -> BOOLEAN]
      BY <1>1 DEF GapTypeOK, Concerned
    <2>2. gtBlur' = [j \in Sessions |-> [gtBlur[j] EXCEPT ![s] = b(j)]]
      BY DEF Lapses
    <2>3. \A j \in Sessions : b(j) = (gtBlur[j][s] \/ Concerned(j, s))
      OBVIOUS
    <2> HIDE DEF b
    <2>4. gtBlur' \in [Sessions -> [Symbols -> BOOLEAN]]
      BY <2>1, <2>2
    <2>5. \A j \in Sessions : gtBlur'[j] = [gtBlur[j] EXCEPT ![s] = b(j)]
      BY <2>2
    <2>6. \A j \in Sessions : gtBlur'[j][s] = b(j)
      BY <2>1, <2>5
    <2>7. \A j \in Sessions, u \in Symbols \ {s} : gtBlur'[j][u] = gtBlur[j][u]
      BY <2>1, <2>5
    <2> QED BY <2>3, <2>4, <2>6, <2>7
  <1>b. \A j \in Sessions, u \in Symbols : gtBlur[j][u] => gtBlur'[j][u]
    <2> TAKE j \in Sessions, u \in Symbols
    <2>1. CASE u = s
      BY <1>6, <2>1, Zenon
    <2>2. CASE u # s
      BY <1>6, <2>2
    <2> QED BY <2>1, <2>2
  <1>c. \A j \in Sessions : gtQty[j][s] > 0 \/ gtSeen[j][s] > 0 => gtBlur'[j][s]
    BY <1>6 DEF Concerned
  <1>7. GapTypeOK'
    BY <1>1, <1>2, <1>4, <1>6 DEF GapTypeOK
  <1>8. Covered'
    BY <1>1, <1>2, <1>4 DEF Covered
  <1>9. WatchedIsExpected'
    BY <1>1, <1>2, <1>5, <1>b, <1>c DEF WatchedIsExpected
  <1>10. SeenIsExpected'
    BY <1>1, <1>2, <1>5, <1>b, <1>c DEF SeenIsExpected
  <1>11. HalfSoldOnce' /\ OrderIsFirst' /\ NoneUnwatched'
    BY <1>1, <1>2 DEF HalfSoldOnce, OrderIsFirst, NoneUnwatched
  <1>12. HalfOnRecord'
    BY <1>1, <1>2, <1>b DEF HalfOnRecord
  <1> QED BY <1>7, <1>8, <1>9, <1>10, <1>11, <1>12 DEF GapInv

-----------------------------------------------------------------------------
(* The theorems.                                                           *)

LEMMA StepGap == GapInv /\ [GapNext]_gtVars => GapInv'
  <1> SUFFICES ASSUME GapInv, [GapNext]_gtVars PROVE GapInv'
    OBVIOUS
  <1>1. CASE UNCHANGED gtVars
    BY <1>1 DEF gtVars, GapInv, GapTypeOK, WatchedIsExpected, Expected,
       HalfSoldOnce, OrderIsFirst, HalfOnRecord, NoneUnwatched, Covered,
       SeenIsExpected
  <1>2. ASSUME NEW k \in Sessions, GapStep(k) PROVE GapInv'
    BY <1>2, StepJobs, StepReadBalance, StepRegisterFound, StepAccepted, StepFailed
       DEF GapStep
  <1>3. ASSUME NEW s \in Symbols, Fills(s) \/ Lapses(s) PROVE GapInv'
    BY <1>3, StepFills, StepLapses
  <1> QED BY <1>1, <1>2, <1>3 DEF GapNext

\* The state of the gap-up trader keeps its types: in particular no attempt
\* is made after the last one, and no order is for more than the bound.
THEOREM GapTyped == GapSpec => []GapTypeOK
  <1>1. GapInv => GapTypeOK
    BY DEF GapInv
  <1> QED BY <1>1, InitGap, StepGap, PTL DEF GapSpec

\* A session that is in step watches what the account comes to once the
\* orders that it accepted are filled.
THEOREM WatchedExpected == GapSpec => []WatchedIsExpected
  <1>1. GapInv => WatchedIsExpected
    BY DEF GapInv
  <1> QED BY <1>1, InitGap, StepGap, PTL DEF GapSpec

\* The first take-profit sells one half of a position, once.
THEOREM SoldOnce == GapSpec => []HalfSoldOnce
  <1>1. GapInv => HalfSoldOnce
    BY DEF GapInv
  <1> QED BY <1>1, InitGap, StepGap, PTL DEF GapSpec
=============================================================================
