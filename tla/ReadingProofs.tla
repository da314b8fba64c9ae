----------------------------- MODULE ReadingProofs -----------------------------
(***************************************************************************)
(* Proofs about Reader for every set of comics, any number of chapters of  *)
(* each, in Cloud Storage and in Realm, and any depth of the stack; and    *)
(* about ChapterPages for chapters of any number of pages of any height,   *)
(* and any number of loads.                                                *)
(*                                                                         *)
(* The inductive invariant of Reader, Inv, adds to the types what the four *)
(* globals are while nothing has disturbed the comic on the screen: they   *)
(* are that comic's, the chapter list has nchap rows, and the reader on    *)
(* top shows chapter chap.  Every view below the top one was disturbed by  *)
(* the comic that was opened over it, and stays so.                        *)
(*                                                                         *)
(* That of ChapterPages, PagesInv, follows the pages of the last load      *)
(* only: they are the top of the view if that load began in a settled one  *)
(* (OnTop), they follow one another from 0 to the height that the load has *)
(* reached without a gap (Tiled), and each page of the chapter is laid     *)
(* once, still requested, or lost (Whole).                                 *)
(***************************************************************************)
EXTENDS Reader, ChapterPages, SequenceTheorems, TLAPS

-----------------------------------------------------------------------------
(* The inductive invariant of Reader *)

(* The reader r shows chapter chap of the comic Comic.id. *)
Fits(r) ==
  /\ r.shows = id /\ (crashed = Nil => r.index = chap)
  /\ r.title = r.index + 1 /\ r.asked = r.title
  /\ r.title >= 1 /\ (nchap > 0 => r.title <= nchap)
  /\ r.prev = (r.title > 1) /\ r.next = (r.title < nchap)

(* The globals are those of the view v. *)
Own(v) ==
  /\ v.comic = id
  /\ isDownloaded = (id \in Saved)
  /\ id \in Saved => nchap \in {NChap[id], Folders[id]}
  /\ v.listed => nchap = Folders[id]
  /\ ~v.stale => /\ v.rows # Nil => v.rows = nchap
                 /\ v.reader # NoReader => Fits(v.reader)

Undisturbed ==
  \A n \in DOMAIN stack : stack[n].alone => n = Len(stack) /\ Own(stack[n])

(* Under a reader Comic.chap, which its buttons unwrap, is set. *)
ChapSet ==
  \A n \in DOMAIN stack : stack[n].reader # NoReader => chap \in Int

Inv == TypeOK /\ Undisturbed /\ ChapSet /\ NoTrap

-----------------------------------------------------------------------------
(* Facts about the stack *)

LEMMA TopTyped ==
  ASSUME TypeOK, stack # <<>>
  PROVE  /\ Len(stack) \in Nat /\ Len(stack) >= 1 /\ Len(stack) \in DOMAIN stack
         /\ DOMAIN stack = 1..Len(stack)
         /\ Top = stack[Len(stack)] /\ Top \in ViewType
<1>1. stack \in Seq(ViewType)
  BY DEF TypeOK, InUse
<1> QED  BY <1>1, EmptySeq, LenProperties, ElementOfSeq DEF Top, Last

LEMMA Popped ==
  ASSUME TypeOK, stack # <<>>
  PROVE  /\ Front(stack) \in Seq(ViewType)
         /\ Len(Front(stack)) = Len(stack) - 1
         /\ \A n \in 1..(Len(stack) - 1) : Front(stack)[n] = stack[n]
<1> DEFINE m == Len(stack) - 1
<1>1. m \in Nat /\ m + 1 = Len(stack) /\ stack \in Seq(ViewType)
  BY TopTyped DEF TypeOK, InUse
<1>2. \A n \in 1..m : stack[n] \in ViewType
  BY <1>1
<1>3. Front(stack) = SubSeq(stack, 1, m)
  BY DEF Front
<1> HIDE DEF m
<1>4. /\ SubSeq(stack, 1, m) \in Seq(ViewType)
      /\ Len(SubSeq(stack, 1, m)) = IF 1 <= m THEN m - 1 + 1 ELSE 0
      /\ \A n \in 1..(m - 1 + 1) : SubSeq(stack, 1, m)[n] = stack[1 + n - 1]
  BY <1>1, <1>2, SubSeqProperties
<1> QED  BY <1>1, <1>3, <1>4 DEF m

LEMMA Replaced ==
  ASSUME TypeOK, stack # <<>>, NEW v \in ViewType
  PROVE  /\ WithTop(v) \in Seq(ViewType)
         /\ Len(WithTop(v)) = Len(stack)
         /\ WithTop(v)[Len(stack)] = v
         /\ \A n \in 1..(Len(stack) - 1) : WithTop(v)[n] = stack[n]
<1> DEFINE f == Front(stack)
<1>1. /\ f \in Seq(ViewType) /\ Len(f) = Len(stack) - 1 /\ Len(stack) \in Nat
      /\ \A n \in 1..(Len(stack) - 1) : f[n] = stack[n]
  BY Popped, TopTyped
<1>2. WithTop(v) = Append(f, v)
  BY DEF WithTop
<1> HIDE DEF f
<1> QED  BY <1>1, <1>2

LEMMA AllDisturbed ==
  ASSUME TypeOK
  PROVE  /\ Disturbed \in Seq(ViewType)
         /\ Len(Disturbed) = Len(stack)
         /\ \A n \in 1..Len(stack) :
              /\ ~Disturbed[n].alone
              /\ Disturbed[n].rows = stack[n].rows
              /\ Disturbed[n].reader = stack[n].reader
<1>1. Len(stack) \in Nat /\ DOMAIN stack = 1..Len(stack)
  BY LenProperties DEF TypeOK, InUse
<1>2. \A n \in 1..Len(stack) : stack[n] \in ViewType
  BY ElementOfSeq DEF TypeOK, InUse
<1>3. \A n \in 1..Len(stack) : [stack[n] EXCEPT !.alone = FALSE] \in ViewType
  BY <1>2 DEF ViewType
<1>4. Disturbed = [n \in 1..Len(stack) |-> [stack[n] EXCEPT !.alone = FALSE]]
  BY <1>1 DEF Disturbed
<1>5. Disturbed \in Seq(ViewType) /\ Len(Disturbed) = Len(stack)
  BY <1>1, <1>3, <1>4
<1>6. ASSUME NEW n \in 1..Len(stack)
      PROVE  /\ ~Disturbed[n].alone
             /\ Disturbed[n].rows = stack[n].rows /\ Disturbed[n].reader = stack[n].reader
  BY <1>2, <1>4 DEF ViewType
<1> QED  BY <1>5, <1>6

(* What the last conjunct of TypeOK and ChapSet ask of a view. *)
Unwraps(v) ==
  /\ v.rows # Nil \/ v.reader # NoReader => nchap # Nil
  /\ v.reader # NoReader => chap \in Int

LEMMA ViewsUnwrap ==
  ASSUME Inv, NEW n \in 1..Len(stack)
  PROVE  Unwraps(stack[n])
<1>1. DOMAIN stack = 1..Len(stack)
  BY LenProperties DEF Inv, TypeOK, InUse
<1> QED  BY <1>1 DEF Inv, TypeOK, InUse, ChapSet, Unwraps

LEMMA LowerViews ==
  ASSUME Inv, NEW n \in 1..(Len(stack) - 1)
  PROVE  ~stack[n].alone
<1>1. DOMAIN stack = 1..Len(stack) /\ Len(stack) \in Nat
  BY LenProperties DEF Inv, TypeOK, InUse
<1> QED  BY <1>1 DEF Inv, Undisturbed

(* The stack after a step, if every view below the top one is disturbed.   *)
LEMMA StackKept ==
  ASSUME stack' \in Seq(ViewType),
         \A n \in 1..Len(stack') : Unwraps(stack[n])',
         \A n \in 1..(Len(stack') - 1) : ~stack'[n].alone,
         stack' # <<>> /\ stack'[Len(stack')].alone => Own(stack[Len(stack)])'
  PROVE  /\ Undisturbed' /\ ChapSet'
         /\ \A n \in DOMAIN stack' :
              stack'[n].rows # Nil \/ stack'[n].reader # NoReader => nchap' # Nil
<1>1. DOMAIN stack' = 1..Len(stack') /\ Len(stack') \in Nat
  BY LenProperties
<1>2. ChapSet' /\ \A n \in DOMAIN stack' :
              stack'[n].rows # Nil \/ stack'[n].reader # NoReader => nchap' # Nil
  BY <1>1 DEF ChapSet, Unwraps
<1>3. ASSUME NEW n \in 1..Len(stack'), stack'[n].alone
      PROVE  n = Len(stack') /\ Own(stack[n])'
  <2>1. n = Len(stack')
    <3>1. \A m \in Nat : \A i \in 1..m : i # m => i \in 1..(m - 1)
      OBVIOUS
    <3> QED  BY <1>1, <1>3, <3>1
  <2>2. stack' # <<>>
    BY <1>1, <1>3, EmptySeq
  <2> QED  BY <1>3, <2>1, <2>2
<1>4. Undisturbed'
  BY <1>1, <1>3 DEF Undisturbed
<1> QED  BY <1>2, <1>4

-----------------------------------------------------------------------------
(* Every step keeps the invariant *)

(* The view on top is replaced by v, the comic of Comic.id stays. *)
LEMMA TopKept ==
  ASSUME Inv, stack # <<>>, NEW v \in ViewType, stack' = WithTop(v), nchap' = nchap,
         chap' \in Int \/ chap' = chap, Unwraps(v)', v.alone => Own(v)'
  PROVE  /\ stack' \in Seq(ViewType) /\ Undisturbed' /\ ChapSet'
         /\ \A n \in DOMAIN stack' :
              stack'[n].rows # Nil \/ stack'[n].reader # NoReader => nchap' # Nil
<1> DEFINE m == Len(stack)
<1>1. /\ stack' \in Seq(ViewType) /\ Len(stack') = m /\ stack'[m] = v
      /\ \A n \in 1..(m - 1) : stack'[n] = stack[n]
  BY Replaced DEF Inv
<1>2. m \in Nat /\ m >= 1
  BY TopTyped DEF Inv
<1>3. \A n \in 1..m : Unwraps(stack[n])
  BY ViewsUnwrap
<1>4. \A n \in 1..(m - 1) : ~stack[n].alone
  BY LowerViews
<1> HIDE DEF m
<1>5. ASSUME NEW n \in 1..m PROVE Unwraps(stack[n])'
  <2>1. CASE n = m
    BY <1>1, <2>1 DEF Unwraps
  <2>2. CASE n # m
    <3>1. stack'[n] = stack[n] /\ Unwraps(stack[n])
      BY <1>1, <1>2, <1>3, <2>2
    <3> QED  BY <3>1 DEF Unwraps
  <2> QED  BY <2>1, <2>2
<1>6. \A n \in 1..(m - 1) : ~stack'[n].alone
  BY <1>1, <1>4
<1>7. stack'[Len(stack')].alone => Own(stack[Len(stack)])'
  BY <1>1 DEF Own, Fits
<1> QED  BY <1>1, <1>5, <1>6, <1>7, StackKept

(* Every view is disturbed, and nchap, if it changes, is a number. *)
LEMMA DisturbedKept ==
  ASSUME Inv, stack' = Disturbed, nchap' \in Nat \/ nchap' = nchap, chap' = chap
  PROVE  /\ stack' \in Seq(ViewType) /\ Undisturbed' /\ ChapSet'
         /\ \A n \in DOMAIN stack' :
              stack'[n].rows # Nil \/ stack'[n].reader # NoReader => nchap' # Nil
<1> DEFINE m == Len(stack)
<1>1. /\ stack' \in Seq(ViewType) /\ Len(stack') = m /\ m \in Nat
      /\ \A n \in 1..m : /\ ~stack'[n].alone
                         /\ stack'[n].rows = stack[n].rows /\ stack'[n].reader = stack[n].reader
  BY AllDisturbed, LenProperties DEF Inv, TypeOK, InUse
<1>2. \A n \in 1..m : Unwraps(stack[n])
  BY ViewsUnwrap
<1> HIDE DEF m
<1>3. ASSUME NEW n \in 1..m PROVE Unwraps(stack[n])'
  BY <1>1, <1>2, ConstantsAssumption DEF Unwraps
<1>4. \A n \in 1..(m - 1) : ~stack'[n].alone
  BY <1>1
<1>5. stack' # <<>> => ~stack'[Len(stack')].alone
  <2>1. stack' # <<>> => m >= 1
    BY <1>1
  <2> QED  BY <1>1, <2>1
<1> QED  BY <1>1, <1>3, <1>4, <1>5, StackKept

LEMMA OpenStep ==
  ASSUME Inv, NEW c \in Comics, OpenInfo(c) \/ ReviewArrives(c)
  PROVE  Inv'
<1> DEFINE m == Len(stack)
<1>1. /\ crashed = Nil /\ crashed' = Nil /\ id' = c /\ chap' = chap
      /\ \/ Opens(c)
         \/ stack' = Disturbed /\ UNCHANGED <<isDownloaded, nchap, lists>>
  BY DEF OpenInfo, ReviewArrives
<1>2. NoTrap'
  BY <1>1 DEF NoTrap
<1>3. CASE stack' = Disturbed /\ UNCHANGED <<isDownloaded, nchap, lists>>
  <2>1. /\ stack' \in Seq(ViewType) /\ Undisturbed' /\ ChapSet'
        /\ \A n \in DOMAIN stack' :
             stack'[n].rows # Nil \/ stack'[n].reader # NoReader => nchap' # Nil
    BY <1>1, <1>3, DisturbedKept
  <2> QED  BY <1>1, <1>2, <1>3, <2>1 DEF Inv, TypeOK, InUse
<1>4. CASE Opens(c)
  <2>1. /\ isDownloaded' = (c \in Saved)
        /\ nchap' = IF c \in Saved THEN NChap[c] ELSE nchap
        /\ stack' = Append(Disturbed, View(c))
        /\ lists' = [lists EXCEPT ![c] = lists[c] + 1] /\ lists[c] < MaxLists
    BY <1>4 DEF Opens
  <2>2. nchap' \in Nat \/ nchap' = nchap
    BY <2>1, ConstantsAssumption
  <2>3. View(c) \in ViewType /\ View(c).comic = c /\ View(c).rows = Nil
        /\ View(c).reader = NoReader /\ ~View(c).listed
    BY DEF View, ViewType, ReaderType, NoReader
  <2>4. /\ stack' \in Seq(ViewType) /\ Len(stack') = m + 1 /\ m \in Nat
        /\ stack'[m + 1] = View(c)
        /\ \A n \in 1..m : /\ ~stack'[n].alone
                           /\ stack'[n].rows = stack[n].rows /\ stack'[n].reader = stack[n].reader
    <3>1. /\ Disturbed \in Seq(ViewType) /\ Len(Disturbed) = m /\ m \in Nat
          /\ \A n \in 1..m : /\ ~Disturbed[n].alone
                             /\ Disturbed[n].rows = stack[n].rows
                             /\ Disturbed[n].reader = stack[n].reader
      BY AllDisturbed, LenProperties DEF Inv, TypeOK, InUse
    <3> HIDE DEF m
    <3> QED  BY <2>1, <2>3, <3>1
  <2>5. \A n \in 1..m : Unwraps(stack[n])
    BY ViewsUnwrap
  <2> HIDE DEF m
  <2>6. ASSUME NEW n \in 1..(m + 1) PROVE Unwraps(stack[n])'
    <3>1. CASE n = m + 1
      BY <2>3, <2>4, <3>1 DEF Unwraps
    <3>2. CASE n # m + 1
      <4>1. n \in 1..m
        BY <2>4, <3>2
      <4> QED  BY <1>1, <2>2, <2>4, <2>5, <4>1, ConstantsAssumption DEF Unwraps
    <3> QED  BY <3>1, <3>2
  <2>7. \A n \in 1..((m + 1) - 1) : ~stack'[n].alone
    BY <2>4
  <2>8. Own(stack[Len(stack)])'
    BY <1>1, <2>1, <2>3, <2>4 DEF Own
  <2>9. /\ Undisturbed' /\ ChapSet'
        /\ \A n \in DOMAIN stack' :
             stack'[n].rows # Nil \/ stack'[n].reader # NoReader => nchap' # Nil
    BY <2>4, <2>6, <2>7, <2>8, StackKept
  <2>10. lists' \in [Comics -> 0..MaxLists]
    BY <2>1, ConstantsAssumption DEF Inv, TypeOK, InUse
  <2>11. nchap' \in Nat \cup {Nil}
    BY <2>2 DEF Inv, TypeOK, InUse
  <2> QED  BY <1>1, <1>2, <2>1, <2>4, <2>9, <2>10, <2>11 DEF Inv, TypeOK, InUse
<1> QED  BY <1>1, <1>3, <1>4

LEMMA ListingStep ==
  ASSUME Inv, NEW c \in Comics, ListingArrives(c) \/ ListingFails(c)
  PROVE  Inv'
<1>1. /\ crashed = Nil /\ crashed' = Nil /\ lists[c] > 0
      /\ lists' = [lists EXCEPT ![c] = lists[c] - 1]
      /\ id' = id /\ chap' = chap /\ isDownloaded' = isDownloaded
  BY DEF ListingArrives, ListingFails
<1>2. NoTrap' /\ lists' \in [Comics -> 0..MaxLists]
  BY <1>1, ConstantsAssumption DEF Inv, TypeOK, InUse, NoTrap
<1>3. /\ nchap' = nchap \/ (nchap' = Folders[c] /\ Folders[c] \in Nat)
      /\ nchap' = nchap \/ nchap' # Nil
  <2>1. Folders[c] \in Nat /\ Folders[c] # Nil
    BY ConstantsAssumption
  <2>2. nchap' = nchap \/ nchap' = Folders[c]
    BY DEF ListingArrives, ListingFails
  <2> QED  BY <2>1, <2>2
<1>4. CASE stack' = stack /\ nchap' = nchap
  <2>1. Undisturbed' /\ ChapSet'
    BY <1>1, <1>4 DEF Inv, Undisturbed, Own, Fits, ChapSet
  <2> QED  BY <1>1, <1>2, <1>4, <2>1 DEF Inv, TypeOK
<1>5. CASE ListingArrives(c)
  <2> DEFINE m == Len(stack)
             marked(v) == [v EXCEPT !.alone = @ /\ (nchap' = nchap \/ v.comic = c),
                                    !.listed = @ \/ (v.comic = c /\ Folders[c] > 0),
                                    !.stale = @ \/ (nchap' # nchap /\ InUse(v))]
  <2>1. /\ m \in Nat /\ DOMAIN stack = 1..m
        /\ \A n \in 1..m : stack[n] \in ViewType
    BY LenProperties, ElementOfSeq DEF Inv, TypeOK
  <2>2. /\ stack' = [n \in 1..m |-> marked(stack[n])]
        /\ nchap' = IF Folders[c] > 0 THEN Folders[c] ELSE nchap
    BY <1>5, <2>1 DEF ListingArrives
  <2>3. ASSUME NEW v \in ViewType
        PROVE  /\ marked(v) \in ViewType /\ marked(v).comic = v.comic
               /\ marked(v).rows = v.rows /\ marked(v).reader = v.reader
               /\ marked(v).alone => v.alone /\ (nchap' = nchap \/ v.comic = c)
               /\ marked(v).listed => v.listed \/ (v.comic = c /\ Folders[c] > 0)
               /\ ~marked(v).stale => ~v.stale /\ (nchap' = nchap \/ ~InUse(v))
    BY DEF ViewType
  <2> HIDE DEF m, marked
  <2>4. stack' \in Seq(ViewType) /\ Len(stack') = m
    BY <2>1, <2>2, <2>3
  <2>5. ASSUME NEW n \in 1..m
        PROVE  /\ Unwraps(stack[n])'
               /\ stack'[n].alone => stack[n].alone
    <3>1. Unwraps(stack[n]) /\ stack[n] \in ViewType /\ stack'[n] = marked(stack[n])
      BY <2>1, <2>2, ViewsUnwrap DEF m
    <3> QED  BY <1>1, <1>3, <2>3, <3>1 DEF Unwraps
  <2>6. \A n \in 1..(m - 1) : ~stack'[n].alone
    BY <2>1, <2>5, LowerViews DEF m
  <2>7. ASSUME stack' # <<>>, stack'[m].alone PROVE Own(stack[Len(stack)])'
    <3>1. m \in 1..m
      BY <2>1, <2>4, <2>7
    <3>2. /\ stack[m] \in ViewType /\ stack'[m] = marked(stack[m])
          /\ stack[m].alone /\ Own(stack[m]) /\ (nchap' = nchap \/ stack[m].comic = c)
      BY <2>1, <2>2, <2>3, <2>7, <3>1 DEF Inv, Undisturbed
    <3>3. /\ stack'[m].comic = id' /\ isDownloaded' = (id' \in Saved)
          /\ id' \in Saved => nchap' \in {NChap[id'], Folders[id']}
      BY <1>1, <2>2, <2>3, <3>2 DEF Own
    <3>4. stack'[m].listed => nchap' = Folders[id']
      BY <1>1, <2>2, <2>3, <3>2 DEF Own
    <3>5. ASSUME ~stack'[m].stale
          PROVE  /\ stack'[m].rows # Nil => stack'[m].rows = nchap'
                 /\ stack'[m].reader # NoReader => Fits(stack[Len(stack)].reader)'
      <4>1. ~stack[m].stale /\ (nchap' = nchap \/ ~InUse(stack[m]))
            /\ stack'[m].rows = stack[m].rows /\ stack'[m].reader = stack[m].reader
        BY <2>3, <3>2, <3>5
      <4>2. CASE nchap' = nchap
        BY <1>1, <2>4, <3>2, <4>1, <4>2 DEF Own, Fits
      <4>3. CASE ~InUse(stack[m])
        BY <4>1, <4>3 DEF InUse
      <4> QED  BY <4>1, <4>2, <4>3
    <3>6. /\ stack'[m].rows = stack[m].rows /\ stack'[m].reader = stack[m].reader
          /\ stack[m].alone
      BY <2>3, <3>2
    <3> QED  BY <2>4, <3>3, <3>4, <3>5, <3>6 DEF Own
  <2>8. /\ Undisturbed' /\ ChapSet'
        /\ \A n \in DOMAIN stack' :
             stack'[n].rows # Nil \/ stack'[n].reader # NoReader => nchap' # Nil
    <3>1. stack' # <<>> /\ stack'[Len(stack')].alone => Own(stack[Len(stack)])'
      BY <2>4, <2>7 DEF m, Own, Fits
    <3> QED  BY <2>4, <2>5, <2>6, <3>1, StackKept
  <2> QED  BY <1>1, <1>2, <1>3, <2>4, <2>8 DEF Inv, TypeOK, InUse
<1> QED  BY <1>4, <1>5 DEF ListingFails

LEMMA ChapListStep ==
  ASSUME Inv, ShowChap
  PROVE  Inv'
<1>1. /\ stack # <<>> /\ crashed = Nil /\ Top.rows = Nil /\ Top.reader = NoReader
      /\ UNCHANGED <<id, nchap, chap, isDownloaded, lists>>
  BY DEF ShowChap, AtInfo, Open, Reading
<1>2. Top \in ViewType /\ Top = stack[Len(stack)] /\ Len(stack) \in DOMAIN stack
  BY <1>1, TopTyped DEF Inv
<1>3. CASE nchap = Nil
  <2>1. crashed' = [why |-> "unwrap", view |-> Top] /\ stack' = stack
    BY <1>3 DEF ShowChap, Traps
  <2>2. crashed' \in CrashType
    BY <1>2, <2>1 DEF CrashType
  <2>3. NoTrap'
    BY <1>1, <2>1 DEF NoTrap
  <2>4. Undisturbed' /\ ChapSet'
    BY <1>1, <2>1 DEF Inv, Undisturbed, Own, Fits, ChapSet
  <2> QED  BY <1>1, <2>1, <2>2, <2>3, <2>4 DEF Inv, TypeOK, InUse
<1>4. CASE nchap # Nil
  <2> DEFINE w == [Top EXCEPT !.rows = nchap]
  <2>1. stack' = WithTop(w) /\ crashed' = crashed /\ nchap \in Nat
    BY <1>4 DEF ShowChap, Inv, TypeOK, InUse
  <2>2. /\ w \in ViewType /\ w.rows = nchap /\ w.reader = NoReader /\ w.alone = Top.alone
        /\ w.comic = Top.comic /\ w.listed = Top.listed /\ w.stale = Top.stale
    BY <1>1, <1>2, <2>1 DEF ViewType
  <2> HIDE DEF w
  <2>3. PICK v \in ViewType : v = w
    BY <2>2
  <2>4. stack' = WithTop(v) /\ crashed' = crashed /\ nchap \in Nat
    BY <2>1, <2>3
  <2>5. /\ v.rows = nchap /\ v.reader = NoReader /\ v.alone = Top.alone
        /\ v.comic = Top.comic /\ v.listed = Top.listed /\ v.stale = Top.stale
    BY <2>2, <2>3
  <2>6. Top.alone => Own(Top)
    BY <1>2 DEF Inv, Undisturbed
  <2>7. v.alone => Own(v)'
    BY <1>1, <2>5, <2>6 DEF Own
  <2>8. Unwraps(v)'
    BY <1>1, <1>4, <2>5 DEF Unwraps
  <2>9. /\ stack' \in Seq(ViewType) /\ Undisturbed' /\ ChapSet'
        /\ \A n \in DOMAIN stack' :
             stack'[n].rows # Nil \/ stack'[n].reader # NoReader => nchap' # Nil
    BY <1>1, <2>4, <2>5, <2>7, <2>8, TopKept
  <2> QED  BY <1>1, <2>4, <2>9 DEF Inv, TypeOK, InUse, NoTrap
<1> QED  BY <1>3, <1>4

(* A load of chapter k that, over a comic nothing disturbed, is one of its *)
(* nchap chapters and the one that was asked for.                          *)
LEMMA LoadKept ==
  ASSUME Inv, Open, NEW k \in Int, NEW asked \in Int, Load(k, asked),
         nchap = Nil => Top.rows = Nil /\ Top.reader = NoReader,
         nchap # Nil /\ Top.alone /\ ~Top.stale => asked = k + 1 /\ k >= 0 /\ (nchap > 0 => k < nchap)
  PROVE  Inv'
<1>1. /\ stack # <<>> /\ crashed = Nil /\ chap' = k
      /\ UNCHANGED <<id, nchap, isDownloaded, lists>>
  BY DEF Open, Load, Loads
<1>2. Top \in ViewType /\ Top = stack[Len(stack)] /\ Len(stack) \in DOMAIN stack
  BY <1>1, TopTyped DEF Inv
<1>3. Top.alone => Own(Top)
  BY <1>2 DEF Inv, Undisturbed
<1>4. ASSUME NEW why \in {"unwrap", "index"}, crashed' = [why |-> why, view |-> Top],
             stack' = stack, NoTrap'
      PROVE  Inv'
  <2>1. crashed' \in CrashType
    BY <1>2, <1>4 DEF CrashType
  <2>2. crashed' # Nil
    BY <2>1, NilAssumption
  <2>3. ChapSet'
    BY <1>1, <1>4 DEF ChapSet
  <2>4. Undisturbed'
    BY <1>1, <1>4, <2>2 DEF Inv, Undisturbed, Own, Fits
  <2> QED  BY <1>1, <1>4, <2>1, <2>3, <2>4 DEF Inv, TypeOK, InUse
<1>5. CASE nchap = Nil
  <2>1. crashed' = [why |-> "unwrap", view |-> Top] /\ stack' = stack
    BY <1>5 DEF Load, Loads, Traps
  <2>2. NoTrap'
    BY <1>5, <2>1 DEF NoTrap
  <2> QED  BY <1>4, <2>1, <2>2
<1>6. CASE nchap # Nil /\ isDownloaded /\ id \in Saved /\ k \notin 0..(Stored[id] - 1)
  <2>1. crashed' = [why |-> "index", view |-> Top] /\ stack' = stack
    BY <1>6 DEF Load, Loads, Traps
  <2>2. ASSUME Top.alone, ~Top.stale, Agrees(Top.comic) PROVE FALSE
    <3>1. /\ Top.comic = id /\ nchap = Folders[id] /\ Stored[id] = Folders[id] /\ Folders[id] > 0
      BY <1>3, <1>6, <2>2 DEF Own, Agrees
    <3>2. Folders[id] \in Nat
      BY <1>6, ConstantsAssumption
    <3>3. k >= 0 /\ k < nchap
      BY <1>6, <2>2, <3>1
    <3> QED  BY <1>6, <3>1, <3>2, <3>3
  <2>3. NoTrap'
    BY <2>1, <2>2 DEF NoTrap, Agrees
  <2> QED  BY <1>4, <2>1, <2>3
<1>7. CASE nchap # Nil /\ ~(isDownloaded /\ id \in Saved /\ k \notin 0..(Stored[id] - 1))
  <2> DEFINE r == [title |-> k + 1, shows |-> Shown, index |-> k, prev |-> k > 0,
                   next |-> (nchap # Nil /\ k < nchap - 1), asked |-> asked]
             w == [Top EXCEPT !.reader = r]
  <2>1. stack' = WithTop(w) /\ crashed' = crashed /\ nchap \in Nat
    BY <1>7 DEF Load, Loads, Inv, TypeOK, InUse
  <2>2. /\ r \in ReaderType /\ r.title = k + 1 /\ r.shows = Shown /\ r.index = k
        /\ r.prev = (k > 0) /\ r.next = (k < nchap - 1) /\ r.asked = asked
    <3>1. Shown \in Comics \cup {Nil}
      BY DEF Shown, Inv, TypeOK, InUse
    <3> QED  BY <1>7, <3>1 DEF ReaderType
  <2> HIDE DEF r
  <2>3. /\ w \in ViewType /\ w.rows = Top.rows /\ w.reader = r /\ w.alone = Top.alone
        /\ w.comic = Top.comic /\ w.listed = Top.listed /\ w.stale = Top.stale
    BY <1>2, <2>2 DEF ViewType
  <2> HIDE DEF w
  <2>4. PICK v \in ViewType : v = w
    BY <2>3
  <2>5. stack' = WithTop(v) /\ crashed' = crashed /\ nchap \in Nat
    BY <2>1, <2>4
  <2>6. /\ v.rows = Top.rows /\ v.reader = r /\ v.alone = Top.alone /\ v.comic = Top.comic
        /\ v.listed = Top.listed /\ v.stale = Top.stale
    BY <2>3, <2>4
  <2>7. ASSUME v.alone PROVE Own(v)'
    <3>1. Top.alone /\ Own(Top)
      BY <1>3, <2>6, <2>7
    <3>2. Shown = id
      BY <3>1 DEF Own, Shown
    <3>3. ASSUME ~v.stale PROVE Fits(v.reader)'
      <4>1. asked = k + 1 /\ k >= 0 /\ (nchap > 0 => k < nchap)
        BY <1>7, <2>6, <3>1, <3>3
      <4> QED  BY <1>1, <2>5, <2>2, <2>6, <3>2, <4>1 DEF Fits
    <3> QED  BY <1>1, <2>6, <3>1, <3>3 DEF Own
  <2>8. Unwraps(v)'
    BY <1>1, <1>7, <2>6 DEF Unwraps
  <2>9. /\ stack' \in Seq(ViewType) /\ Undisturbed' /\ ChapSet'
        /\ \A n \in DOMAIN stack' :
             stack'[n].rows # Nil \/ stack'[n].reader # NoReader => nchap' # Nil
    BY <1>1, <2>5, <2>6, <2>7, <2>8, TopKept
  <2> QED  BY <1>1, <2>5, <2>9 DEF Inv, TypeOK, InUse, NoTrap
<1> QED  BY <1>5, <1>6, <1>7

LEMMA ReadStep ==
  ASSUME Inv, \/ ReadChap \/ PrevChap \/ NextChap
              \/ Listing /\ \E row \in 0..(Top.rows - 1) : TapRow(row)
  PROVE  Inv'
<1>1. /\ stack # <<>> /\ Open
  BY DEF ReadChap, PrevChap, NextChap, AtInfo, Reading, Listing, Open
<1>2. /\ Top \in ViewType /\ Unwraps(Top) /\ (Top.alone => Own(Top))
  <2>1. /\ Top \in ViewType /\ Top = stack[Len(stack)]
        /\ Len(stack) \in DOMAIN stack /\ Len(stack) \in 1..Len(stack)
    BY <1>1, TopTyped DEF Inv
  <2>2. Unwraps(stack[Len(stack)])
    BY <2>1, ViewsUnwrap
  <2> QED  BY <2>1, <2>2 DEF Inv, Undisturbed
<1>3. nchap \in Nat \cup {Nil}
  BY DEF Inv, TypeOK, InUse
<1>4. CASE ReadChap
  <2>1. Load(0, 1) /\ Top.rows = Nil /\ Top.reader = NoReader
    BY <1>4 DEF ReadChap, AtInfo, Reading, Open
  <2> QED  BY <1>1, <1>3, <2>1, LoadKept
<1>5. CASE PrevChap
  <2>1. Top.reader # NoReader /\ Top.reader.prev /\ Load(chap - 1, Top.reader.title - 1)
    BY <1>5 DEF PrevChap, Reading
  <2>2. chap \in Int /\ nchap \in Nat /\ nchap # Nil /\ Top.reader.title \in Int
    BY <1>2, <1>3, <2>1 DEF Unwraps, ViewType, ReaderType
  <2>3. Top.alone /\ ~Top.stale => Top.reader.title - 1 = (chap - 1) + 1 /\ chap - 1 >= 0
                     /\ (nchap > 0 => chap - 1 < nchap)
    <3> SUFFICES ASSUME Top.alone, ~Top.stale
                 PROVE  Top.reader.title - 1 = (chap - 1) + 1 /\ chap - 1 >= 0
                        /\ (nchap > 0 => chap - 1 < nchap)
      OBVIOUS
    <3>1. Fits(Top.reader) /\ crashed = Nil
      BY <1>1, <1>2, <2>1 DEF Own, Open
    <3>2. /\ Top.reader.index = chap /\ Top.reader.title = Top.reader.index + 1
          /\ Top.reader.title >= 1 /\ (nchap > 0 => Top.reader.title <= nchap)
      BY <3>1 DEF Fits
    <3>3. Top.reader.title > 1
      BY <2>1, <3>1 DEF Fits
    <3> QED  BY <2>2, <3>2, <3>3
  <2>4. chap - 1 \in Int /\ Top.reader.title - 1 \in Int
    BY <2>2
  <2> QED  BY <1>1, <2>1, <2>2, <2>3, <2>4, LoadKept
<1>6. CASE NextChap
  <2>1. Top.reader # NoReader /\ Top.reader.next /\ Load(chap + 1, Top.reader.title + 1)
    BY <1>6 DEF NextChap, Reading
  <2>2. chap \in Int /\ nchap \in Nat /\ nchap # Nil /\ Top.reader.title \in Int
    BY <1>2, <1>3, <2>1 DEF Unwraps, ViewType, ReaderType
  <2>3. Top.alone /\ ~Top.stale => Top.reader.title + 1 = (chap + 1) + 1 /\ chap + 1 >= 0
                     /\ (nchap > 0 => chap + 1 < nchap)
    <3> SUFFICES ASSUME Top.alone, ~Top.stale
                 PROVE  Top.reader.title + 1 = (chap + 1) + 1 /\ chap + 1 >= 0
                        /\ (nchap > 0 => chap + 1 < nchap)
      OBVIOUS
    <3>1. Fits(Top.reader) /\ crashed = Nil
      BY <1>1, <1>2, <2>1 DEF Own, Open
    <3>2. /\ Top.reader.index = chap /\ Top.reader.title = Top.reader.index + 1
          /\ Top.reader.title >= 1 /\ (nchap > 0 => Top.reader.title <= nchap)
      BY <3>1 DEF Fits
    <3>3. Top.reader.title < nchap
      BY <2>1, <3>1 DEF Fits
    <3> QED  BY <2>2, <3>2, <3>3
  <2>4. chap + 1 \in Int /\ Top.reader.title + 1 \in Int
    BY <2>2
  <2> QED  BY <1>1, <2>1, <2>2, <2>3, <2>4, LoadKept
<1>7. ASSUME Listing, NEW row \in 0..(Top.rows - 1), TapRow(row) PROVE Inv'
  <2>1. /\ Top.rows # Nil /\ row < Top.rows /\ Load(nchap - row - 1, Top.rows - row)
    BY <1>7 DEF TapRow, Listing
  <2>2. nchap \in Nat /\ nchap # Nil /\ Top.rows \in Nat /\ row \in Int /\ row >= 0
    BY <1>2, <1>3, <1>7, <2>1 DEF Unwraps, ViewType
  <2>3. Top.alone /\ ~Top.stale => Top.rows = nchap
    BY <1>2, <2>1 DEF Own
  <2>4. Top.alone /\ ~Top.stale => Top.rows - row = (nchap - row - 1) + 1 /\ nchap - row - 1 >= 0
                     /\ (nchap > 0 => nchap - row - 1 < nchap)
    BY <2>1, <2>2, <2>3
  <2>5. nchap - row - 1 \in Int /\ Top.rows - row \in Int
    BY <2>2
  <2> QED  BY <1>1, <2>1, <2>2, <2>4, <2>5, LoadKept
<1> QED  BY <1>4, <1>5, <1>6, <1>7

LEMMA BackStep ==
  ASSUME Inv, Back
  PROVE  Inv'
<1>1. /\ stack # <<>> /\ crashed' = crashed
      /\ UNCHANGED <<id, nchap, chap, isDownloaded, lists>>
      /\ stack' = CASE Reading -> WithTop([Top EXCEPT !.reader = NoReader,
                                                      !.stale = @ /\ Top.rows # Nil])
                    [] Listing -> WithTop([Top EXCEPT !.rows = Nil, !.stale = FALSE])
                    [] OTHER   -> Front(stack)
  BY DEF Back, Open
<1>2. /\ Top \in ViewType /\ Unwraps(Top) /\ (Top.alone => Own(Top))
  <2>1. /\ Top \in ViewType /\ Top = stack[Len(stack)]
        /\ Len(stack) \in DOMAIN stack /\ Len(stack) \in 1..Len(stack)
    BY <1>1, TopTyped DEF Inv
  <2>2. Unwraps(stack[Len(stack)])
    BY <2>1, ViewsUnwrap
  <2> QED  BY <2>1, <2>2 DEF Inv, Undisturbed
<1>3. ASSUME NEW v \in ViewType, stack' = WithTop(v), v.comic = Top.comic, v.alone = Top.alone,
             v.rows \in {Nil, Top.rows}, v.reader \in {NoReader, Top.reader},
             v.listed = Top.listed, v.stale = Top.stale \/ (v.rows = Nil /\ v.reader = NoReader)
      PROVE  Inv'
  <2>1. Unwraps(v)'
    BY <1>1, <1>2, <1>3 DEF Unwraps
  <2>2. v.alone => Own(v)'
    BY <1>1, <1>2, <1>3 DEF Own, Fits
  <2>3. /\ stack' \in Seq(ViewType) /\ Undisturbed' /\ ChapSet'
        /\ \A n \in DOMAIN stack' :
             stack'[n].rows # Nil \/ stack'[n].reader # NoReader => nchap' # Nil
    BY <1>1, <1>3, <2>1, <2>2, TopKept
  <2> QED  BY <1>1, <2>3 DEF Inv, TypeOK, InUse, NoTrap
<1>4. CASE Reading
  <2> DEFINE v == [Top EXCEPT !.reader = NoReader, !.stale = @ /\ Top.rows # Nil]
  <2>1. stack' = WithTop(v)
    BY <1>1, <1>4 DEF Listing
  <2>2. NoReader \in ReaderType
    BY DEF NoReader, ReaderType
  <2>3. /\ v \in ViewType /\ v.comic = Top.comic /\ v.alone = Top.alone
        /\ v.rows = Top.rows /\ v.reader = NoReader /\ v.listed = Top.listed
        /\ v.stale = Top.stale \/ v.rows = Nil
    BY <1>2, <2>2 DEF ViewType
  <2> HIDE DEF v
  <2> QED  BY <1>3, <2>1, <2>3
<1>5. CASE ~Reading /\ Listing
  <2> DEFINE v == [Top EXCEPT !.rows = Nil, !.stale = FALSE]
  <2>1. stack' = WithTop(v)
    BY <1>1, <1>5
  <2>2. /\ v \in ViewType /\ v.comic = Top.comic /\ v.alone = Top.alone
        /\ v.rows = Nil /\ v.reader = Top.reader /\ v.listed = Top.listed
    BY <1>2 DEF ViewType
  <2>3. Top.reader = NoReader
    BY <1>5 DEF Reading, Listing
  <2> HIDE DEF v
  <2> QED  BY <1>3, <2>1, <2>2, <2>3
<1>6. CASE ~Reading /\ ~Listing
  <2> DEFINE m == Len(stack) - 1
  <2>1. /\ stack' \in Seq(ViewType) /\ Len(stack') = m /\ m \in Nat
        /\ \A n \in 1..m : stack'[n] = stack[n]
    BY <1>1, <1>6, Popped, TopTyped DEF Inv
  <2>2. \A n \in 1..m : Unwraps(stack[n]) /\ ~stack[n].alone
    BY <1>1, TopTyped, ViewsUnwrap, LowerViews DEF Inv
  <2> HIDE DEF m
  <2>3. \A n \in 1..m : ~stack'[n].alone
    BY <2>1, <2>2
  <2>4. ASSUME NEW n \in 1..m PROVE Unwraps(stack[n])'
    BY <1>1, <2>1, <2>2 DEF Unwraps
  <2>5. stack' # <<>> => ~stack'[Len(stack')].alone
    <3>1. stack' # <<>> => m >= 1
      BY <2>1
    <3> QED  BY <2>1, <2>3, <3>1
  <2>6. /\ Undisturbed' /\ ChapSet'
        /\ \A n \in DOMAIN stack' :
             stack'[n].rows # Nil \/ stack'[n].reader # NoReader => nchap' # Nil
    BY <2>1, <2>3, <2>4, <2>5, StackKept
  <2> QED  BY <1>1, <2>1, <2>6 DEF Inv, TypeOK, InUse, NoTrap
<1> QED  BY <1>4, <1>5, <1>6

LEMMA FreshStart ==
  ASSUME id \in {Nil}, nchap = Nil, chap = Nil, isDownloaded = FALSE, stack = <<>>,
         lists = [c \in Comics |-> 0], crashed = Nil
  PROVE  Inv
<1>1. stack \in Seq(ViewType) /\ DOMAIN stack = {} /\ lists \in [Comics -> 0..MaxLists]
  BY ConstantsAssumption
<1> QED  BY <1>1 DEF Inv, TypeOK, InUse, Undisturbed, ChapSet, NoTrap

LEMMA InvInit == Init => Inv
BY FreshStart DEF Init

LEMMA LaunchStep ==
  ASSUME Launch
  PROVE  Inv'
<1>1. /\ id' = Nil /\ nchap' = Nil /\ chap' = Nil /\ isDownloaded' = FALSE /\ stack' = <<>>
      /\ lists' = [c \in Comics |-> 0] /\ crashed' = Nil
  BY DEF Launch
<1>2. stack' \in Seq(ViewType) /\ DOMAIN stack' = {} /\ lists' \in [Comics -> 0..MaxLists]
  BY <1>1, ConstantsAssumption
<1> QED  BY <1>1, <1>2 DEF Inv, TypeOK, InUse, Undisturbed, ChapSet, NoTrap

LEMMA InvStep == Inv /\ [Next]_vars => Inv'
<1> SUFFICES ASSUME Inv, [Next]_vars PROVE Inv'
  OBVIOUS
<1>1. CASE UNCHANGED vars
  <2>1. /\ id' = id /\ nchap' = nchap /\ chap' = chap /\ isDownloaded' = isDownloaded
        /\ stack' = stack /\ lists' = lists /\ crashed' = crashed
    BY <1>1 DEF vars
  <2>2. TypeOK' /\ NoTrap'
    BY <2>1 DEF Inv, TypeOK, InUse, NoTrap
  <2>3. Undisturbed' /\ ChapSet'
    BY <2>1 DEF Inv, Undisturbed, Own, Fits, ChapSet
  <2> QED  BY <2>2, <2>3 DEF Inv
<1>2. CASE \E c \in Comics : OpenInfo(c) \/ ReviewArrives(c) \/ ListingArrives(c) \/ ListingFails(c)
  BY <1>2, OpenStep, ListingStep
<1>3. CASE \/ ReadChap \/ PrevChap \/ NextChap
           \/ Listing /\ \E row \in 0..(Top.rows - 1) : TapRow(row)
  BY <1>3, ReadStep
<1> QED  BY <1>1, <1>2, <1>3, ChapListStep, BackStep, LaunchStep DEF Next

LEMMA InvHolds == Spec => []Inv
BY InvInit, InvStep, PTL DEF Spec

-----------------------------------------------------------------------------
(* The theorems *)

(* The four globals keep their types, and nchap is never nil under a list  *)
(* or a reader (ShowChapViewController, ChapterViewController), which      *)
(* unwrap it.                                                              *)
THEOREM ReaderTypeCorrect == Spec => []TypeOK
<1>1. Inv => TypeOK
  BY DEF Inv
<1> QED  BY InvHolds, <1>1, PTL

(* Over a comic that nothing else disturbed, the reader shows the chapter  *)
(* that its title and the tap that led there name, and leads back and on   *)
(* by the count in nchap (ChapterViewController.Init, prevChap, nextChap;  *)
(* ShowChapViewController, whose rows are in descending order).  That is   *)
(* the number of the comic's own chapters if it is in Realm or its folders *)
(* were listed since it was opened (InfoViewController); until then, or if *)
(* that listing failed, it is the number of another comic's.               *)
THEOREM ReaderIsRight == Spec => []ReaderRight
<1>1. Inv => ReaderRight
  <2> SUFFICES ASSUME Inv, NEW n \in DOMAIN stack, stack[n].alone, ~stack[n].stale,
                      stack[n].reader # NoReader, Agrees(stack[n].comic)
               PROVE  LET c == stack[n].comic
                          r == stack[n].reader
                      IN /\ r.shows = c
                         /\ r.index + 1 = r.title /\ r.title = r.asked /\ r.title >= 1
                         /\ r.prev = (r.title > 1) /\ r.next = (r.title < nchap)
                         /\ c \in Saved \/ stack[n].listed =>
                              r.title \in 1..Folders[c] /\ r.next = (r.title < Folders[c])
    BY DEF ReaderRight
  <2>1. stack[n] \in ViewType
    BY LenProperties, ElementOfSeq DEF Inv, TypeOK, InUse
  <2>2. /\ stack[n].comic \in Comics /\ Folders[stack[n].comic] \in Nat
        /\ stack[n].reader.title \in Int
    BY <2>1, ConstantsAssumption DEF ViewType, ReaderType
  <2>3. Own(stack[n])
    BY DEF Inv, Undisturbed
  <2>4. /\ Fits(stack[n].reader) /\ stack[n].comic = id /\ Folders[id] > 0
        /\ id \in Saved \/ stack[n].listed => nchap = Folders[id]
    BY <2>3 DEF Own, Agrees
  <2> QED  BY <2>2, <2>4 DEF Fits
<1> QED  BY InvHolds, <1>1, PTL

(* Nor does the process index past the chapters that Realm has of such a   *)
(* comic (loadChapterFromRealm), and a count of chapters is missed only by *)
(* the first tap on the comic's own page (readChap, ShowChap).             *)
THEOREM NothingTraps == Spec => []NoTrap
<1>1. Inv => NoTrap
  BY DEF Inv
<1> QED  BY InvHolds, <1>1, PTL

-----------------------------------------------------------------------------
(* The inductive invariant of ChapterPages *)

(* Where the pages of the last load are in the view. *)
Laid == {i \in DOMAIN read : read[i].load = Latest}
(* Where the page v ends. *)
End(v) == v.y + Heights[loads[v.load].chapter][v.page]

(* The requests are for pages of their load's chapter, and so is what they *)
(* laid; a calm load found no request in flight.                           *)
Requested ==
  /\ loads[Latest].chapter = titled
  /\ \A l \in DOMAIN loads :
       loads[l].pages \subseteq Pages(loads[l].chapter) /\ (loads[l].listing => loads[l].pages = {})
  /\ \A i \in DOMAIN read :
       read[i].load \in DOMAIN loads /\ read[i].page \in Pages(loads[read[i].load].chapter)
  /\ calm => \A l \in DOMAIN loads : l # Latest => ~loads[l].listing /\ loads[l].pages = {}

Whole ==
  /\ loads[Latest].listing => Laid = {}
  /\ \A i \in Laid : read[i].page \notin loads[Latest].pages
  /\ \A i, j \in Laid : read[i].page = read[j].page => i = j
  /\ ~loads[Latest].listing /\ ~loads[Latest].lost =>
       \A p \in Pages(titled) : p \in loads[Latest].pages \/ \E i \in Laid : read[i].page = p

Tiled ==
  /\ \A i, j \in Laid : i < j => End(read[i]) <= read[j].y
  /\ \A i \in Laid : End(read[i]) <= loads[Latest].height
  /\ \A y \in 0..(loads[Latest].height - 1) :
       \E i \in Laid : read[i].y <= y /\ y < End(read[i])

OnTop ==
  calm =>
    /\ \A i \in Laid : \A j \in DOMAIN read : j > i => j \in Laid
    /\ Laid # {} => contentHeight = loads[Latest].height

PagesInv == PagesTypeOK /\ Requested /\ Whole /\ Tiled /\ OnTop

-----------------------------------------------------------------------------
(* Facts about pages and loads *)

LEMMA HeightOfPage ==
  ASSUME NEW k \in Chapters, NEW p \in Pages(k)
  PROVE  Heights[k][p] \in Nat /\ Heights[k][p] >= 1 /\ p \in Nat
<1>1. Heights[k] \in Seq(Nat \ {0})
  BY PagesAssumption, LenProperties DEF Chapters
<1>2. DOMAIN Heights[k] = 1..Len(Heights[k]) /\ Len(Heights[k]) \in Nat
  BY <1>1, LenProperties
<1>3. p \in 1..Len(Heights[k])
  BY <1>2 DEF Pages
<1>4. Heights[k][p] \in Nat \ {0}
  BY <1>1, <1>3, ElementOfSeq
<1> QED  BY <1>2, <1>3, <1>4

LEMMA LoadsTyped ==
  ASSUME PagesTypeOK
  PROVE  /\ Latest \in Nat /\ Latest \in DOMAIN loads /\ DOMAIN loads = 1..Latest
         /\ \A l \in DOMAIN loads : loads[l] \in LoadType
<1>1. loads \in Seq(LoadType) /\ Latest >= 1
  BY DEF PagesTypeOK
<1>2. Latest \in Nat /\ DOMAIN loads = 1..Latest
  BY <1>1, LenProperties DEF Latest
<1>3. \A l \in 1..Latest : loads[l] \in LoadType
  BY <1>1, ElementOfSeq DEF Latest
<1> QED  BY <1>1, <1>2, <1>3

LEMMA PagesTyped ==
  ASSUME PagesTypeOK, Requested
  PROVE  /\ DOMAIN read = 1..Len(read) /\ Len(read) \in Nat
         /\ \A i \in DOMAIN read :
              /\ read[i] \in PageType /\ read[i].y \in Nat /\ read[i].load \in Nat
              /\ End(read[i]) \in Nat /\ read[i].y < End(read[i])
<1>1. DOMAIN read = 1..Len(read) /\ Len(read) \in Nat
  BY LenProperties DEF PagesTypeOK
<1>2. ASSUME NEW i \in DOMAIN read
      PROVE  /\ read[i] \in PageType /\ read[i].y \in Nat /\ read[i].load \in Nat
             /\ End(read[i]) \in Nat /\ read[i].y < End(read[i])
  <2> DEFINE k == loads[read[i].load].chapter
             p == read[i].page
  <2>1. read[i] \in PageType
    BY <1>1, ElementOfSeq DEF PagesTypeOK
  <2>2. read[i].load \in DOMAIN loads /\ p \in Pages(k)
    BY DEF Requested
  <2>3. k \in Chapters
    BY <2>2, LoadsTyped DEF LoadType
  <2>4. Heights[k][p] \in Nat /\ Heights[k][p] >= 1
    BY <2>2, <2>3, HeightOfPage
  <2>5. End(read[i]) = read[i].y + Heights[k][p]
    BY DEF End
  <2>6. read[i].y \in Nat /\ read[i].load \in Nat
    BY <2>1 DEF PageType
  <2> HIDE DEF k, p
  <2> QED  BY <2>1, <2>4, <2>5, <2>6
<1> QED  BY <1>1, <1>2

(* Load l becomes e; its chapter stays, and so where its pages end. *)
LEMMA LoadChanged ==
  ASSUME PagesTypeOK, NEW l \in DOMAIN loads, NEW e \in LoadType, loads' = [loads EXCEPT ![l] = e]
  PROVE  /\ loads' \in Seq(LoadType) /\ DOMAIN loads' = DOMAIN loads /\ Latest' = Latest
         /\ loads'[l] = e
         /\ \A m \in DOMAIN loads : m # l => loads'[m] = loads[m]
<1>1. DOMAIN loads = 1..Len(loads) /\ loads \in Seq(LoadType)
  BY LenProperties DEF PagesTypeOK
<1>2. loads' \in Seq(LoadType) /\ Len(loads') = Len(loads)
  BY <1>1, ExceptSeq
<1>3. DOMAIN loads' = DOMAIN loads /\ loads'[l] = e
      /\ \A m \in DOMAIN loads : m # l => loads'[m] = loads[m]
  BY <1>1
<1> QED  BY <1>2, <1>3 DEF Latest

-----------------------------------------------------------------------------
(* Every step keeps the invariant *)

LEMMA PagesInvInit == PagesInit => PagesInv
<1> SUFFICES ASSUME PagesInit PROVE PagesInv
  OBVIOUS
<1>1. NewLoad(titled) \in LoadType /\ titled \in Chapters /\ NewLoad(titled).chapter = titled
      /\ NewLoad(titled).pages = {} /\ NewLoad(titled).height = 0 /\ NewLoad(titled).listing
  BY DEF PagesInit, NewLoad, LoadType
<1>2. loads \in Seq(LoadType) /\ Latest = 1 /\ loads[1] = NewLoad(titled) /\ DOMAIN loads = {1}
  BY <1>1 DEF PagesInit, Latest
<1>3. read = <<>> /\ read \in Seq(PageType) /\ DOMAIN read = {} /\ Laid = {}
  BY DEF PagesInit, Laid
<1>4. PagesTypeOK
  BY <1>1, <1>2, <1>3 DEF PagesInit, PagesTypeOK
<1>5. Requested
  BY <1>1, <1>2, <1>3 DEF Requested
<1>6. Whole /\ Tiled /\ OnTop
  BY <1>1, <1>2, <1>3 DEF Whole, Tiled, OnTop
<1> QED  BY <1>4, <1>5, <1>6 DEF PagesInv

LEMMA LoadPagesStep ==
  ASSUME PagesInv, NEW k \in Chapters, LoadPages(k)
  PROVE  PagesInv'
<1> DEFINE m == Latest
           e == NewLoad(k)
<1>1. /\ titled' = k /\ loads' = Append(loads, e) /\ calm' = Settled
      /\ read' = read /\ contentHeight' = contentHeight
  BY DEF LoadPages
<1>2. /\ e \in LoadType /\ e.chapter = k /\ e.pages = {} /\ e.height = 0 /\ e.listing
  BY DEF NewLoad, LoadType
<1>3. /\ m \in Nat /\ m >= 1 /\ DOMAIN loads = 1..m /\ loads \in Seq(LoadType) /\ m = Len(loads)
  BY LoadsTyped DEF PagesInv, PagesTypeOK, Latest
<1> HIDE DEF m, e
<1>4. /\ loads' \in Seq(LoadType) /\ Len(loads') = m + 1 /\ DOMAIN loads' = 1..(m + 1)
      /\ loads'[m + 1] = e /\ \A l \in 1..m : loads'[l] = loads[l]
  BY <1>1, <1>2, <1>3
<1>5. Latest' = m + 1
  BY <1>4 DEF Latest
<1>6. \A i \in DOMAIN read : read[i].load \in 1..m
  BY <1>3 DEF PagesInv, Requested
<1>7. Laid' = {}
  BY <1>1, <1>3, <1>5, <1>6 DEF Laid
<1>8. PagesTypeOK'
  BY <1>1, <1>3, <1>4, <1>5 DEF PagesInv, PagesTypeOK, Settled
<1>9. Requested'
  <2>1. loads'[Latest'].chapter = titled'
    BY <1>1, <1>2, <1>4, <1>5
  <2>2. ASSUME NEW l \in DOMAIN loads'
        PROVE  /\ loads'[l].pages \subseteq Pages(loads'[l].chapter)
               /\ loads'[l].listing => loads'[l].pages = {}
    <3>1. CASE l = m + 1
      BY <1>2, <1>4, <3>1
    <3>2. CASE l \in 1..m
      BY <1>3, <1>4, <3>2 DEF PagesInv, Requested
    <3> QED  BY <1>3, <1>4, <3>1, <3>2
  <2>3. ASSUME NEW i \in DOMAIN read'
        PROVE  /\ read'[i].load \in DOMAIN loads'
               /\ read'[i].page \in Pages(loads'[read'[i].load].chapter)
    <3>1. read'[i] = read[i] /\ read[i].load \in 1..m
          /\ read[i].page \in Pages(loads[read[i].load].chapter)
      BY <1>1, <1>6 DEF PagesInv, Requested
    <3>2. read[i].load \in 1..(m + 1)
      BY <1>3, <3>1
    <3> QED  BY <1>4, <3>1, <3>2
  <2>4. ASSUME calm', NEW l \in DOMAIN loads', l # Latest'
        PROVE  ~loads'[l].listing /\ loads'[l].pages = {}
    <3>1. l \in 1..m
      BY <1>3, <1>4, <1>5, <2>4
    <3>2. Settled
      BY <1>1, <2>4
    <3> QED  BY <1>3, <1>4, <3>1, <3>2 DEF Settled
  <2> QED  BY <2>1, <2>2, <2>3, <2>4 DEF Requested
<1>10. Whole' /\ Tiled' /\ OnTop'
  BY <1>2, <1>4, <1>5, <1>7 DEF Whole, Tiled, OnTop
<1> QED  BY <1>8, <1>9, <1>10 DEF PagesInv

(* The requests of load l change, and nothing is laid. *)
LEMMA AnswerStep ==
  ASSUME PagesInv, NEW l \in DOMAIN loads, NEW e \in LoadType, loads' = [loads EXCEPT ![l] = e],
         UNCHANGED <<titled, read, contentHeight, calm>>,
         loads[l].listing \/ loads[l].pages # {},
         e.chapter = loads[l].chapter, e.height = loads[l].height, ~e.listing,
         e.pages \subseteq Pages(loads[l].chapter),
         l = Latest =>
           /\ \A i \in Laid : read[i].page \notin e.pages
           /\ ~e.lost =>
                \A p \in Pages(titled) : p \in e.pages \/ \E i \in Laid : read[i].page = p
  PROVE  PagesInv'
<1>1. /\ loads' \in Seq(LoadType) /\ DOMAIN loads' = DOMAIN loads /\ Latest' = Latest
      /\ loads'[l] = e
      /\ \A m \in DOMAIN loads : m # l => loads'[m] = loads[m]
  BY LoadChanged DEF PagesInv
<1>2. /\ titled' = titled /\ read' = read /\ contentHeight' = contentHeight /\ calm' = calm
  OBVIOUS
<1>3. \A m \in DOMAIN loads : loads'[m].chapter = loads[m].chapter
                              /\ loads'[m].height = loads[m].height
  BY <1>1
<1>4. Latest \in DOMAIN loads
  BY LoadsTyped DEF PagesInv
<1>5. Laid' = Laid
  BY <1>1, <1>2 DEF Laid
<1>6. \A i \in DOMAIN read : End(read[i])' = End(read[i])
  BY <1>2, <1>3 DEF End, PagesInv, Requested
<1>7. PagesTypeOK'
  BY <1>1, <1>2 DEF PagesInv, PagesTypeOK
<1>8. Requested'
  <2>1. loads'[Latest].chapter = titled
    BY <1>3, <1>4 DEF PagesInv, Requested
  <2>2. ASSUME NEW m \in DOMAIN loads
        PROVE  /\ loads'[m].pages \subseteq Pages(loads'[m].chapter)
               /\ loads'[m].listing => loads'[m].pages = {}
    <3>1. CASE m = l
      BY <1>1, <3>1
    <3>2. CASE m # l
      BY <1>1, <3>2 DEF PagesInv, Requested
    <3> QED  BY <3>1, <3>2
  <2>3. \A i \in DOMAIN read :
          read[i].load \in DOMAIN loads /\ read[i].page \in Pages(loads'[read[i].load].chapter)
    BY <1>3 DEF PagesInv, Requested
  <2>4. ASSUME calm, NEW m \in DOMAIN loads, m # Latest
        PROVE  ~loads'[m].listing /\ loads'[m].pages = {}
    <3>1. ~loads[m].listing /\ loads[m].pages = {}
      BY <2>4 DEF PagesInv, Requested
    <3>2. m # l
      BY <3>1
    <3> QED  BY <1>1, <3>1, <3>2
  <2> QED  BY <1>1, <1>2, <2>1, <2>2, <2>3, <2>4 DEF Requested
<1>9. Whole'
  <2>1. CASE l = Latest
    <3>1. \A i, j \in Laid : read[i].page = read[j].page => i = j
      BY DEF PagesInv, Whole
    <3> QED  BY <1>1, <1>2, <1>5, <2>1, <3>1 DEF Whole
  <2>2. CASE l # Latest
    <3>1. loads'[Latest] = loads[Latest]
      BY <1>1, <1>4, <2>2
    <3> QED  BY <1>1, <1>2, <1>5, <3>1 DEF PagesInv, Whole
  <2> QED  BY <2>1, <2>2
<1>10. Tiled'
  <2>1. \A i \in Laid : i \in DOMAIN read
    BY DEF Laid
  <2>2. loads'[Latest].height = loads[Latest].height
    BY <1>3, <1>4
  <2>3. \A i \in Laid : End(read[i])' = End(read[i]) /\ read'[i].y = read[i].y
    BY <1>2, <1>6, <2>1
  <2> QED  BY <1>1, <1>5, <2>2, <2>3 DEF PagesInv, Tiled
<1>11. OnTop'
  BY <1>1, <1>2, <1>3, <1>4, <1>5 DEF PagesInv, OnTop
<1> QED  BY <1>7, <1>8, <1>9, <1>10, <1>11 DEF PagesInv

LEMMA PageStep ==
  ASSUME PagesInv, NEW l \in DOMAIN loads, NEW p \in loads[l].pages, PageArrives(l, p)
  PROVE  PagesInv'
<1> DEFINE n == Len(read)
           v == [load |-> l, page |-> p, y |-> loads[l].height]
           h == loads[l].height + Heights[loads[l].chapter][p]
           e == [loads[l] EXCEPT !.pages = loads[l].pages \ {p}, !.height = h]
<1>1. /\ read' = Append(read, v) /\ contentHeight' = h /\ titled' = titled /\ calm' = calm
      /\ loads' = [loads EXCEPT ![l] = e]
  BY DEF PageArrives
<1>2. /\ loads[l] \in LoadType /\ l \in Nat /\ Latest \in DOMAIN loads
  BY LoadsTyped DEF PagesInv
<1>3. /\ loads[l].chapter \in Chapters /\ p \in Pages(loads[l].chapter) /\ ~loads[l].listing
      /\ loads[l].height \in Nat /\ loads[l].pages \subseteq Nat
  BY <1>2 DEF PagesInv, Requested, LoadType
<1>4. /\ Heights[loads[l].chapter][p] \in Nat /\ Heights[loads[l].chapter][p] >= 1 /\ p \in Nat
  BY <1>3, HeightOfPage
<1>5. h \in Nat /\ loads[l].height < h
  BY <1>3, <1>4
<1>6. /\ e \in LoadType /\ e.chapter = loads[l].chapter /\ ~e.listing
      /\ e.pages = loads[l].pages \ {p} /\ e.height = h /\ e.lost = loads[l].lost
  BY <1>2, <1>3, <1>5 DEF LoadType
<1>7. v \in PageType /\ v.load = l /\ v.page = p /\ v.y = loads[l].height
  BY <1>2, <1>3, <1>4 DEF PageType
<1>8. /\ loads' \in Seq(LoadType) /\ DOMAIN loads' = DOMAIN loads /\ Latest' = Latest
      /\ loads'[l] = e
      /\ \A m \in DOMAIN loads : m # l => loads'[m] = loads[m]
  BY <1>1, <1>6, LoadChanged DEF PagesInv
<1>9. h = v.y + Heights[e.chapter][v.page]
  BY <1>6, <1>7
<1>10. /\ n \in Nat /\ DOMAIN read = 1..n /\ read \in Seq(PageType)
  BY LenProperties DEF PagesInv, PagesTypeOK
<1> HIDE DEF n, v, h, e
<1>11. /\ read' \in Seq(PageType) /\ Len(read') = n + 1 /\ DOMAIN read' = 1..(n + 1)
       /\ read'[n + 1] = v /\ \A i \in 1..n : read'[i] = read[i]
  BY <1>1, <1>7, <1>10 DEF n
<1>12. \A m \in DOMAIN loads : loads'[m].chapter = loads[m].chapter
  BY <1>6, <1>8
<1>13. \A i \in 1..n : End(read[i])' = End(read[i]) /\ read'[i] = read[i]
  BY <1>10, <1>11, <1>12 DEF End, PagesInv, Requested
<1>14. ASSUME NEW i, i = n + 1 PROVE End(read[i])' = h
  <2>1. read'[i] = v /\ v.load = l /\ loads'[l].chapter = e.chapter
    BY <1>7, <1>8, <1>11, <1>14
  <2>2. End(read[i])' = v.y + Heights[e.chapter][v.page]
    BY <2>1 DEF End
  <2> QED  BY <1>9, <2>2
<1>15. \A i \in 1..(n + 1) : i \in 1..n \/ i = n + 1
  BY <1>10
<1>16. Laid' = IF l = Latest THEN Laid \cup {n + 1} ELSE Laid
  <2>1. \A i \in 1..(n + 1) : i \in Laid' <=> read'[i].load = Latest
    BY <1>8, <1>11 DEF Laid
  <2>2. \A i \in 1..n : i \in Laid <=> read[i].load = Latest
    BY <1>10 DEF Laid
  <2>3. Laid' \subseteq 1..(n + 1) /\ Laid \subseteq 1..n
    BY <1>10, <1>11 DEF Laid
  <2>4. n + 1 \notin 1..n /\ 1..n \subseteq 1..(n + 1) /\ n + 1 \in 1..(n + 1)
    BY <1>10
  <2>5. n + 1 \in Laid' <=> l = Latest
    BY <1>7, <1>11, <2>1, <2>4
  <2>6. \A i \in 1..n : i \in Laid' <=> i \in Laid
    BY <1>13, <2>1, <2>2, <2>4
  <2>7. CASE l = Latest
    <3>1. Laid' \subseteq Laid \cup {n + 1}
      BY <1>15, <2>3, <2>6
    <3>2. Laid \cup {n + 1} \subseteq Laid'
      BY <2>3, <2>5, <2>6, <2>7
    <3> QED  BY <2>7, <3>1, <3>2
  <2>8. CASE l # Latest
    <3>1. Laid' \subseteq Laid
      BY <1>15, <2>3, <2>5, <2>6, <2>8
    <3>2. Laid \subseteq Laid'
      BY <2>3, <2>6
    <3> QED  BY <2>8, <3>1, <3>2
  <2> QED  BY <2>7, <2>8
<1>17. PagesTypeOK'
  BY <1>1, <1>5, <1>8, <1>11 DEF PagesInv, PagesTypeOK
<1>18. Requested'
  <2>1. loads'[Latest].chapter = titled
    BY <1>2, <1>12 DEF PagesInv, Requested
  <2>2. ASSUME NEW m \in DOMAIN loads
        PROVE  /\ loads'[m].pages \subseteq Pages(loads'[m].chapter)
               /\ loads'[m].listing => loads'[m].pages = {}
    <3>1. CASE m = l
      BY <1>6, <1>8, <3>1 DEF PagesInv, Requested
    <3>2. CASE m # l
      BY <1>8, <3>2 DEF PagesInv, Requested
    <3> QED  BY <3>1, <3>2
  <2>3. ASSUME NEW i \in 1..(n + 1)
        PROVE  read'[i].load \in DOMAIN loads
               /\ read'[i].page \in Pages(loads'[read'[i].load].chapter)
    <3>1. CASE i \in 1..n
      BY <1>10, <1>11, <1>12, <3>1 DEF PagesInv, Requested
    <3>2. CASE i = n + 1
      BY <1>3, <1>7, <1>11, <1>12, <3>2
    <3> QED  BY <1>15, <3>1, <3>2
  <2>4. ASSUME calm, NEW m \in DOMAIN loads, m # Latest
        PROVE  ~loads'[m].listing /\ loads'[m].pages = {}
    <3>1. ~loads[m].listing /\ loads[m].pages = {}
      BY <2>4 DEF PagesInv, Requested
    <3>2. m # l
      BY <3>1
    <3> QED  BY <1>8, <3>1, <3>2
  <2> QED  BY <1>1, <1>8, <1>11, <2>1, <2>2, <2>3, <2>4 DEF Requested
<1>19. CASE l # Latest
  <2>1. Laid' = Laid /\ loads'[Latest] = loads[Latest]
    BY <1>2, <1>8, <1>16, <1>19
  <2>2. \A i \in Laid : i \in 1..n
    BY <1>10 DEF Laid
  <2>3. \A i \in Laid : read'[i] = read[i] /\ End(read[i])' = End(read[i])
    BY <1>13, <2>2
  <2>4. Whole'
    <3>1. \A i \in Laid : read'[i].page = read[i].page
      BY <2>3
    <3>2. /\ loads'[Latest].listing = loads[Latest].listing /\ loads'[Latest].lost = loads[Latest].lost
          /\ loads'[Latest].pages = loads[Latest].pages
      BY <2>1
    <3>3. /\ loads[Latest].listing => Laid = {}
          /\ \A i \in Laid : read'[i].page \notin loads[Latest].pages
          /\ \A i, j \in Laid : read'[i].page = read'[j].page => i = j
      BY <3>1 DEF PagesInv, Whole
    <3>4. ~loads[Latest].listing /\ ~loads[Latest].lost =>
            \A q \in Pages(titled) : q \in loads[Latest].pages \/ \E i \in Laid : read'[i].page = q
      BY <3>1 DEF PagesInv, Whole
    <3> QED  BY <1>1, <1>8, <2>1, <3>2, <3>3, <3>4 DEF Whole
  <2>5. Tiled'
    BY <1>8, <2>1, <2>3 DEF PagesInv, Tiled
  <2>6. ~calm
    BY <1>19 DEF PagesInv, Requested
  <2>7. OnTop'
    BY <1>1, <2>6 DEF OnTop
  <2> QED  BY <1>17, <1>18, <2>4, <2>5, <2>7 DEF PagesInv
<1>20. CASE l = Latest
  <2>1. Laid' = Laid \cup {n + 1} /\ loads'[Latest] = e
    BY <1>8, <1>16, <1>20
  <2>2. \A i \in Laid : i \in 1..n /\ read'[i] = read[i] /\ End(read[i])' = End(read[i])
    BY <1>10, <1>13 DEF Laid
  <2>3. Whole'
    <3>1. ~e.listing
      BY <1>6
    <3>2. \A i \in Laid' : read'[i].page \notin e.pages
      BY <1>6, <1>7, <1>11, <1>20, <2>1, <2>2 DEF PagesInv, Whole
    <3>3. \A i \in Laid : read'[i].page # p
      BY <1>20, <2>2 DEF PagesInv, Whole
    <3>4. \A i, j \in Laid' : read'[i].page = read'[j].page => i = j
      BY <1>7, <1>11, <2>1, <2>2, <3>3 DEF PagesInv, Whole
    <3>5. ASSUME ~e.lost, NEW q \in Pages(titled)
          PROVE  q \in e.pages \/ \E i \in Laid' : read'[i].page = q
      <4>1. q \in loads[l].pages \/ \E i \in Laid : read[i].page = q
        BY <1>3, <1>6, <1>20, <3>5 DEF PagesInv, Whole
      <4>2. CASE q = p
        BY <1>7, <1>11, <2>1, <4>2
      <4>3. CASE q \in loads[l].pages /\ q # p
        BY <1>6, <4>3
      <4>4. CASE \E i \in Laid : read[i].page = q
        BY <2>1, <2>2, <4>4
      <4> QED  BY <4>1, <4>2, <4>3, <4>4
    <3> QED  BY <1>1, <1>8, <2>1, <3>1, <3>2, <3>4, <3>5 DEF Whole
  <2>4. \A i \in Laid : End(read[i]) \in Nat /\ read[i].y \in Nat /\ End(read[i]) <= loads[l].height
    BY <1>20, PagesTyped DEF Laid, PagesInv, Tiled
  <2>5. Tiled'
    <3>1. ASSUME NEW i \in Laid', NEW j \in Laid', i < j
          PROVE  End(read[i])' <= read'[j].y
      <4>1. i \in Laid
        BY <1>10, <2>1, <2>2, <3>1
      <4>2. CASE j \in Laid
        BY <2>2, <3>1, <4>1, <4>2 DEF PagesInv, Tiled
      <4>3. CASE j = n + 1
        BY <1>7, <1>11, <2>2, <2>4, <4>1, <4>3
      <4> QED  BY <2>1, <4>2, <4>3
    <3>2. ASSUME NEW i \in Laid' PROVE End(read[i])' <= h
      <4>1. CASE i \in Laid
        <5>1. End(read[i])' <= loads[l].height /\ End(read[i])' \in Nat
          BY <2>2, <2>4, <4>1
        <5> QED  BY <1>3, <1>5, <5>1
      <4>2. CASE i = n + 1
        BY <1>5, <1>14, <4>2
      <4> QED  BY <2>1, <4>1, <4>2
    <3>3. ASSUME NEW y \in 0..(h - 1)
          PROVE  \E i \in Laid' : read'[i].y <= y /\ y < End(read[i])'
      <4>1. CASE y < loads[l].height
        <5>1. y \in 0..(loads[Latest].height - 1)
          BY <1>3, <1>5, <1>20, <4>1
        <5>2. PICK i \in Laid : read[i].y <= y /\ y < End(read[i])
          BY <5>1 DEF PagesInv, Tiled
        <5> QED  BY <2>1, <2>2, <5>2
      <4>2. CASE ~(y < loads[l].height)
        <5>1. PICK i \in Laid' : i = n + 1
          BY <2>1
        <5>2. read'[i].y <= y /\ y < End(read[i])'
          BY <1>3, <1>5, <1>7, <1>11, <1>14, <4>2, <5>1
        <5> QED  BY <5>2
      <4> QED  BY <4>1, <4>2
    <3> QED  BY <1>6, <1>8, <2>1, <3>1, <3>2, <3>3 DEF Tiled
  <2>6. OnTop'
    <3>1. ASSUME calm, NEW i \in Laid', NEW j \in 1..(n + 1), j > i
          PROVE  j \in Laid'
      <4>1. CASE j = n + 1
        BY <2>1, <4>1
      <4>2. CASE j \in 1..n
        <5>1. i # n + 1
          BY <1>10, <3>1, <4>2
        <5> QED  BY <1>10, <2>1, <3>1, <4>2, <5>1 DEF PagesInv, OnTop
      <4> QED  BY <1>15, <4>1, <4>2
    <3> QED  BY <1>1, <1>6, <1>8, <1>11, <2>1, <3>1 DEF OnTop
  <2> QED  BY <1>17, <1>18, <2>3, <2>5, <2>6 DEF PagesInv
<1> QED  BY <1>19, <1>20

LEMMA PagesInvStep == PagesInv /\ [PagesNext]_pagesVars => PagesInv'
<1> SUFFICES ASSUME PagesInv, [PagesNext]_pagesVars PROVE PagesInv'
  OBVIOUS
<1>1. CASE PrevPages \/ NextPages
  <2>1. Chapters = 1..Len(Heights) /\ Len(Heights) \in Nat /\ titled \in Chapters
    BY PagesAssumption, LenProperties DEF Chapters, PagesInv, PagesTypeOK
  <2>2. PICK k \in Chapters : LoadPages(k)
    BY <1>1, <2>1 DEF PrevPages, NextPages
  <2> QED  BY <2>2, LoadPagesStep
<1>2. ASSUME NEW l \in DOMAIN loads, ListArrives(l) PROVE PagesInv'
  <2> DEFINE k == loads[l].chapter
             e == [loads[l] EXCEPT !.listing = FALSE, !.pages = Pages(k)]
  <2>1. /\ loads[l].listing /\ loads' = [loads EXCEPT ![l] = e]
        /\ UNCHANGED <<titled, read, contentHeight, calm>>
    BY <1>2 DEF ListArrives
  <2>2. loads[l] \in LoadType /\ k \in Chapters
    BY LoadsTyped DEF PagesInv, LoadType
  <2>3. Pages(k) \subseteq Nat
    BY <2>2, HeightOfPage
  <2>4. /\ e \in LoadType /\ e.chapter = k /\ e.height = loads[l].height /\ ~e.listing
        /\ e.pages = Pages(k)
    BY <2>2, <2>3 DEF LoadType
  <2>5. l = Latest => Laid = {} /\ k = titled
    BY <2>1 DEF PagesInv, Whole, Requested
  <2> HIDE DEF e
  <2> QED  BY <2>1, <2>4, <2>5, AnswerStep
<1>3. ASSUME NEW l \in DOMAIN loads, RequestFails(l) PROVE PagesInv'
  <2>1. loads[l] \in LoadType
    BY LoadsTyped DEF PagesInv
  <2>2. UNCHANGED <<titled, read, contentHeight, calm>>
    BY <1>3 DEF RequestFails
  <2>3. CASE loads[l].listing
             /\ loads' = [loads EXCEPT ![l].listing = FALSE, ![l].lost = TRUE]
    <3> DEFINE e == [loads[l] EXCEPT !.listing = FALSE, !.lost = TRUE]
    <3>1. loads' = [loads EXCEPT ![l] = e]
      BY <2>3
    <3>2. /\ e \in LoadType /\ e.chapter = loads[l].chapter /\ e.height = loads[l].height
          /\ ~e.listing /\ e.pages = loads[l].pages /\ e.lost
      BY <2>1 DEF LoadType
    <3>3. loads[l].pages = {}
      BY <2>3 DEF PagesInv, Requested
    <3> HIDE DEF e
    <3> QED  BY <2>2, <2>3, <3>1, <3>2, <3>3, AnswerStep
  <2>4. ASSUME NEW p \in loads[l].pages,
               loads' = [loads EXCEPT ![l].pages = @ \ {p}, ![l].lost = TRUE]
        PROVE  PagesInv'
    <3> DEFINE e == [loads[l] EXCEPT !.pages = loads[l].pages \ {p}, !.lost = TRUE]
    <3>1. loads' = [loads EXCEPT ![l] = e]
      BY <2>4
    <3>2. loads[l].pages \subseteq Pages(loads[l].chapter) /\ ~loads[l].listing
      BY DEF PagesInv, Requested
    <3>3. /\ e \in LoadType /\ e.chapter = loads[l].chapter /\ e.height = loads[l].height
          /\ ~e.listing /\ e.pages \subseteq loads[l].pages /\ e.lost
      BY <2>1, <3>2 DEF LoadType
    <3>4. l = Latest => \A i \in Laid : read[i].page \notin loads[l].pages
      BY DEF PagesInv, Whole
    <3> HIDE DEF e
    <3> QED  BY <2>2, <3>1, <3>2, <3>3, <3>4, AnswerStep
  <2> QED  BY <1>3, <2>3, <2>4 DEF RequestFails
<1>4. CASE UNCHANGED pagesVars
  <2>1. /\ titled' = titled /\ loads' = loads /\ read' = read /\ contentHeight' = contentHeight
        /\ calm' = calm
    BY <1>4 DEF pagesVars
  <2>2. Latest' = Latest /\ Laid' = Laid /\ \A i \in DOMAIN read : End(read[i])' = End(read[i])
    BY <2>1 DEF Latest, Laid, End
  <2>3. PagesTypeOK' /\ Requested' /\ Whole' /\ OnTop'
    BY <2>1, <2>2 DEF PagesInv, PagesTypeOK, Requested, Whole, OnTop
  <2>4. Tiled'
    BY <2>1, <2>2 DEF PagesInv, Tiled, Laid
  <2> QED  BY <2>3, <2>4 DEF PagesInv
<1> QED  BY <1>1, <1>2, <1>3, <1>4, PageStep DEF PagesNext

LEMMA PagesInvHolds == PagesSpec => []PagesInv
BY PagesInvInit, PagesInvStep, PTL DEF PagesSpec

-----------------------------------------------------------------------------
(* The theorems *)

LEMMA LaidPages ==
  ASSUME PagesTypeOK
  PROVE  LaidBy(Latest) = {read[i] : i \in Laid}
BY DEF LaidBy, Laid

(* A page of the last load is on top wherever it is. *)
LEMMA SeenWhereLaid ==
  ASSUME PagesInv, calm, NEW i \in Laid, NEW y \in Int, Covers(read[i], y)
  PROVE  Seen(y) = {read[i]}
<1> DEFINE over == {j \in DOMAIN read : Covers(read[j], y)}
<1>1. \A j \in DOMAIN read : /\ j \in Nat /\ End(read[j]) \in Nat /\ read[j].y \in Nat
                             /\ Covers(read[j], y) <=> read[j].y <= y /\ y < End(read[j])
  BY PagesTyped DEF PagesInv, Covers, End
<1>2. i \in DOMAIN read /\ i \in over
  BY DEF Laid
<1>3. ASSUME NEW h \in over PROVE h <= i
  <2>1. h \in DOMAIN read /\ h \in Nat /\ i \in Nat /\ read[h].y <= y /\ y < End(read[i])
    BY <1>1, <1>2
  <2>2. CASE h > i
    <3>1. h \in Laid
      BY <2>1, <2>2 DEF PagesInv, OnTop
    <3>2. End(read[i]) <= read[h].y
      BY <2>1, <2>2, <3>1 DEF PagesInv, Tiled
    <3> QED  BY <1>1, <1>2, <2>1, <3>2
  <2> QED  BY <2>1, <2>2
<1>4. \A j \in over : j \in Nat
  BY <1>1
<1>5. {j \in over : \A h \in over : h <= j} = {i}
  <2>1. \A j \in over : (\A h \in over : h <= j) => j = i
    BY <1>2, <1>3, <1>4
  <2> QED  BY <1>2, <1>3, <2>1
<1>6. Seen(y) = {read[j] : j \in {j \in over : \A h \in over : h <= j}}
  BY DEF Seen
<1> HIDE DEF over
<1> QED  BY <1>5, <1>6

(* The title is a chapter, the loads and what they laid keep their types.  *)
THEOREM PagesTypeCorrect == PagesSpec => []PagesTypeOK
<1>1. PagesInv => PagesTypeOK
  BY DEF PagesInv
<1> QED  BY PagesInvHolds, <1>1, PTL

(* A chapter that was asked for in a settled view is seen as it is: the    *)
(* pages that arrived, whole, each once, and nothing of the chapters laid  *)
(* before it, in whatever order they arrive (downLoad, whose height starts *)
(* at 0 and grows with each page).                                         *)
THEOREM SeenAsTitled == PagesSpec => []SeenIsTitled
<1>1. PagesInv => SeenIsTitled
  <2> SUFFICES ASSUME PagesInv, calm, LaidBy(Latest) # {}
               PROVE  /\ SeenAll = LaidBy(Latest)
                      /\ \A v \in LaidBy(Latest) :
                           \A y \in 0..(v.y + Heights[titled][v.page] - 1) :
                             y < contentHeight /\ (Covers(v, y) => Seen(y) = {v})
                      /\ \A v, w \in LaidBy(Latest) : v.page = w.page => v = w
    BY DEF SeenIsTitled
  <2>1. LaidBy(Latest) = {read[i] : i \in Laid} /\ Laid # {}
    BY LaidPages DEF PagesInv
  <2>2. contentHeight = loads[Latest].height /\ contentHeight \in Nat
    BY <2>1 DEF PagesInv, OnTop, PagesTypeOK
  <2>3. \A i \in Laid :
          /\ End(read[i]) \in Nat /\ read[i].y \in Nat /\ read[i].y < End(read[i])
          /\ End(read[i]) <= contentHeight
          /\ End(read[i]) = read[i].y + Heights[titled][read[i].page]
    <3>1. \A i \in Laid : i \in DOMAIN read /\ read[i].load = Latest
      BY DEF Laid
    <3> QED  BY <2>2, <3>1, PagesTyped DEF PagesInv, Tiled, Requested, End
  <2>4. \A i \in Laid, y \in Int : Covers(read[i], y) <=> read[i].y <= y /\ y < End(read[i])
    BY DEF Covers, End
  <2>5. SeenAll \subseteq LaidBy(Latest)
    <3>1. ASSUME NEW y \in 0..(contentHeight - 1) PROVE Seen(y) \subseteq LaidBy(Latest)
      <4>1. y \in Int
        OBVIOUS
      <4>2. PICK i \in Laid : read[i].y <= y /\ y < End(read[i])
        BY <2>2 DEF PagesInv, Tiled
      <4>3. Seen(y) = {read[i]}
        BY <2>4, <4>1, <4>2, SeenWhereLaid
      <4> QED  BY <2>1, <4>3
    <3> QED  BY <3>1 DEF SeenAll
  <2>6. LaidBy(Latest) \subseteq SeenAll
    <3>1. ASSUME NEW i \in Laid PROVE read[i] \in SeenAll
      <4> DEFINE y == read[i].y
      <4>1. y \in Int /\ y \in 0..(contentHeight - 1)
        BY <2>2, <2>3
      <4>2. Covers(read[i], y)
        BY <2>3, <2>4, <4>1
      <4>3. Seen(y) = {read[i]}
        BY <4>1, <4>2, SeenWhereLaid
      <4> HIDE DEF y
      <4> QED  BY <4>1, <4>3 DEF SeenAll
    <3> QED  BY <2>1, <3>1
  <2>7. ASSUME NEW v \in LaidBy(Latest), NEW y \in 0..(v.y + Heights[titled][v.page] - 1)
        PROVE  y < contentHeight /\ (Covers(v, y) => Seen(y) = {v})
    <3>1. PICK i \in Laid : v = read[i]
      BY <2>1
    <3>2. y \in Int /\ y < End(read[i])
      <4>1. End(read[i]) = v.y + Heights[titled][v.page] /\ End(read[i]) \in Nat
        BY <2>3, <3>1
      <4>2. v.y \in Nat /\ Heights[titled][v.page] \in Nat
        <5>1. v.page \in Pages(titled) /\ titled \in Chapters
          BY <3>1 DEF PagesInv, PagesTypeOK, Requested, Laid
        <5> QED  BY <2>3, <3>1, <5>1, HeightOfPage
      <4> QED  BY <4>1, <4>2
    <3>3. y < contentHeight
      BY <2>2, <2>3, <3>2
    <3> QED  BY <3>1, <3>2, <3>3, SeenWhereLaid
  <2>8. \A v, w \in LaidBy(Latest) : v.page = w.page => v = w
    BY <2>1 DEF PagesInv, Whole
  <2> QED  BY <2>5, <2>6, <2>7, <2>8
<1> QED  BY PagesInvHolds, <1>1, PTL

(* Once nothing is in flight every page of such a chapter is there, unless *)
(* a request for it failed (downLoad, which drops what fails).             *)
THEOREM ChapterIsWhole == PagesSpec => []ChapterWhole
<1>1. PagesInv => ChapterWhole
  <2> SUFFICES ASSUME PagesInv, Settled, ~loads[Latest].lost
               PROVE  {v.page : v \in LaidBy(Latest)} = Pages(titled)
    BY DEF ChapterWhole
  <2>1. ~loads[Latest].listing /\ loads[Latest].pages = {}
    BY LoadsTyped DEF Settled, PagesInv
  <2>2. LaidBy(Latest) = {read[i] : i \in Laid}
    BY LaidPages DEF PagesInv
  <2>3. \A p \in Pages(titled) : \E i \in Laid : read[i].page = p
    BY <2>1 DEF PagesInv, Whole
  <2>4. \A i \in Laid : read[i].page \in Pages(titled)
    BY DEF PagesInv, Requested, Laid
  <2> QED  BY <2>2, <2>3, <2>4
<1> QED  BY PagesInvHolds, <1>1, PTL
=============================================================================
