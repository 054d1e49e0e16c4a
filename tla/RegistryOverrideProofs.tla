----------------------- MODULE RegistryOverrideProofs -----------------------
(***************************************************************************)
(* For any number of threads, registries, overrides and catalogs: an       *)
(* override, however nested, restores what loads outside overrides made of *)
(* the registry, and no other thread changes the registry meanwhile.       *)
(***************************************************************************)
EXTENDS RegistryOverride, TLAPS

OverrideFrame ==
  [what : {"override"}, reg : Reg, saved : Contents, args : Override,
   step : {"clear", "update", "inside", "restore"}]
LoadFrame ==
  [what : {"load"}, reg : {"sass"}, file : DOMAIN File, at : Nat \ {0}, loaded : Contents,
   step : {"read", "canonical"}]
OnnxFrame == [what : {"onnx"}, step : {"clear", "update"}]
Frame == OverrideFrame \cup LoadFrame \cup OnnxFrame

TypeInv ==
  /\ registries \in [Reg -> Contents] /\ base \in [Reg -> Contents]
  /\ frames \in [Thread -> Seq(Frame)]
  /\ DOMAIN waiting = Thread
  /\ \A t \in Thread : waiting[t] # None => waiting[t] \in Calls

\* Only one thread is in calls.
Exclusive == \A t, u \in Thread : t # u => frames[t] = <<>> \/ frames[u] = <<>>

IsInside(frame) == frame.what = "override" /\ frame.step = "inside"

\* A thread waits, and makes calls, only where it is in no call, or in the block of one.
Nested ==
  \A t \in Thread :
    /\ \A i \in 1 .. Len(frames[t]) - 1 : IsInside(frames[t][i])
    /\ waiting[t] # None /\ frames[t] # <<>> => IsInside(frames[t][Len(frames[t])])

\* The outermost override of a registry has saved what loads made of it.
IsOutermost(stack, i) ==
  stack[i].what = "override" /\ \A j \in 1 .. i - 1 : stack[j].reg # stack[i].reg
SavedIn(stack, bases) ==
  \A i \in 1 .. Len(stack) : IsOutermost(stack, i) => stack[i].saved = bases[stack[i].reg]
OutermostSaved == \A t \in Thread : SavedIn(frames[t], base)

\* What is restored is put into an empty registry.
EmptyToRestore ==
  \A t \in Thread : At(t, "override", "restore") => registries[frames[t][Len(frames[t])].reg] = Nothing

Inv == TypeInv /\ Exclusive /\ Nested /\ OutermostSaved /\ EmptyToRestore /\ OverridesAreUndone

-----------------------------------------------------------------------------
(* Stacks of calls and dictionaries                                        *)

LEMMA AppendFacts ==
  ASSUME NEW S, NEW s \in Seq(S), NEW e \in S
  PROVE  /\ Append(s, e) \in Seq(S) /\ Len(Append(s, e)) = Len(s) + 1
         /\ \A i \in 1 .. Len(s) : Append(s, e)[i] = s[i]
         /\ Append(s, e)[Len(s) + 1] = e
  OBVIOUS

LEMMA FrontFacts ==
  ASSUME NEW S, NEW s \in Seq(S), s # <<>>
  PROVE  /\ Front(s) \in Seq(S) /\ Len(Front(s)) = Len(s) - 1
         /\ \A i \in 1 .. Len(s) - 1 : Front(s)[i] = s[i]
         /\ Len(s) \in Nat \ {0}
<1>1. Len(s) \in Nat \ {0} /\ \A i \in 1 .. Len(s) : s[i] \in S
  OBVIOUS
<1>2. Front(s) = [i \in 1 .. Len(s) - 1 |-> s[i]]
  BY <1>1 DEF Front
<1>3. [i \in 1 .. Len(s) - 1 |-> s[i]] \in Seq(S)
  BY <1>1
<1> QED
  BY <1>1, <1>2, <1>3

LEMMA TopFacts ==
  ASSUME NEW S, NEW s \in Seq(S), s # <<>>, NEW e \in S
  PROVE  LET n == Len(s)
             new == [s EXCEPT ![n] = e]
         IN  /\ new \in Seq(S) /\ Len(new) = n /\ n \in Nat \ {0}
             /\ new[n] = e /\ s[n] \in S
             /\ \A i \in 1 .. n - 1 : new[i] = s[i]
  OBVIOUS

LEMMA UpdatedFacts ==
  ASSUME NEW f \in Contents, NEW g \in Contents
  PROVE  Updated(f, g) \in Contents /\ Updated(Nothing, g) = g /\ Nothing \in Contents
<1>1. PICK A \in SUBSET Op : f \in [A -> Schema]
  BY DEF Contents
<1>2. PICK B \in SUBSET Op : g \in [B -> Schema]
  BY DEF Contents
<1>3. Updated(f, g) \in [A \cup B -> Schema]
  BY <1>1, <1>2 DEF Updated
<1>4. Updated(Nothing, g) = g
  BY <1>2 DEF Updated, Nothing
<1>5. Nothing \in [{} -> Schema]
  BY DEF Nothing
<1> QED
  BY <1>3, <1>4, <1>5 DEF Contents

-----------------------------------------------------------------------------
(* What a step does to the stack of the thread that takes it.  A step that *)
(* changes registries is one of them.                                      *)

\* A registry that is overridden keeps its base, and one that is not follows it.
LEMMA WriteFacts ==
  ASSUME TypeInv, OverridesAreUndone, NEW r \in Reg, NEW c \in Contents, Write(r, c)
  PROVE  /\ registries' \in [Reg -> Contents] /\ base' \in [Reg -> Contents]
         /\ registries'[r] = c
         /\ \A q \in Reg : Overridden(q) => base'[q] = base[q]
         /\ \A q \in Reg : ~Overridden(q) => registries'[q] = base'[q]
  BY DEF Write, TypeInv, OverridesAreUndone

\* A call begins: the lock is free, or held by the thread itself in a block.
LEMMA PushStep ==
  ASSUME Inv, NEW t \in Thread, NEW f \in Frame, MayLock(t), waiting[t] # None,
         Push(t, f), UNCHANGED <<registries, base>>,
         f.what = "override" => f.saved = registries[f.reg] /\ f.step # "restore"
  PROVE  Inv'
<1> DEFINE s == frames[t]
<1> USE DEF Inv
<1>1. /\ frames \in [Thread -> Seq(Frame)] /\ s \in Seq(Frame)
      /\ frames' = [frames EXCEPT ![t] = Append(s, f)]
      /\ waiting' = [waiting EXCEPT ![t] = None]
  BY DEF TypeInv, Push
<1>2. /\ frames'[t] = Append(s, f) /\ Append(s, f) \in Seq(Frame)
      /\ Len(frames'[t]) = Len(s) + 1 /\ Len(s) \in Nat
      /\ \A i \in 1 .. Len(s) : frames'[t][i] = s[i]
      /\ frames'[t][Len(s) + 1] = f
      /\ \A u \in Thread \ {t} : frames'[u] = <<>> /\ frames[u] = <<>>
  BY <1>1, AppendFacts DEF MayLock
<1>3. TypeInv'
  BY <1>1, <1>2 DEF TypeInv
<1>4. Exclusive'
  BY <1>2 DEF Exclusive
<1>5. \A i \in 1 .. Len(s) : IsInside(s[i])
  <2>1. \A i \in 1 .. Len(s) - 1 : IsInside(s[i])
    BY DEF Nested
  <2>2. s # <<>> => IsInside(s[Len(s)])
    BY DEF Nested
  <2>3. s = <<>> => Len(s) = 0
    OBVIOUS
  <2> HIDE DEF s
  <2> QED
    BY <1>2, <2>1, <2>2, <2>3
<1>6. Nested'
  <2>1. \A i \in 1 .. Len(frames'[t]) - 1 : IsInside(frames'[t][i])
    BY <1>2, <1>5
  <2>2. waiting'[t] = None
    BY <1>1 DEF TypeInv
  <2> QED
    BY <1>1, <1>2, <2>1, <2>2 DEF Nested, TypeInv, IsInside
<1>7. ASSUME NEW i \in 1 .. Len(s) + 1, IsOutermost(frames'[t], i)
      PROVE  frames'[t][i].saved = base[frames'[t][i].reg]
  <2>1. CASE i \in 1 .. Len(s)
    <3>1. frames'[t][i] = s[i] /\ \A j \in 1 .. i - 1 : frames'[t][j] = s[j]
      BY <2>1, <1>2
    <3>2. IsOutermost(s, i)
      BY <3>1, <1>7 DEF IsOutermost
    <3> QED
      BY <2>1, <3>1, <3>2 DEF OutermostSaved, SavedIn
  <2>2. CASE i = Len(s) + 1
    <3>1. f.what = "override" /\ \A j \in 1 .. Len(s) : s[j].reg # f.reg
      BY <2>2, <1>2, <1>7 DEF IsOutermost
    <3>2. f.reg \in Reg
      BY <3>1 DEF Frame, OverrideFrame, LoadFrame, OnnxFrame
    <3>3. ~Overridden(f.reg)
      BY <1>2, <3>1 DEF Overridden, Overrides
    <3> QED
      BY <2>2, <1>2, <3>1, <3>2, <3>3 DEF OverridesAreUndone
  <2> QED
    BY <2>1, <2>2, <1>2
<1>8. OutermostSaved'
  <2>1. SavedIn(frames'[t], base)
    BY <1>2, <1>7 DEF SavedIn
  <2>2. \A u \in Thread \ {t} : SavedIn(frames'[u], base)
    BY <1>2 DEF SavedIn
  <2> QED
    BY <2>1, <2>2 DEF OutermostSaved, SavedIn, IsOutermost
<1>9. EmptyToRestore'
  BY <1>2 DEF EmptyToRestore, At, Last
<1>10. OverridesAreUndone'
  <2>1. \A q \in Reg : Overridden(q) => Overridden(q)'
    <3>1. ASSUME NEW q \in Reg, NEW i \in Overrides(t, q)
          PROVE  i \in Overrides(t, q)'
      BY <1>2 DEF Overrides
    <3>2. \A q \in Reg, u \in Thread \ {t} : Overrides(u, q) = {}
      BY <1>2 DEF Overrides
    <3> QED
      BY <3>1, <3>2 DEF Overridden
  <2> QED
    BY <2>1 DEF OverridesAreUndone
<1> QED
  BY <1>3, <1>4, <1>6, <1>8, <1>9, <1>10

\* A call goes on: its frame stays what it is, and perhaps a registry is written.
LEMMA TopStep ==
  ASSUME Inv, NEW t \in Thread, NEW f \in Frame, frames[t] # <<>>, waiting[t] = None,
         frames' = [frames EXCEPT ![t] = [@ EXCEPT ![Len(frames[t])] = f]], UNCHANGED waiting,
         LET top == frames[t][Len(frames[t])]
         IN  f.what = top.what /\ (f.what = "override" => f.reg = top.reg /\ f.saved = top.saved),
         UNCHANGED <<registries, base>> \/ \E r \in Reg, c \in Contents : Write(r, c),
         f.what = "override" /\ f.step = "restore" => registries'[f.reg] = Nothing
  PROVE  Inv'
<1> DEFINE s == frames[t]
           n == Len(s)
<1> USE DEF Inv
<1>1. frames \in [Thread -> Seq(Frame)] /\ s \in Seq(Frame)
  BY DEF TypeInv
<1>2. frames'[t] = [s EXCEPT ![n] = f]
  BY <1>1
<1>3. /\ frames'[t] \in Seq(Frame) /\ Len(frames'[t]) = n /\ n \in Nat \ {0}
      /\ frames'[t][n] = f /\ s[n] \in Frame
      /\ \A i \in 1 .. n - 1 : frames'[t][i] = s[i]
  <2> HIDE DEF s
  <2> QED
    BY <1>1, <1>2, TopFacts DEF s
<1>4. \A u \in Thread \ {t} : frames'[u] = <<>> /\ frames[u] = <<>>
  BY <1>1 DEF Exclusive
<1>5. /\ registries' \in [Reg -> Contents] /\ base' \in [Reg -> Contents]
      /\ \A q \in Reg : Overridden(q) => base'[q] = base[q]
      /\ \A q \in Reg : ~Overridden(q) => registries'[q] = base'[q]
  BY WriteFacts DEF TypeInv, OverridesAreUndone
<1>6. \A i \in 1 .. n : /\ frames'[t][i].what = s[i].what
                        /\ s[i].what = "override" =>
                             frames'[t][i].reg = s[i].reg /\ frames'[t][i].saved = s[i].saved
  <2> SUFFICES ASSUME NEW i \in 1 .. n
               PROVE  /\ frames'[t][i].what = s[i].what
                      /\ s[i].what = "override" =>
                           frames'[t][i].reg = s[i].reg /\ frames'[t][i].saved = s[i].saved
    OBVIOUS
  <2>1. CASE i = n
    BY <2>1, <1>3
  <2>2. CASE i \in 1 .. n - 1
    BY <2>2, <1>3
  <2> QED
    BY <2>1, <2>2, <1>3
<1>7. TypeInv'
  BY <1>1, <1>3, <1>5 DEF TypeInv
<1>8. Exclusive'
  BY <1>4 DEF Exclusive
<1>9. \A i \in 1 .. n - 1 : IsInside(s[i])
  BY DEF Nested
<1>10. Nested'
  BY <1>3, <1>4, <1>9 DEF Nested, IsInside
<1>11. \A q \in Reg : Overridden(q)' <=> Overridden(q)
  <2>1. \A q \in Reg, u \in Thread : Overrides(u, q)' # {} <=> Overrides(u, q) # {}
    BY <1>3, <1>4, <1>6 DEF Overrides
  <2> QED
    BY <2>1 DEF Overridden
<1>12. OverridesAreUndone'
  BY <1>5, <1>11 DEF OverridesAreUndone
<1>13. ASSUME NEW i \in 1 .. n, IsOutermost(frames'[t], i)
       PROVE  frames'[t][i].saved = base'[frames'[t][i].reg]
  <2>1. s[i].what = "override" /\ frames'[t][i].reg = s[i].reg /\ frames'[t][i].saved = s[i].saved
    BY <1>6, <1>13 DEF IsOutermost
  <2>2. \A j \in 1 .. i - 1 : frames'[t][j] = s[j]
    BY <1>3
  <2>3. IsOutermost(s, i)
    BY <2>1, <2>2, <1>13 DEF IsOutermost
  <2>4. s[i].saved = base[s[i].reg]
    BY <2>3 DEF OutermostSaved, SavedIn
  <2>5. s[i] \in Frame
    BY <1>1
  <2>6. s[i].reg \in Reg
    BY <2>1, <2>5 DEF Frame, OverrideFrame, LoadFrame, OnnxFrame
  <2>7. Overridden(s[i].reg)
    BY <2>1, <1>1 DEF Overridden, Overrides
  <2> QED
    BY <2>1, <2>4, <2>6, <2>7, <1>5
<1>14. OutermostSaved'
  <2>1. SavedIn(frames'[t], base')
    BY <1>3, <1>13 DEF SavedIn
  <2>2. \A u \in Thread \ {t} : SavedIn(frames'[u], base')
    BY <1>4 DEF SavedIn
  <2> QED
    BY <2>1, <2>2 DEF OutermostSaved, SavedIn, IsOutermost
<1>15. EmptyToRestore'
  BY <1>3, <1>4 DEF EmptyToRestore, At, Last
<1> QED
  BY <1>7, <1>8, <1>10, <1>12, <1>14, <1>15

\* A call ends: an override with its registry as it was saved.
LEMMA PopStep ==
  ASSUME Inv, NEW t \in Thread, frames[t] # <<>>, Pop(t), UNCHANGED waiting,
         ~IsInside(frames[t][Len(frames[t])]),
         LET top == frames[t][Len(frames[t])]
         IN  \/ /\ top.what # "override"
                /\ UNCHANGED <<registries, base>> \/ \E r \in Reg, c \in Contents : Write(r, c)
             \/ top.what = "override" /\ Write(top.reg, top.saved)
  PROVE  Inv'
<1> DEFINE s == frames[t]
           n == Len(s)
           top == s[n]
<1> USE DEF Inv
<1>1. frames \in [Thread -> Seq(Frame)] /\ s \in Seq(Frame)
  BY DEF TypeInv
<1>2. /\ frames'[t] \in Seq(Frame) /\ Len(frames'[t]) = n - 1 /\ n \in Nat \ {0}
      /\ \A i \in 1 .. n - 1 : frames'[t][i] = s[i]
  <2>1. frames'[t] = Front(s)
    BY <1>1 DEF Pop
  <2> HIDE DEF s
  <2> QED
    BY <2>1, <1>1, FrontFacts DEF s
<1>3. top \in Frame
  BY <1>1, <1>2
<1>4. \A u \in Thread \ {t} : frames'[u] = <<>> /\ frames[u] = <<>>
  BY <1>1 DEF Exclusive, Pop
<1>5. top.what = "override" => top.reg \in Reg /\ top.saved \in Contents
  BY <1>3 DEF Frame, OverrideFrame, LoadFrame, OnnxFrame
<1>6. /\ registries' \in [Reg -> Contents] /\ base' \in [Reg -> Contents]
      /\ \A q \in Reg : Overridden(q) => base'[q] = base[q]
      /\ \A q \in Reg : ~Overridden(q) => registries'[q] = base'[q]
      /\ top.what = "override" => registries'[top.reg] = top.saved
  BY <1>5, WriteFacts DEF TypeInv, OverridesAreUndone
<1>7. \A i \in 1 .. n - 1 : IsInside(s[i])
  BY DEF Nested
<1>8. waiting[t] = None
  BY DEF Nested
<1>9. TypeInv'
  BY <1>1, <1>2, <1>6 DEF TypeInv, Pop
<1>10. Exclusive'
  BY <1>4 DEF Exclusive
<1>11. Nested'
  BY <1>2, <1>4, <1>7, <1>8 DEF Nested, IsInside
<1>12. ASSUME NEW i \in 1 .. n - 1, IsOutermost(frames'[t], i)
       PROVE  IsOutermost(s, i)
  <2>1. frames'[t][i] = s[i] /\ \A j \in 1 .. i - 1 : frames'[t][j] = s[j]
    <3>1. \A j \in 1 .. i - 1 : j \in 1 .. n - 1
      BY <1>2
    <3> QED
      BY <3>1, <1>2
  <2>2. s[i].what = "override"
    BY <2>1, <1>12 DEF IsOutermost
  <2>3. ASSUME NEW j \in 1 .. i - 1 PROVE s[j].reg # s[i].reg
    <3>1. frames'[t][j].reg # frames'[t][i].reg
      BY <1>12 DEF IsOutermost
    <3> QED
      BY <2>1, <3>1
  <2> QED
    BY <2>2, <2>3 DEF IsOutermost
<1>13. ASSUME NEW i \in 1 .. n - 1, IsOutermost(frames'[t], i)
       PROVE  frames'[t][i].saved = base'[frames'[t][i].reg]
  <2>1. s[i].saved = base[s[i].reg] /\ s[i].what = "override"
    BY <1>2, <1>12, <1>13 DEF OutermostSaved, SavedIn, IsOutermost
  <2>2. s[i] \in Frame
    BY <1>1, <1>2
  <2>3. s[i].reg \in Reg /\ Overridden(s[i].reg)
    BY <2>1, <2>2, <1>1, <1>2 DEF Frame, OverrideFrame, LoadFrame, OnnxFrame, Overridden, Overrides
  <2> QED
    BY <2>1, <2>3, <1>2, <1>6
<1>14. OutermostSaved'
  <2>1. SavedIn(frames'[t], base')
    BY <1>2, <1>13 DEF SavedIn
  <2>2. \A u \in Thread \ {t} : SavedIn(frames'[u], base')
    BY <1>4 DEF SavedIn
  <2> QED
    BY <2>1, <2>2 DEF OutermostSaved, SavedIn, IsOutermost
<1>15. EmptyToRestore'
  <2>1. n > 1 => frames'[t][n - 1].step = "inside"
    BY <1>2, <1>7 DEF IsInside
  <2> QED
    BY <2>1, <1>2, <1>4 DEF EmptyToRestore, At, Last
<1>16. ASSUME NEW q \in Reg, ~Overridden(q)'
       PROVE  registries'[q] = base'[q]
  <2>1. CASE ~Overridden(q)
    BY <2>1, <1>6
  <2>2. CASE Overridden(q)
    <3>1. PICK i \in 1 .. n : s[i].what = "override" /\ s[i].reg = q
      BY <2>2, <1>1, <1>4 DEF Overridden, Overrides
    <3>2. ASSUME NEW j \in 1 .. n - 1 PROVE s[j].reg # q
      <4>1. frames'[t][j] = s[j] /\ s[j].what = "override" /\ j \in DOMAIN frames'[t]
        BY <1>2, <1>7 DEF IsInside
      <4>2. Overrides(t, q)' = {}
        BY <1>16 DEF Overridden
      <4> QED
        BY <4>1, <4>2 DEF Overrides
    <3>3. i = n /\ IsOutermost(s, n)
      BY <3>1, <3>2, <1>2 DEF IsOutermost
    <3>4. top.saved = base[q]
      BY <3>1, <3>3, <1>2 DEF OutermostSaved, SavedIn
    <3> QED
      BY <3>1, <3>3, <3>4, <2>2, <1>6
  <2> QED
    BY <2>1, <2>2
<1>17. OverridesAreUndone'
  BY <1>16 DEF OverridesAreUndone
<1> QED
  BY <1>9, <1>10, <1>11, <1>14, <1>15, <1>17

\* No stack changes; a thread may ask for a call where it may make one, or be done with it.
LEMMA WaitStep ==
  ASSUME Inv, UNCHANGED <<registries, frames, base>>,
         \/ UNCHANGED waiting
         \/ \E t \in Thread : waiting' = [waiting EXCEPT ![t] = None]
         \/ \E t \in Thread, call \in Calls : Free(t) /\ waiting' = [waiting EXCEPT ![t] = call]
  PROVE  Inv'
<1> USE DEF Inv
<1>1. \A t \in Thread : Free(t) /\ frames[t] # <<>> => IsInside(frames[t][Len(frames[t])])
  <2> SUFFICES ASSUME NEW t \in Thread, Free(t), frames[t] # <<>>
               PROVE  IsInside(frames[t][Len(frames[t])])
    OBVIOUS
  <2>1. frames[t][Len(frames[t])] \in Frame /\ frames[t][Len(frames[t])].step = "inside"
    BY DEF TypeInv, Free, Last
  <2> QED
    BY <2>1 DEF IsInside, Frame, OverrideFrame, LoadFrame, OnnxFrame
<1>2. TypeInv'
  BY DEF TypeInv
<1>3. Nested'
  BY <1>1 DEF Nested, TypeInv
<1>4. OverridesAreUndone' /\ EmptyToRestore'
  BY DEF OverridesAreUndone, Overridden, Overrides, EmptyToRestore, At
<1>5. Exclusive' /\ OutermostSaved'
  BY DEF Exclusive, OutermostSaved, SavedIn, IsOutermost
<1> QED
  BY <1>2, <1>3, <1>4, <1>5

\* The call a thread is in, at the top of its stack.
LEMMA AtFacts ==
  ASSUME Inv, NEW t \in Thread, NEW what, NEW step, At(t, what, step)
  PROVE  /\ frames[t] # <<>>
         /\ Last(frames[t]) = frames[t][Len(frames[t])] /\ Last(frames[t]) \in Frame
         /\ Last(frames[t]).what = what /\ Last(frames[t]).step = step
         /\ what = "override" => Last(frames[t]) \in OverrideFrame
         /\ what = "load" => Last(frames[t]) \in LoadFrame
         /\ what = "onnx" => Last(frames[t]) \in OnnxFrame
         /\ step # "inside" => waiting[t] = None
<1>1. /\ frames[t] # <<>> /\ frames[t] \in Seq(Frame)
      /\ Last(frames[t]) = frames[t][Len(frames[t])]
      /\ Last(frames[t]).what = what /\ Last(frames[t]).step = step
  BY DEF Inv, TypeInv, At, Last
<1>2. Last(frames[t]) \in Frame
  BY <1>1
<1>3. step # "inside" => waiting[t] = None
  BY <1>1 DEF Inv, Nested, IsInside
<1> QED
  BY <1>1, <1>2, <1>3 DEF Frame, OverrideFrame, LoadFrame, OnnxFrame

\* The top frame with another step is still the frame of the same call.
LEMMA GotoFacts ==
  ASSUME Inv, NEW t \in Thread, frames[t] # <<>>, NEW step, Goto(t, step)
  PROVE  frames' = [frames EXCEPT ![t] =
           [@ EXCEPT ![Len(frames[t])] = [frames[t][Len(frames[t])] EXCEPT !.step = step]]]
  BY DEF Inv, TypeInv, Goto

-----------------------------------------------------------------------------
(* Every action is one of these steps.                                     *)

LEMMA InitInv == Init => Inv
<1> SUFFICES ASSUME Init PROVE Inv
  OBVIOUS
<1>1. TypeInv
  BY InitialAssumption DEF Init, TypeInv
<1>2. \A t \in Thread : frames[t] = <<>> /\ waiting[t] = None
  BY DEF Init
<1>3. Exclusive /\ Nested /\ EmptyToRestore
  BY <1>2 DEF Exclusive, Nested, EmptyToRestore, At
<1>4. OutermostSaved
  BY <1>2 DEF OutermostSaved, SavedIn
<1>5. OverridesAreUndone
  BY DEF Init, OverridesAreUndone
<1> QED
  BY <1>1, <1>3, <1>4, <1>5 DEF Inv

LEMMA OverrideInv ==
  ASSUME Inv, NEW t \in Thread,
         EnterOverride(t) \/ ClearForOverride(t) \/ ApplyOverrides(t) \/ ClearToRestore(t) \/ Restore(t)
  PROVE  Inv'
<1> DEFINE top == frames[t][Len(frames[t])]
<1>1. CASE EnterOverride(t)
  <2> DEFINE args == waiting[t].args
             f == [what |-> "override", reg |-> args.reg, saved |-> registries[args.reg],
                   args |-> args, step |-> IF args.clear THEN "clear" ELSE "update"]
  <2>1. args \in Override /\ args.reg \in Reg
    BY <1>1, OverrideAssumption DEF EnterOverride, Awaits, Inv, TypeInv, Calls
  <2>2. f \in Frame
    BY <2>1 DEF Inv, TypeInv, Frame, OverrideFrame
  <2>3. Push(t, f) /\ MayLock(t) /\ waiting[t] # None
    BY <1>1 DEF EnterOverride, Awaits
  <2> QED
    BY <1>1, <2>2, <2>3, PushStep DEF EnterOverride
<1>2. CASE ClearForOverride(t)
  <2> DEFINE f == [top EXCEPT !.step = "update"]
  <2>1. top \in OverrideFrame /\ Last(frames[t]) = top /\ frames[t] # <<>> /\ waiting[t] = None
    BY <1>2, AtFacts DEF ClearForOverride
  <2>2. f \in OverrideFrame /\ top.reg \in Reg /\ f.reg = top.reg /\ f.saved = top.saved /\ f.what = top.what /\ f.step = "update"
    BY <2>1 DEF OverrideFrame
  <2>3. frames' = [frames EXCEPT ![t] = [@ EXCEPT ![Len(frames[t])] = f]]
    BY <1>2, <2>1, GotoFacts DEF ClearForOverride
  <2>4. Nothing \in Contents
    BY InitialAssumption, UpdatedFacts
  <2>5. \E r \in Reg, c \in Contents : Write(r, c)
    BY <1>2, <2>1, <2>2, <2>4 DEF ClearForOverride
  <2> QED
    BY <1>2, <2>1, <2>2, <2>3, <2>5, TopStep DEF ClearForOverride, Frame
<1>3. CASE ApplyOverrides(t)
  <2> DEFINE f == [top EXCEPT !.step = "inside"]
  <2>1. top \in OverrideFrame /\ Last(frames[t]) = top /\ frames[t] # <<>> /\ waiting[t] = None
    BY <1>3, AtFacts DEF ApplyOverrides
  <2>2. f \in OverrideFrame /\ top.reg \in Reg /\ f.reg = top.reg /\ f.saved = top.saved /\ f.what = top.what /\ f.step = "inside"
    BY <2>1 DEF OverrideFrame
  <2>3. frames' = [frames EXCEPT ![t] = [@ EXCEPT ![Len(frames[t])] = f]]
    BY <1>3, <2>1, GotoFacts DEF ApplyOverrides
  <2>4. top.args.overrides \in Contents /\ registries[top.reg] \in Contents
    BY <2>1, OverrideAssumption DEF OverrideFrame, Inv, TypeInv
  <2>5. \E r \in Reg, c \in Contents : Write(r, c)
    BY <1>3, <2>1, <2>2, <2>4, UpdatedFacts DEF ApplyOverrides
  <2> QED
    BY <1>3, <2>1, <2>2, <2>3, <2>5, TopStep DEF ApplyOverrides, Frame
<1>4. CASE ClearToRestore(t)
  <2> DEFINE f == [top EXCEPT !.step = "restore"]
  <2>1. top \in OverrideFrame /\ Last(frames[t]) = top /\ frames[t] # <<>> /\ waiting[t] = None
    BY <1>4, AtFacts DEF ClearToRestore, Free
  <2>2. f \in OverrideFrame /\ top.reg \in Reg /\ f.reg = top.reg /\ f.saved = top.saved /\ f.what = top.what /\ f.step = "restore"
    BY <2>1 DEF OverrideFrame
  <2>3. frames' = [frames EXCEPT ![t] = [@ EXCEPT ![Len(frames[t])] = f]]
    BY <1>4, <2>1, GotoFacts DEF ClearToRestore
  <2>4. Nothing \in Contents /\ Write(top.reg, Nothing)
    BY <1>4, <2>1, InitialAssumption, UpdatedFacts DEF ClearToRestore
  <2>5. registries'[f.reg] = Nothing
    BY <2>2, <2>4, WriteFacts DEF Inv
  <2> QED
    BY <1>4, <2>1, <2>2, <2>3, <2>4, <2>5, TopStep DEF ClearToRestore, Frame
<1>5. CASE Restore(t)
  <2>1. top \in OverrideFrame /\ Last(frames[t]) = top /\ frames[t] # <<>> /\ top.step = "restore"
    BY <1>5, AtFacts DEF Restore
  <2>2. registries[top.reg] = Nothing /\ top.saved \in Contents
    BY <1>5, <2>1 DEF Restore, Inv, EmptyToRestore, OverrideFrame
  <2>3. Write(top.reg, top.saved)
    BY <1>5, <2>1, <2>2, UpdatedFacts DEF Restore
  <2> QED
    BY <1>5, <2>1, <2>3, PopStep DEF Restore, IsInside, OverrideFrame
<1> QED
  BY <1>1, <1>2, <1>3, <1>4, <1>5

LEMMA LoadInv ==
  ASSUME Inv, NEW t \in Thread, BeginLoad(t) \/ ReadEntry(t) \/ FinishLoad(t) \/ UpdateCanonical(t)
  PROVE  Inv'
<1> DEFINE top == frames[t][Len(frames[t])]
<1>1. CASE BeginLoad(t)
  <2> DEFINE f == [what |-> "load", reg |-> "sass", file |-> waiting[t].file, at |-> 1,
                   loaded |-> Nothing, step |-> "read"]
  <2>1. waiting[t].file \in DOMAIN File /\ Nothing \in Contents
    BY <1>1, InitialAssumption, UpdatedFacts DEF BeginLoad, Awaits, Inv, TypeInv, Calls
  <2>2. f \in Frame
    BY <2>1 DEF Frame, LoadFrame
  <2> QED
    BY <1>1, <2>2, PushStep DEF BeginLoad, Awaits
<1>2. CASE ReadEntry(t)
  <2> DEFINE entry == File[top.file][top.at]
             more == With(top.loaded, entry.name, entry.schema)
             next == [top EXCEPT !.at = @ + 1]
             f == [next EXCEPT !.loaded = more]
  <2>1. top \in LoadFrame /\ Last(frames[t]) = top /\ frames[t] # <<>> /\ waiting[t] = None
    <3>1. At(t, "load", "read")
      BY <1>2, Zenon DEF ReadEntry
    <3> QED
      BY <3>1, AtFacts
  <2>2. /\ top.at <= Len(File[top.file]) /\ UNCHANGED <<registries, waiting, base>>
        /\ entry = None => Pop(t)
        /\ entry # None =>
             frames' = [frames EXCEPT ![t][Len(frames[t])] =
               [top EXCEPT !.at = @ + 1, !.loaded = more]]
    <3>1. Last(frames[t]) = top
      BY <2>1
    <3>2. /\ Last(frames[t]).at <= Len(File[Last(frames[t]).file])
          /\ UNCHANGED <<registries, waiting, base>>
      BY <1>2 DEF ReadEntry
    <3>3. File[Last(frames[t]).file][Last(frames[t]).at] = None => Pop(t)
      BY <1>2 DEF ReadEntry
    <3>4. File[Last(frames[t]).file][Last(frames[t]).at] # None =>
            frames' = [frames EXCEPT ![t][Len(frames[t])] =
              [Last(frames[t]) EXCEPT !.at = @ + 1,
                 !.loaded = With(@, File[Last(frames[t]).file][Last(frames[t]).at].name,
                                    File[Last(frames[t]).file][Last(frames[t]).at].schema)]]
      BY <1>2, Zenon DEF ReadEntry
    <3> HIDE DEF top
    <3> QED
      BY <3>1, <3>2, <3>3, <3>4, Zenon
  <2>3. CASE entry = None
    BY <2>1, <2>2, <2>3, PopStep DEF LoadFrame, IsInside
  <2>4. CASE entry # None
    <3>1. entry \in Entry
      <4> DEFINE file == File[top.file]
      <4>1. file \in Seq(Entry \cup {None}) /\ top.at \in Nat \ {0}
        BY <2>1, FileAssumption DEF LoadFrame
      <4>2. top.at <= Len(file) /\ entry = file[top.at]
        BY <2>2
      <4> HIDE DEF file
      <4>3. file[top.at] \in Entry \cup {None}
        BY <4>1, <4>2
      <4> QED
        BY <4>2, <4>3, <2>4
    <3>2. [o \in {entry.name} |-> entry.schema] \in Contents
      <4>1. [o \in {entry.name} |-> entry.schema] \in [{entry.name} -> Schema]
        BY <3>1 DEF Entry
      <4> QED
        BY <3>1, <4>1 DEF Entry, Contents
    <3>3. more \in Contents
      BY <2>1, <3>2, UpdatedFacts DEF With, LoadFrame
    <3>4. f \in LoadFrame
      <4>1. next \in LoadFrame
        BY <2>1 DEF LoadFrame
      <4> HIDE DEF more, next
      <4> QED
        BY <4>1, <3>3 DEF LoadFrame
    <3>5. frames' = [frames EXCEPT ![t] = [@ EXCEPT ![Len(frames[t])] = f]]
      <4>1. frames \in [Thread -> Seq(Frame)]
        BY DEF Inv, TypeInv
      <4>2. [top EXCEPT !.at = @ + 1, !.loaded = more] = f
        OBVIOUS
      <4>3. frames' = [frames EXCEPT ![t][Len(frames[t])] = f]
        BY <2>2, <2>4, <4>2
      <4> HIDE DEF f
      <4> QED
        BY <4>1, <4>3
    <3>6. f.what = "load" /\ top.what = "load" /\ f \in Frame
      BY <2>1, <3>4 DEF LoadFrame, Frame
    <3> HIDE DEF f
    <3> QED
      BY <2>1, <2>2, <3>5, <3>6, TopStep
  <2> QED
    BY <2>3, <2>4
<1>3. CASE FinishLoad(t)
  <2>1. top \in LoadFrame /\ Last(frames[t]) = top /\ frames[t] # <<>> /\ top.step = "read" /\ waiting[t] = None
    BY <1>3, AtFacts DEF FinishLoad
  <2>2. registries["sass"] \in Contents /\ top.loaded \in Contents /\ "sass" \in Reg
    BY <2>1, InitialAssumption DEF LoadFrame, Inv, TypeInv
  <2>3. CASE top.loaded # Nothing
    <3>1. \E r \in Reg, c \in Contents : Write(r, c)
      BY <1>3, <2>1, <2>2, <2>3, UpdatedFacts DEF FinishLoad
    <3> QED
      BY <1>3, <2>1, <2>3, <3>1, PopStep DEF FinishLoad, LoadFrame, IsInside
  <2>4. CASE top.loaded = Nothing /\ top.file = Default
    <3> DEFINE f == [top EXCEPT !.step = "canonical"]
    <3>1. f \in LoadFrame
      BY <2>1 DEF LoadFrame
    <3>2. frames' = [frames EXCEPT ![t] = [@ EXCEPT ![Len(frames[t])] = f]]
      BY <1>3, <2>1, <2>4, GotoFacts DEF FinishLoad
    <3>3. UNCHANGED <<registries, base, waiting>>
      BY <1>3, <2>1, <2>4 DEF FinishLoad
    <3>4. f.what = "load" /\ top.what = "load" /\ f \in Frame
      BY <2>1, <3>1 DEF LoadFrame, Frame
    <3> HIDE DEF f
    <3> QED
      BY <2>1, <3>2, <3>3, <3>4, TopStep
  <2>5. CASE top.loaded = Nothing /\ top.file # Default
    BY <1>3, <2>1, <2>5, PopStep DEF FinishLoad, LoadFrame, IsInside
  <2> QED
    BY <2>3, <2>4, <2>5
<1>4. CASE UpdateCanonical(t)
  <2>1. top \in LoadFrame /\ Last(frames[t]) = top /\ frames[t] # <<>>
    BY <1>4, AtFacts DEF UpdateCanonical
  <2>2. registries["sass"] \in Contents /\ "sass" \in Reg
    BY InitialAssumption DEF Inv, TypeInv
  <2>3. \E r \in Reg, c \in Contents : Write(r, c)
    BY <1>4, <2>2, CanonicalAssumption, UpdatedFacts DEF UpdateCanonical
  <2> QED
    BY <1>4, <2>1, <2>3, PopStep DEF UpdateCanonical, LoadFrame, IsInside
<1> QED
  BY <1>1, <1>2, <1>3, <1>4

LEMMA OnnxInv ==
  ASSUME Inv, NEW t \in Thread, BeginOnnxLoad(t) \/ ClearOnnx(t) \/ UpdateOnnx(t)
  PROVE  Inv'
<1> DEFINE top == frames[t][Len(frames[t])]
<1>1. CASE BeginOnnxLoad(t)
  <2>1. CASE registries["onnx"] # Nothing
    BY <1>1, <2>1, WaitStep DEF BeginOnnxLoad
  <2>2. CASE registries["onnx"] = Nothing
    <3>1. [what |-> "onnx", step |-> "clear"] \in Frame
      BY DEF Frame, OnnxFrame
    <3> QED
      BY <1>1, <2>2, <3>1, PushStep DEF BeginOnnxLoad, Awaits
  <2> QED
    BY <2>1, <2>2
<1>2. CASE ClearOnnx(t)
  <2> DEFINE f == [top EXCEPT !.step = "update"]
  <2>1. top \in OnnxFrame /\ Last(frames[t]) = top /\ frames[t] # <<>> /\ waiting[t] = None
    BY <1>2, AtFacts DEF ClearOnnx
  <2>2. f \in OnnxFrame
    BY <2>1 DEF OnnxFrame
  <2>3. frames' = [frames EXCEPT ![t] = [@ EXCEPT ![Len(frames[t])] = f]]
    BY <1>2, <2>1, GotoFacts DEF ClearOnnx
  <2>4. \E r \in Reg, c \in Contents : Write(r, c)
    BY <1>2, InitialAssumption, UpdatedFacts DEF ClearOnnx
  <2> QED
    BY <1>2, <2>1, <2>2, <2>3, <2>4, TopStep DEF ClearOnnx, OnnxFrame, Frame
<1>3. CASE UpdateOnnx(t)
  <2>1. top \in OnnxFrame /\ Last(frames[t]) = top /\ frames[t] # <<>>
    BY <1>3, AtFacts DEF UpdateOnnx
  <2>2. \E r \in Reg, c \in Contents : Write(r, c)
    BY <1>3, InitialAssumption, UpdatedFacts DEF UpdateOnnx, Inv, TypeInv
  <2> QED
    BY <1>3, <2>1, <2>2, PopStep DEF UpdateOnnx, OnnxFrame, IsInside
<1> QED
  BY <1>1, <1>2, <1>3

LEMMA NextInv == Inv /\ [Next]_vars => Inv'
<1> SUFFICES ASSUME Inv, [Next]_vars PROVE Inv'
  OBVIOUS
<1>1. CASE UNCHANGED vars
  BY <1>1, WaitStep DEF vars
<1>2. ASSUME NEW t \in Thread, NEW call \in Calls, Request(t, call) PROVE Inv'
  BY <1>2, WaitStep DEF Request
<1>3. ASSUME NEW t \in Thread, NEW reg \in Reg, NEW op \in Op, CheckOperator(t, reg, op) PROVE Inv'
  BY <1>3, WaitStep DEF CheckOperator
<1>4. ASSUME NEW t \in Thread, FetchSchema(t) PROVE Inv'
  BY <1>4, WaitStep DEF FetchSchema
<1> QED
  BY <1>1, <1>2, <1>3, <1>4, OverrideInv, LoadInv, OnnxInv DEF Next, Proceed

\* A thread that writes a registry is at the top of a stack that it changes.
LEMMA WritersMove ==
  ASSUME Inv, [Next]_vars, registries' # registries
  PROVE  \E u \in Thread : frames[u] # <<>> /\ frames'[u] # frames[u]
<1> USE DEF Inv
<1>1. PICK u \in Thread : \/ ClearForOverride(u) \/ ApplyOverrides(u) \/ ClearToRestore(u) \/ Restore(u)
                          \/ FinishLoad(u) \/ UpdateCanonical(u) \/ ClearOnnx(u) \/ UpdateOnnx(u)
  BY DEF Next, Proceed, vars, Request, CheckOperator, EnterOverride, BeginLoad, ReadEntry, BeginOnnxLoad, FetchSchema
<1>2. frames[u] # <<>> /\ frames[u] \in Seq(Frame) /\ frames \in [Thread -> Seq(Frame)]
  BY <1>1 DEF TypeInv, ClearForOverride, ApplyOverrides, ClearToRestore, Restore, FinishLoad, UpdateCanonical,
            ClearOnnx, UpdateOnnx, At
<1>3. ASSUME Pop(u) PROVE frames'[u] # frames[u]
  BY <1>2, <1>3, FrontFacts DEF Pop
<1>4. ASSUME NEW step, Goto(u, step), Last(frames[u]).step # step, Last(frames[u]) \in Frame
      PROVE  frames'[u] # frames[u]
  <2> DEFINE top == frames[u][Len(frames[u])]
             f == [top EXCEPT !.step = step]
  <2>1. top = Last(frames[u]) /\ f.step = step
    BY <1>4 DEF Last, Frame, OverrideFrame, LoadFrame, OnnxFrame
  <2>2. frames'[u] = [frames[u] EXCEPT ![Len(frames[u])] = f]
    <3>1. frames' = [frames EXCEPT ![u] = [@ EXCEPT ![Len(frames[u])] = f]]
      BY <1>2, <1>4, GotoFacts
    <3> HIDE DEF f
    <3> QED
      BY <1>2, <3>1
  <2>3. Len(frames[u]) \in DOMAIN frames[u]
    BY <1>2
  <2>4. frames'[u][Len(frames[u])] = f
    BY <1>2, <2>2, <2>3
  <2> QED
    BY <1>4, <2>1, <2>4
<1>5. CASE Restore(u) \/ FinishLoad(u) \/ UpdateCanonical(u) \/ UpdateOnnx(u)
  BY <1>2, <1>3, <1>5 DEF Restore, FinishLoad, UpdateCanonical, UpdateOnnx
<1>6. CASE ClearForOverride(u) \/ ApplyOverrides(u) \/ ClearToRestore(u) \/ ClearOnnx(u)
  BY <1>2, <1>4, <1>6, AtFacts DEF ClearForOverride, ApplyOverrides, ClearToRestore, ClearOnnx
<1> QED
  BY <1>1, <1>2, <1>5, <1>6

-----------------------------------------------------------------------------
(* Theorems                                                                *)

\* The invariant: one thread at a time, blocks nested, the outermost override of a
\* registry with what loads made of it, and an empty registry to restore it into.
THEOREM Invariance == Spec => []Inv
  BY InitInv, NextInv, PTL DEF Spec

\* When the last override of a registry is left, through any nesting, with loads and
\* overrides of all threads in between, it is again what loads outside made of it.
THEOREM Undone == Spec => []OverridesAreUndone
<1>1. Inv => OverridesAreUndone
  BY DEF Inv
<1> QED
  BY <1>1, Invariance, PTL

\* While a thread is inside an override, only its own steps change the registry.
THEOREM Isolation == Spec => OverriddenByOneThread
<1>1. Inv /\ [Next]_vars =>
        [\A t \in Thread, reg \in Reg :
           Overrides(t, reg) # {} /\ registries'[reg] # registries[reg] => frames'[t] # frames[t]]_vars
  <2> SUFFICES ASSUME Inv, [Next]_vars, NEW t \in Thread, NEW reg \in Reg,
                      Overrides(t, reg) # {}, registries'[reg] # registries[reg]
               PROVE  frames'[t] # frames[t]
    OBVIOUS
  <2>1. frames[t] # <<>>
    BY DEF Overrides
  <2>2. PICK u \in Thread : frames[u] # <<>> /\ frames'[u] # frames[u]
    BY WritersMove
  <2>3. u = t
    BY <2>1, <2>2 DEF Inv, Exclusive
  <2> QED
    BY <2>2, <2>3
<1> QED
  BY <1>1, Invariance, PTL DEF Spec, OverriddenByOneThread
=============================================================================
