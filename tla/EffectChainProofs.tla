------------------------- MODULE EffectChainProofs --------------------------
(***************************************************************************)
(* Proofs about calls, hooks and effects: for any number of callers, calls *)
(* and effects, the depth map counts the effects of a chain exactly while  *)
(* calls come from one place, an outer call then returns what its effects  *)
(* committed, and an effect is handed the latest state.                    *)
(*                                                                         *)
(* The invariant IInv has one part per reason.  ChainsOK: only the last    *)
(* frame of a chain is at an await of its own.  NumbersOK: the revision    *)
(* never exceeds the row's version.  AloneOK: until the row is changed  *)
(* from two places, at most one chain is past its commit; the depth is     *)
(* that chain's, and its revision grew whenever the row did since a frame  *)
(* began its effects.                                                      *)
(***************************************************************************)
EXTENDS EffectChain, SequenceTheorems, FiniteSetTheorems, TLAPS

Labels == {"read", "commit", "asked", "hooks", "hooked", "effects", "refresh", "done",
           "await", "run"}

Frames == [kind : {"start", "transition", "effect"}, pc : Labels, ver : Nat,
           base : Nat, left : Nat, next : Nat, nested : Nat]

Types ==
    /\ row \in Nat /\ revision \in Nat /\ depth \in 0..MaxEffectChainDepth
    /\ stack \in [Callers -> Seq(Frames)]
    /\ throwing \in [Callers -> BOOLEAN]
    /\ calls \in Nat /\ scope \in Scopes /\ foreign \in BOOLEAN

FrameOK(f) ==
    /\ f.ver <= row /\ f.nested <= row
    /\ f.kind = "effect" => /\ f.pc \in {"await", "run"}
                            /\ f.next <= MaxEffectChainDepth
    /\ f.kind # "effect" => f.pc \notin {"await", "run"}
    /\ f.kind = "start" => f.pc \in {"hooks", "hooked", "effects"}

\* A frame that runs above frame b.
Follows(b, f) ==
    /\ b.pc \in {"asked", "hooked", "effects", "run"}
    /\ f.kind # "start"
    /\ f.kind = "transition" => b.pc \in {"asked", "hooked", "run"}

Chain(s) ==
    /\ \A i \in 1..Len(s) : FrameOK(s[i])
    /\ s # <<>> => s[1].kind \in Calling
    /\ \A i \in 1..(Len(s) - 1) : Follows(s[i], s[i + 1])

ChainsOK == \A c \in Callers : Chain(stack[c]) /\ (throwing[c] => Busy(c))

\* A call that has not committed yet.
Fresh(c) == Busy(c) /\ Top(c).pc \in {"read", "commit"}

BusyCallers == {c \in Callers : Busy(c)}

NumbersOK ==
    /\ IsFiniteSet(BusyCallers)
    /\ revision <= row
    /\ row = 0 => BusyCallers = {}

\* The chains that are past the commit of their first call.
Deep(c) == Busy(c) /\ (Len(stack[c]) > 1 \/ ~Fresh(c))

\* What a frame knows while nobody else changes the row.
Settled(f) ==
    /\ f.pc \notin {"asked", "hooked"}
    /\ f.pc = "hooks" => f.ver = row
    /\ f.pc = "effects" => /\ f.base <= revision
                           /\ f.ver = row \/ f.base < revision
    /\ f.pc = "await" => f.next = depth + 1
    /\ f.kind = "transition" /\ f.pc = "done" => f.ver >= f.nested

Alone ==
    /\ \A c, d \in Callers : Deep(c) /\ Deep(d) => c = d
    /\ \A c \in Callers : Deep(c) => depth = Running(c)
    /\ (\A c \in Callers : ~Deep(c)) => depth = 0
    /\ \A c \in Callers : \A i \in 1..Len(stack[c]) : Settled(stack[c][i])

AloneOK == ~foreign => Alone

IInv == Types /\ ChainsOK /\ NumbersOK /\ AloneOK

-----------------------------------------------------------------------------
(* Stacks.                                                                 *)

LEMMA FrontOf ==
    ASSUME NEW S, NEW s \in Seq(S), s # <<>>
    PROVE  /\ Front(s) \in Seq(S) /\ Len(s) \in Nat \ {0}
           /\ Len(Front(s)) = Len(s) - 1
           /\ \A i \in 1..(Len(s) - 1) : Front(s)[i] = s[i]
           /\ Last(s) = s[Len(s)] /\ Last(s) \in S
<1>1. Len(s) \in Nat \ {0} /\ \A i \in 1..Len(s) : s[i] \in S
    BY EmptySeq, ElementOfSeq
<1>2. Front(s) = SubSeq(s, 1, Len(s) - 1)
    BY DEF Front
<1>3. 1 \in Int /\ Len(s) - 1 \in Int /\ \A i \in 1..(Len(s) - 1) : s[i] \in S
    BY <1>1
<1>4. /\ SubSeq(s, 1, Len(s) - 1) \in Seq(S)
      /\ Len(SubSeq(s, 1, Len(s) - 1))
             = IF 1 <= Len(s) - 1 THEN Len(s) - 1 - 1 + 1 ELSE 0
      /\ \A i \in 1..(Len(s) - 1 - 1 + 1) :
             SubSeq(s, 1, Len(s) - 1)[i] = s[1 + i - 1]
    BY ONLY <1>3, SubSeqProperties
<1>5. PICK u : u = SubSeq(s, 1, Len(s) - 1)
    OBVIOUS
<1>6. u \in Seq(S) /\ Len(u) = Len(s) - 1 /\ \A i \in 1..(Len(s) - 1) : u[i] = s[i]
  <2>1. u \in Seq(S) /\ Len(u) = Len(s) - 1
    <3>1. /\ u \in Seq(S)
          /\ Len(u) = IF 1 <= Len(s) - 1 THEN Len(s) - 1 - 1 + 1 ELSE 0
        BY ONLY <1>4, <1>5
    <3>2. PICK n \in Nat : n + 1 = Len(s)
        BY <1>1
    <3>3. Len(s) - 1 = n
        BY <3>2
    <3>4. Len(u) = IF 1 <= n THEN n - 1 + 1 ELSE 0
        BY ONLY <3>1, <3>3
    <3>5. Len(u) = n
        BY ONLY <3>4, n \in Nat
    <3> QED BY ONLY <3>1, <3>3, <3>5
  <2>2. ASSUME NEW i \in 1..(Len(s) - 1) PROVE u[i] = s[i]
    <3>1. i \in 1..(Len(s) - 1 - 1 + 1) /\ 1 + i - 1 = i
        BY <1>1
    <3> QED BY <1>4, <1>5, <3>1
  <2> QED BY <2>1, <2>2
<1>7. Last(s) = s[Len(s)] /\ Len(s) \in 1..Len(s)
    BY <1>1 DEF Last
<1> QED BY <1>1, <1>2, <1>5, <1>6, <1>7

\* The last element is replaced.
LEMMA LastReplaced ==
    ASSUME NEW S, NEW s \in Seq(S), s # <<>>, NEW f \in S
    PROVE  LET u == Front(s) \o <<f>>
           IN  /\ u \in Seq(S) /\ u # <<>> /\ Len(u) = Len(s) /\ u[Len(s)] = f
               /\ \A i \in 1..(Len(s) - 1) : u[i] = s[i]
<1>0. PICK u : u = Front(s) \o <<f>>
    OBVIOUS
<1>1. /\ Front(s) \in Seq(S) /\ Len(s) \in Nat \ {0} /\ Len(Front(s)) = Len(s) - 1
      /\ \A i \in 1..(Len(s) - 1) : Front(s)[i] = s[i]
    BY FrontOf
<1>2. PICK t \in Seq(S) : t = <<f>> /\ Len(t) = 1 /\ t[1] = f
  <2>1. <<f>> \in Seq(S)
      OBVIOUS
  <2>2. Len(<<f>>) = 1 /\ <<f>>[1] = f
      OBVIOUS
  <2> QED BY ONLY <2>1, <2>2
<1>3. /\ Front(s) \o t \in Seq(S) /\ Len(Front(s) \o t) = Len(Front(s)) + Len(t)
      /\ \A i \in 1..(Len(Front(s)) + Len(t)) : (Front(s) \o t)[i] =
             IF i <= Len(Front(s)) THEN Front(s)[i] ELSE t[i - Len(Front(s))]
    BY ONLY <1>1, <1>2, ConcatProperties
<1>4. u = Front(s) \o t
    BY <1>0, <1>2
<1>5. /\ u \in Seq(S) /\ u # <<>> /\ Len(u) = Len(s) /\ u[Len(s)] = f
      /\ \A i \in 1..(Len(s) - 1) : u[i] = s[i]
    BY <1>1, <1>2, <1>3, <1>4, EmptySeq
<1> QED BY ONLY <1>0, <1>5

\* The last element is replaced and one more put on top.
LEMMA LastPushed ==
    ASSUME NEW S, NEW s \in Seq(S), s # <<>>, NEW b \in S, NEW f \in S
    PROVE  LET u == Front(s) \o <<b, f>>
           IN  /\ u \in Seq(S) /\ u # <<>> /\ Len(u) = Len(s) + 1
               /\ u[Len(s)] = b /\ u[Len(s) + 1] = f
               /\ \A i \in 1..(Len(s) - 1) : u[i] = s[i]
<1>0. PICK u : u = Front(s) \o <<b, f>>
    OBVIOUS
<1>1. /\ Front(s) \in Seq(S) /\ Len(s) \in Nat \ {0} /\ Len(Front(s)) = Len(s) - 1
      /\ \A i \in 1..(Len(s) - 1) : Front(s)[i] = s[i]
    BY FrontOf
<1>2. PICK t \in Seq(S) : t = <<b, f>> /\ Len(t) = 2 /\ t[1] = b /\ t[2] = f
  <2>1. <<b, f>> \in Seq(S)
      OBVIOUS
  <2>2. Len(<<b, f>>) = 2 /\ <<b, f>>[1] = b /\ <<b, f>>[2] = f
      OBVIOUS
  <2> QED BY ONLY <2>1, <2>2
<1>3. /\ Front(s) \o t \in Seq(S) /\ Len(Front(s) \o t) = Len(Front(s)) + Len(t)
      /\ \A i \in 1..(Len(Front(s)) + Len(t)) : (Front(s) \o t)[i] =
             IF i <= Len(Front(s)) THEN Front(s)[i] ELSE t[i - Len(Front(s))]
    BY ONLY <1>1, <1>2, ConcatProperties
<1>4. u = Front(s) \o t
    BY <1>0, <1>2
<1>5. u \in Seq(S) /\ Len(u) = Len(s) + 1
    BY <1>1, <1>2, <1>3, <1>4
<1>6. ASSUME NEW i \in 1..(Len(s) + 1)
      PROVE  u[i] = IF i <= Len(s) - 1 THEN Front(s)[i] ELSE t[i - (Len(s) - 1)]
    BY <1>1, <1>2, <1>3, <1>4
<1>7. u[Len(s)] = b /\ u[Len(s) + 1] = f
  <2>1. /\ Len(s) \in 1..(Len(s) + 1) /\ Len(s) - (Len(s) - 1) = 1
        /\ Len(s) + 1 \in 1..(Len(s) + 1) /\ Len(s) + 1 - (Len(s) - 1) = 2
        /\ ~(Len(s) <= Len(s) - 1) /\ ~(Len(s) + 1 <= Len(s) - 1)
      BY <1>1
  <2>2. u[Len(s)] = t[Len(s) - (Len(s) - 1)]
      BY ONLY <1>6, <2>1
  <2>3. u[Len(s) + 1] = t[Len(s) + 1 - (Len(s) - 1)]
      BY ONLY <1>6, <2>1
  <2> QED BY ONLY <1>2, <2>1, <2>2, <2>3
<1>8. \A i \in 1..(Len(s) - 1) : u[i] = s[i]
    BY <1>1, <1>6
<1>9. u # <<>>
    BY <1>1, <1>5, EmptySeq
<1> QED BY ONLY <1>0, <1>5, <1>7, <1>8, <1>9

\* What a step does to the chain of its caller; the other chains stay.
OneChain(c) ==
    /\ stack' \in [Callers -> Seq(Frames)]
    /\ \A d \in Callers \ {c} : stack'[d] = stack[d]

Height(c) == Len(stack[c])

Replaced(c, f) ==
    /\ OneChain(c) /\ stack'[c] # <<>>
    /\ Len(stack'[c]) = Height(c) /\ stack'[c][Height(c)] = f
    /\ \A i \in 1..(Height(c) - 1) : stack'[c][i] = stack[c][i]

Pushed(c, b, f) ==
    /\ OneChain(c) /\ stack'[c] # <<>>
    /\ Len(stack'[c]) = Height(c) + 1
    /\ stack'[c][Height(c)] = b /\ stack'[c][Height(c) + 1] = f
    /\ \A i \in 1..(Height(c) - 1) : stack'[c][i] = stack[c][i]

\* The frame below takes over nothing but the latest version.
Popped(c) ==
    /\ OneChain(c)
    /\ Len(stack'[c]) = Height(c) - 1
    /\ Height(c) > 1 =>
           \E f \in Frames :
               /\ stack'[c][Height(c) - 1] = f
               /\ f.kind = stack[c][Height(c) - 1].kind
               /\ f.pc = stack[c][Height(c) - 1].pc
               /\ f.ver = stack[c][Height(c) - 1].ver
               /\ f.base = stack[c][Height(c) - 1].base
               /\ f.next = stack[c][Height(c) - 1].next
               /\ f.nested \in {stack[c][Height(c) - 1].nested,
                                Top(c).nested, Top(c).ver, 0}
    /\ \A i \in 1..(Height(c) - 2) : stack'[c][i] = stack[c][i]

Begun(c, f) ==
    /\ OneChain(c) /\ stack[c] = <<>>
    /\ Len(stack'[c]) = 1 /\ stack'[c][1] = f /\ stack'[c] # <<>>

LEMMA TopFrame ==
    ASSUME Types, NEW c \in Callers, Busy(c)
    PROVE  /\ Height(c) \in Nat \ {0} /\ stack[c] \in Seq(Frames) /\ stack[c] # <<>>
           /\ Top(c) = stack[c][Height(c)] /\ Top(c) \in Frames
           /\ \A i \in 1..Height(c) : stack[c][i] \in Frames
<1>1. stack[c] \in Seq(Frames) /\ stack[c] # <<>>
    BY DEF Types, Busy
<1>2. PICK s \in Seq(Frames) : s = stack[c] /\ s # <<>>
    BY <1>1
<1>3. /\ Len(s) \in Nat \ {0} /\ Last(s) = s[Len(s)] /\ Last(s) \in Frames
    BY <1>2, FrontOf
<1>4. \A i \in 1..Len(s) : s[i] \in Frames
    BY ElementOfSeq
<1> QED BY <1>2, <1>3, <1>4 DEF Top, Height

LEMMA SetTopReplaces ==
    ASSUME Types, NEW c \in Callers, Busy(c), NEW f \in Frames, SetTop(c, f)
    PROVE  Replaced(c, f)
<1>1. PICK s \in Seq(Frames) : s = stack[c] /\ s # <<>>
    BY TopFrame
<1>2. PICK u : u = Front(s) \o <<f>>
    OBVIOUS
<1>3. /\ u \in Seq(Frames) /\ u # <<>> /\ Len(u) = Len(s) /\ u[Len(s)] = f
      /\ \A i \in 1..(Len(s) - 1) : u[i] = s[i]
  <2>1. LET w == Front(s) \o <<f>>
        IN  /\ w \in Seq(Frames) /\ w # <<>> /\ Len(w) = Len(s) /\ w[Len(s)] = f
            /\ \A i \in 1..(Len(s) - 1) : w[i] = s[i]
    <3>1. s \in Seq(Frames) /\ s # <<>> /\ f \in Frames
        BY <1>1
    <3> QED BY ONLY <3>1, LastReplaced
  <2> QED BY ONLY <1>2, <2>1
<1>4. stack' = [stack EXCEPT ![c] = u]
    BY <1>1, <1>2 DEF SetTop
<1>5. OneChain(c) /\ stack'[c] = u
    BY <1>3, <1>4 DEF Types, OneChain
<1> QED BY <1>1, <1>3, <1>5 DEF Replaced, Height

LEMMA PushPushes ==
    ASSUME Types, NEW c \in Callers, Busy(c), NEW b \in Frames, NEW f \in Frames,
           Push(c, b, f)
    PROVE  Pushed(c, b, f)
<1>1. PICK s \in Seq(Frames) : s = stack[c] /\ s # <<>>
    BY TopFrame
<1>2. PICK u : u = Front(s) \o <<b, f>>
    OBVIOUS
<1>3. /\ u \in Seq(Frames) /\ u # <<>> /\ Len(u) = Len(s) + 1
      /\ u[Len(s)] = b /\ u[Len(s) + 1] = f
      /\ \A i \in 1..(Len(s) - 1) : u[i] = s[i]
  <2>1. LET w == Front(s) \o <<b, f>>
        IN  /\ w \in Seq(Frames) /\ w # <<>> /\ Len(w) = Len(s) + 1
            /\ w[Len(s)] = b /\ w[Len(s) + 1] = f
            /\ \A i \in 1..(Len(s) - 1) : w[i] = s[i]
    <3>1. s \in Seq(Frames) /\ s # <<>> /\ b \in Frames /\ f \in Frames
        BY <1>1
    <3> QED BY ONLY <3>1, LastPushed
  <2> QED BY ONLY <1>2, <2>1
<1>4. stack' = [stack EXCEPT ![c] = u]
    BY <1>1, <1>2 DEF Push
<1>5. OneChain(c) /\ stack'[c] = u
    BY <1>3, <1>4 DEF Types, OneChain
<1> QED BY <1>1, <1>3, <1>5 DEF Pushed, Height

LEMMA PopPops ==
    ASSUME Types, NEW c \in Callers, Busy(c), Pop(c)
    PROVE  Popped(c)
<1>1. PICK s \in Seq(Frames) : s = stack[c] /\ s # <<>>
    BY TopFrame
<1>2. PICK r : r = Front(s)
    OBVIOUS
<1>3. /\ r \in Seq(Frames) /\ Len(s) \in Nat \ {0} /\ Len(r) = Len(s) - 1
      /\ \A i \in 1..(Len(s) - 1) : r[i] = s[i]
    BY <1>1, <1>2, FrontOf
<1>4. PICK top \in Frames : top = Top(c)
    BY TopFrame
<1> DEFINE latest == Max2(top.nested, IF top.kind = "effect" THEN 0 ELSE top.ver)
<1>5. latest \in {top.nested, top.ver, 0} /\ latest \in Nat
    BY DEF Max2, Frames
<1>6. stack' = [stack EXCEPT ![c] =
            IF r = <<>> THEN r
            ELSE Front(r) \o <<[Last(r) EXCEPT !.nested = Max2(@, latest)]>>]
    BY <1>1, <1>2, <1>4 DEF Pop
<1> HIDE DEF latest
<1>7. CASE r = <<>>
  <2>1. OneChain(c) /\ stack'[c] = r
      BY <1>3, <1>6, <1>7 DEF Types, OneChain
  <2>2. Len(r) = 0 /\ Len(s) = 1
      BY <1>3, <1>7
  <2> QED BY <1>1, <2>1, <2>2 DEF Popped, Height
<1>8. CASE r # <<>>
  <2>1. /\ Len(r) \in Nat \ {0} /\ Last(r) = r[Len(r)] /\ Last(r) \in Frames
      BY <1>3, <1>8, FrontOf
  <2>2. PICK l \in Frames : l = Last(r)
      BY <2>1
  <2>3. PICK f : f = [l EXCEPT !.nested = Max2(@, latest)]
      OBVIOUS
  <2>4. l.nested \in Nat
      BY DEF Frames
  <2>5. Max2(l.nested, latest) \in {l.nested, latest} /\ Max2(l.nested, latest) \in Nat
      BY <1>5, <2>4 DEF Max2
  <2>6. PICK m \in Nat : m = Max2(l.nested, latest)
      BY <2>5
  <2>7. f = [l EXCEPT !.nested = m]
      BY <2>3, <2>6
  <2>8. /\ f \in Frames /\ f.kind = l.kind /\ f.pc = l.pc /\ f.ver = l.ver
        /\ f.base = l.base /\ f.next = l.next /\ f.nested = m
      BY <2>7 DEF Frames
  <2>9. PICK u : u = Front(r) \o <<f>>
      OBVIOUS
  <2>10. /\ u \in Seq(Frames) /\ Len(u) = Len(r) /\ u[Len(r)] = f
         /\ \A i \in 1..(Len(r) - 1) : u[i] = r[i]
    <3>1. LET w == Front(r) \o <<f>>
          IN  /\ w \in Seq(Frames) /\ w # <<>> /\ Len(w) = Len(r) /\ w[Len(r)] = f
              /\ \A i \in 1..(Len(r) - 1) : w[i] = r[i]
      <4>1. r \in Seq(Frames) /\ r # <<>> /\ f \in Frames
          BY <1>3, <1>8, <2>8
      <4> QED BY ONLY <4>1, LastReplaced
    <3> QED BY ONLY <2>9, <3>1
  <2>11. stack' = [stack EXCEPT ![c] = u]
      BY <1>6, <1>8, <2>2, <2>3, <2>9
  <2>12. OneChain(c) /\ stack'[c] = u
      BY <2>10, <2>11 DEF Types, OneChain
  <2>13. l = s[Len(s) - 1] /\ Len(s) > 1
      BY <1>3, <2>1, <2>2
  <2>14. f.nested \in {l.nested, top.nested, top.ver, 0}
      BY <1>5, <2>5, <2>6, <2>8
  <2>15. \A i \in 1..(Len(s) - 2) : u[i] = s[i]
      BY <1>3, <2>10
  <2>16. Len(u) = Len(s) - 1 /\ u[Len(s) - 1] = f
      BY <1>3, <2>10
  <2> QED BY <1>1, <1>4, <2>8, <2>12, <2>13, <2>14, <2>15, <2>16 DEF Popped, Height
<1> QED BY <1>7, <1>8

LEMMA BeginBegins ==
    ASSUME Types, NEW c \in Callers, ~Busy(c), NEW f \in Frames,
           stack' = [stack EXCEPT ![c] = <<f>>]
    PROVE  Begun(c, f)
<1>1. <<f>> \in Seq(Frames)
    OBVIOUS
<1>2. Len(<<f>>) = 1 /\ <<f>>[1] = f /\ <<f>> # <<>>
    OBVIOUS
<1>3. PICK u \in Seq(Frames) : u = <<f>>
    BY <1>1
<1>4. OneChain(c) /\ stack'[c] = u
    BY <1>3 DEF Types, OneChain
<1> QED BY <1>2, <1>3, <1>4 DEF Begun, Busy

-----------------------------------------------------------------------------
(* Chains.                                                                 *)

LEMMA OtherChains ==
    ASSUME Types, ChainsOK, row' \in Nat, row <= row', NEW c \in Callers, OneChain(c),
           throwing' \in [Callers -> BOOLEAN],
           \A d \in Callers \ {c} : throwing'[d] = throwing[d],
           Chain(stack[c])' /\ (throwing'[c] => Busy(c)')
    PROVE  ChainsOK'
<1> SUFFICES ASSUME NEW d \in Callers, d # c
             PROVE  Chain(stack[d])' /\ (throwing'[d] => Busy(d)')
    BY DEF ChainsOK
<1>1. stack'[d] = stack[d] /\ throwing'[d] = throwing[d]
    BY DEF OneChain
<1>2. Chain(stack[d]) /\ (throwing[d] => Busy(d))
    BY DEF ChainsOK
<1>3. PICK s \in Seq(Frames) : s = stack[d]
    BY DEF Types
<1>4. \A i \in 1..Len(s) : s[i].ver \in Nat /\ s[i].nested \in Nat
  <2>1. \A i \in 1..Len(s) : s[i] \in Frames
      BY ElementOfSeq
  <2> QED BY <2>1 DEF Frames
<1>5. \A i \in 1..Len(s) : FrameOK(s[i])'
  <2>1. row \in Nat
      BY DEF Types
  <2> QED BY <1>2, <1>3, <1>4, <2>1 DEF Chain, FrameOK
<1>6. Chain(stack[d])'
    BY <1>1, <1>2, <1>3, <1>5 DEF Chain, FrameOK
<1> QED BY <1>1, <1>2, <1>6 DEF Busy

LEMMA OwnFrames ==
    ASSUME Types, ChainsOK, row' \in Nat, row <= row', NEW c \in Callers
    PROVE  \A i \in 1..Height(c) : \A f : f = stack[c][i] => FrameOK(f)'
<1> SUFFICES ASSUME NEW i \in 1..Height(c), NEW f, f = stack[c][i]
             PROVE  FrameOK(f)'
    OBVIOUS
<1>1. f \in Frames
  <2>1. PICK s \in Seq(Frames) : s = stack[c]
      BY DEF Types
  <2>2. \A j \in 1..Len(s) : s[j] \in Frames
      BY ElementOfSeq
  <2> QED BY <2>1, <2>2 DEF Height
<1>2. FrameOK(f)
    BY DEF ChainsOK, Chain, Height
<1>3. f.ver \in Nat /\ f.nested \in Nat /\ row \in Nat
    BY <1>1 DEF Frames, Types
<1> QED BY <1>2, <1>3 DEF FrameOK

LEMMA ChainReplaced ==
    ASSUME Types, ChainsOK, row' \in Nat, row <= row', NEW c \in Callers, Busy(c),
           NEW f \in Frames, Replaced(c, f), FrameOK(f)', f.kind = Top(c).kind
    PROVE  Chain(stack[c])' /\ Busy(c)'
<1>1. Height(c) \in Nat \ {0} /\ Top(c) = stack[c][Height(c)] /\ stack[c] # <<>>
    BY TopFrame
<1>2. \A i \in 1..Height(c) : i = Height(c) \/ i \in 1..(Height(c) - 1)
    BY <1>1
<1>3. PICK u : u = stack'[c]
    OBVIOUS
<1>4. Len(u) = Height(c) /\ u[Height(c)] = f /\ u # <<>>
      /\ \A i \in 1..(Height(c) - 1) : u[i] = stack[c][i]
    BY <1>3 DEF Replaced
<1>5. \A i \in 1..Len(u) : FrameOK(u[i])'
    BY <1>1, <1>2, <1>4, OwnFrames
<1>6. Chain(stack[c])
    BY DEF ChainsOK
<1>7. u[1].kind \in Calling
  <2>1. 1 = Height(c) \/ 1 \in 1..(Height(c) - 1)
      BY <1>1
  <2>2. stack[c][1].kind \in Calling
      BY <1>1, <1>6 DEF Chain
  <2> QED BY <1>1, <1>4, <2>1, <2>2
<1>8. ASSUME NEW i \in 1..(Len(u) - 1) PROVE Follows(u[i], u[i + 1])
  <2>1. Follows(stack[c][i], stack[c][i + 1])
      BY <1>4, <1>6 DEF Chain, Height
  <2>2. i \in 1..(Height(c) - 1) /\ u[i] = stack[c][i]
      BY <1>4
  <2>3. CASE i + 1 = Height(c)
      BY <1>1, <1>4, <2>1, <2>2, <2>3 DEF Follows
  <2>4. CASE i + 1 # Height(c)
    <3>1. i + 1 \in 1..(Height(c) - 1)
        BY <1>1, <2>2, <2>4
    <3> QED BY <1>4, <2>1, <2>2, <3>1
  <2> QED BY <2>3, <2>4
<1> QED BY <1>3, <1>4, <1>5, <1>7, <1>8 DEF Chain, FrameOK, Busy

LEMMA ChainPushed ==
    ASSUME Types, ChainsOK, row' \in Nat, row <= row', NEW c \in Callers, Busy(c),
           NEW b \in Frames, NEW f \in Frames, Pushed(c, b, f),
           FrameOK(b)', FrameOK(f)', b.kind = Top(c).kind, Follows(b, f)
    PROVE  Chain(stack[c])' /\ Busy(c)'
<1>1. Height(c) \in Nat \ {0} /\ Top(c) = stack[c][Height(c)] /\ stack[c] # <<>>
    BY TopFrame
<1>2. \A i \in 1..(Height(c) + 1) :
          i = Height(c) + 1 \/ i = Height(c) \/ i \in 1..(Height(c) - 1)
    BY <1>1
<1>3. PICK u : u = stack'[c]
    OBVIOUS
<1>4. Len(u) = Height(c) + 1 /\ u[Height(c)] = b /\ u[Height(c) + 1] = f /\ u # <<>>
      /\ \A i \in 1..(Height(c) - 1) : u[i] = stack[c][i]
    BY <1>3 DEF Pushed
<1>5. \A i \in 1..Len(u) : FrameOK(u[i])'
    BY <1>1, <1>2, <1>4, OwnFrames
<1>6. Chain(stack[c])
    BY DEF ChainsOK
<1>7. u[1].kind \in Calling
  <2>1. 1 = Height(c) \/ 1 \in 1..(Height(c) - 1)
      BY <1>1
  <2>2. stack[c][1].kind \in Calling
      BY <1>1, <1>6 DEF Chain
  <2> QED BY <1>1, <1>4, <2>1, <2>2
<1>8. ASSUME NEW i \in 1..(Len(u) - 1) PROVE Follows(u[i], u[i + 1])
  <2>1. CASE i = Height(c)
      BY <1>4, <2>1
  <2>2. CASE i # Height(c)
    <3>1. i \in 1..(Height(c) - 1)
        BY <1>1, <1>4, <2>2
    <3>2. Follows(stack[c][i], stack[c][i + 1]) /\ u[i] = stack[c][i]
        BY <1>4, <1>6, <3>1 DEF Chain, Height
    <3>3. CASE i + 1 = Height(c)
        BY <1>1, <1>4, <3>2, <3>3 DEF Follows
    <3>4. CASE i + 1 # Height(c)
      <4>1. i + 1 \in 1..(Height(c) - 1)
          BY <1>1, <3>1, <3>4
      <4> QED BY <1>4, <3>2, <4>1
    <3> QED BY <3>3, <3>4
  <2> QED BY <2>1, <2>2
<1> QED BY <1>3, <1>4, <1>5, <1>7, <1>8 DEF Chain, FrameOK, Busy

LEMMA ChainPopped ==
    ASSUME Types, ChainsOK, row' = row, NEW c \in Callers, Busy(c), Popped(c)
    PROVE  /\ Chain(stack[c])'
           /\ Height(c) > 1 => /\ Busy(c)' /\ Top(c)' = stack'[c][Height(c) - 1]
                               /\ Top(c)'.pc \in {"asked", "hooked", "effects", "run"}
           /\ Height(c) = 1 => stack'[c] = <<>>
<1>1. Height(c) \in Nat \ {0} /\ Top(c) = stack[c][Height(c)] /\ stack[c] # <<>>
      /\ Top(c) \in Frames /\ \A i \in 1..Height(c) : stack[c][i] \in Frames
    BY TopFrame
<1>2. PICK u \in Seq(Frames) : u = stack'[c]
    BY DEF Popped, OneChain
<1>3. Chain(stack[c])
    BY DEF ChainsOK
<1>4. Len(u) = Height(c) - 1 /\ \A i \in 1..(Height(c) - 2) : u[i] = stack[c][i]
    BY <1>2 DEF Popped
<1>5. CASE Height(c) = 1
  <2>1. Len(u) = 0
      BY <1>1, <1>4, <1>5
  <2>2. u = <<>>
      BY <2>1, EmptySeq
  <2> QED BY <1>2, <1>5, <2>1, <2>2 DEF Chain
<1>6. CASE Height(c) > 1
  <2>1. PICK f \in Frames :
               /\ u[Height(c) - 1] = f
               /\ f.kind = stack[c][Height(c) - 1].kind
               /\ f.pc = stack[c][Height(c) - 1].pc
               /\ f.ver = stack[c][Height(c) - 1].ver
               /\ f.next = stack[c][Height(c) - 1].next
               /\ f.nested \in {stack[c][Height(c) - 1].nested,
                                Top(c).nested, Top(c).ver, 0}
      BY <1>2, <1>6 DEF Popped
  <2>2. /\ Height(c) - 1 \in 1..Height(c)
        /\ FrameOK(stack[c][Height(c) - 1]) /\ FrameOK(Top(c))
        /\ Follows(stack[c][Height(c) - 1], Top(c))
      BY <1>1, <1>3, <1>6 DEF Chain, Height
  <2>3. FrameOK(f)'
    <3>1. row \in Nat
        BY DEF Types
    <3> QED BY <2>1, <2>2, <3>1 DEF FrameOK
  <2>4. \A i \in 1..Len(u) : i = Height(c) - 1 \/ i \in 1..(Height(c) - 2)
      BY <1>1, <1>4
  <2>5. \A i \in 1..(Height(c) - 2) : i \in 1..Height(c)
      BY <1>1
  <2>6. \A i \in 1..Len(u) : FrameOK(u[i])'
      BY <1>4, <2>1, <2>3, <2>4, <2>5, OwnFrames DEF Types
  <2>7. u[1].kind \in Calling
    <3>1. 1 = Height(c) - 1 \/ 1 \in 1..(Height(c) - 2)
        BY <1>1, <1>6
    <3>2. stack[c][1].kind \in Calling
        BY <1>1, <1>3 DEF Chain
    <3> QED BY <1>4, <2>1, <3>1, <3>2
  <2>8. ASSUME NEW i \in 1..(Len(u) - 1) PROVE Follows(u[i], u[i + 1])
    <3>1. i \in 1..(Height(c) - 2) /\ i \in 1..(Height(c) - 1)
        BY <1>1, <1>4
    <3>2. Follows(stack[c][i], stack[c][i + 1]) /\ u[i] = stack[c][i]
        BY <1>3, <1>4, <3>1 DEF Chain, Height
    <3>3. CASE i + 1 = Height(c) - 1
        BY <2>1, <3>2, <3>3 DEF Follows
    <3>4. CASE i + 1 # Height(c) - 1
      <4>1. i + 1 \in 1..(Height(c) - 2)
          BY <1>1, <3>1, <3>4
      <4> QED BY <1>4, <3>2, <4>1
    <3> QED BY <3>3, <3>4
  <2>9. u # <<>>
      BY <1>1, <1>4, <1>6, EmptySeq
  <2>10. Last(u) = u[Height(c) - 1]
      BY <1>4 DEF Last
  <2>11. Top(c)' = u[Height(c) - 1]
      BY <1>2, <2>10 DEF Top
  <2>12. u[Height(c) - 1].pc \in {"asked", "hooked", "effects", "run"}
      BY <2>1, <2>2 DEF Follows
  <2> QED BY <1>1, <1>2, <1>6, <2>6, <2>7, <2>8, <2>9, <2>11, <2>12
          DEF Chain, FrameOK, Busy
<1> QED BY <1>1, <1>5, <1>6

LEMMA ChainBegun ==
    ASSUME NEW c \in Callers, NEW f \in Frames, Begun(c, f), FrameOK(f)',
           f.kind \in Calling
    PROVE  Chain(stack[c])' /\ Busy(c)'
<1>1. PICK u : u = stack'[c] /\ Len(u) = 1 /\ u[1] = f /\ u # <<>>
    BY DEF Begun
<1>2. \A i \in 1..Len(u) : i = 1
    BY <1>1
<1>3. 1..(Len(u) - 1) = {}
    BY <1>1
<1> QED BY <1>1, <1>2, <1>3 DEF Chain, FrameOK, Busy

\* What the new top of a chain is.
LEMMA NewTop ==
    ASSUME Types, NEW c \in Callers, NEW f
    PROVE  /\ Begun(c, f) => Busy(c)' /\ Top(c)' = f /\ Len(stack'[c]) = 1
           /\ Busy(c) /\ Replaced(c, f) => Busy(c)' /\ Top(c)' = f
           /\ \A b : Busy(c) /\ Pushed(c, b, f) =>
                  Busy(c)' /\ Top(c)' = f /\ Len(stack'[c]) > 1
<1>1. Begun(c, f) => Busy(c)' /\ Top(c)' = f /\ Len(stack'[c]) = 1
    BY DEF Begun, Busy, Top, Last
<1>2. Busy(c) /\ Replaced(c, f) => Busy(c)' /\ Top(c)' = f
    BY TopFrame DEF Replaced, Busy, Top, Last
<1>3. ASSUME NEW b, Busy(c), Pushed(c, b, f)
      PROVE  Busy(c)' /\ Top(c)' = f /\ Len(stack'[c]) > 1
    BY <1>3, TopFrame DEF Pushed, Busy, Top, Last
<1> QED BY <1>1, <1>2, <1>3

LEMMA OtherCallers ==
    ASSUME NEW c \in Callers, OneChain(c)
    PROVE  \A d \in Callers \ {c} :
               /\ Busy(d)' <=> Busy(d)
               /\ Fresh(d)' <=> Fresh(d)
               /\ Deep(d)' <=> Deep(d)
               /\ Running(d)' = Running(d)
BY DEF OneChain, Busy, Fresh, Deep, Top, Running

-----------------------------------------------------------------------------
(* Numbers: the revision never exceeds the version.                        *)

LEMMA NumbersStep ==
    ASSUME Types, NumbersOK, NEW c \in Callers, OneChain(c),
           row' \in Nat, row <= row', revision' <= row', row' = 0 => ~Busy(c)'
    PROVE  NumbersOK'
<1>1. BusyCallers' \subseteq BusyCallers \cup {c}
    BY OtherCallers DEF BusyCallers
<1>2. IsFiniteSet(BusyCallers \cup {c})
    BY FS_AddElement DEF NumbersOK
<1>3. IsFiniteSet(BusyCallers')
    BY <1>1, <1>2, FS_Subset
<1>4. ASSUME row' = 0 PROVE BusyCallers' = {}
  <2>1. row = 0
      BY <1>4 DEF Types
  <2>2. BusyCallers = {}
      BY <2>1 DEF NumbersOK
  <2>3. c \notin BusyCallers'
      BY <1>4 DEF BusyCallers
  <2> QED BY <1>1, <2>2, <2>3
<1> QED BY <1>3, <1>4 DEF NumbersOK

-----------------------------------------------------------------------------
(* The effects of a chain.                                                 *)

IsRunning(f) == f.kind = "effect" /\ f.pc = "run"

RunSet(c) == {i \in 1..Height(c) : IsRunning(stack[c][i])}

LEMMA RunningCounts ==
    ASSUME Types, NEW c \in Callers
    PROVE  /\ Running(c) = Cardinality(RunSet(c))
           /\ IsFiniteSet(RunSet(c)) /\ Running(c) \in Nat
<1>1. PICK s \in Seq(Frames) : s = stack[c]
    BY DEF Types
<1>2. DOMAIN s = 1..Len(s) /\ Len(s) \in Nat
    BY LenProperties
<1>3. Running(c) = Cardinality(RunSet(c))
    BY <1>1, <1>2 DEF Running, RunSet, Height, IsRunning
<1>4. IsFiniteSet(1..Len(s))
  <2>1. 1 \in Int /\ Len(s) \in Int
      BY <1>2
  <2> QED BY ONLY <2>1, FS_Interval
<1>5. RunSet(c) \subseteq 1..Len(s)
    BY <1>1 DEF RunSet, Height
<1>6. IsFiniteSet(RunSet(c)) /\ Cardinality(RunSet(c)) \in Nat
    BY <1>4, <1>5, FS_Subset, FS_CardinalityType
<1> QED BY <1>3, <1>6

\* The same of the next state, whose chain of c is u.
LEMMA RunningNext ==
    ASSUME NEW c \in Callers, stack' \in [Callers -> Seq(Frames)]
    PROVE  Running(c)' = Cardinality({i \in 1..Len(stack'[c]) :
                                          IsRunning(stack'[c][i])})
<1>1. PICK u \in Seq(Frames) : u = stack'[c]
    OBVIOUS
<1>2. DOMAIN u = 1..Len(u)
    BY LenProperties
<1> QED BY <1>1, <1>2 DEF Running, IsRunning

LEMMA RunningReplaced ==
    ASSUME Types, NEW c \in Callers, Busy(c), NEW f, Replaced(c, f),
           IsRunning(Top(c)) => IsRunning(f)
    PROVE  Running(c)' = IF IsRunning(f) /\ ~IsRunning(Top(c)) THEN Running(c) + 1
                         ELSE Running(c)
<1>1. Height(c) \in Nat \ {0} /\ Top(c) = stack[c][Height(c)]
    BY TopFrame
<1>2. PICK R : R = RunSet(c) /\ IsFiniteSet(R) /\ Running(c) = Cardinality(R)
    BY RunningCounts
<1>3. PICK u : u = stack'[c]
    OBVIOUS
<1>4. Len(u) = Height(c) /\ u[Height(c)] = f
      /\ \A i \in 1..(Height(c) - 1) : u[i] = stack[c][i]
    BY <1>3 DEF Replaced
<1>5. Running(c)' = Cardinality({i \in 1..Len(u) : IsRunning(u[i])})
    BY <1>3, RunningNext DEF Replaced, OneChain
<1>6. {i \in 1..Len(u) : IsRunning(u[i])}
          = IF IsRunning(f) THEN R \cup {Height(c)} ELSE R
  <2>1. \A i \in 1..Height(c) : i = Height(c) \/ i \in 1..(Height(c) - 1)
      BY <1>1
  <2>2. ASSUME NEW i \in 1..(Height(c) - 1)
        PROVE  IsRunning(u[i]) <=> i \in R
      BY <1>1, <1>2, <1>4 DEF RunSet
  <2>3. Height(c) \in R <=> IsRunning(Top(c))
      BY <1>1, <1>2 DEF RunSet
  <2>4. R \subseteq 1..Height(c)
      BY <1>2 DEF RunSet
  <2>5. IsRunning(u[Height(c)]) <=> IsRunning(f)
      BY <1>4
  <2>6. PICK W : W = {i \in 1..Len(u) : IsRunning(u[i])}
      OBVIOUS
  <2>7. W \subseteq 1..Height(c) /\ \A i \in 1..Height(c) : i \in W <=> IsRunning(u[i])
      BY <1>4, <2>6
  <2>8. Height(c) \in 1..Height(c)
      BY <1>1
  <2>9. CASE IsRunning(f)
    <3>1. W = R \cup {Height(c)}
        BY <2>1, <2>2, <2>4, <2>5, <2>7, <2>8, <2>9
    <3> QED BY <2>6, <2>9, <3>1
  <2>10. CASE ~IsRunning(f)
    <3>1. Height(c) \notin R /\ Height(c) \notin W
        BY <2>3, <2>5, <2>7, <2>8, <2>10
    <3>2. W = R
        BY <2>1, <2>2, <2>4, <2>7, <3>1
    <3> QED BY <2>6, <2>10, <3>2
  <2> QED BY <2>9, <2>10
<1>7. Height(c) \in R <=> IsRunning(Top(c))
    BY <1>1, <1>2 DEF RunSet
<1>8. Cardinality(R \cup {Height(c)})
          = IF Height(c) \in R THEN Cardinality(R) ELSE Cardinality(R) + 1
    BY <1>2, FS_AddElement
<1> QED BY <1>2, <1>5, <1>6, <1>7, <1>8

LEMMA RunningPushed ==
    ASSUME Types, NEW c \in Callers, Busy(c), NEW b, NEW f, Pushed(c, b, f),
           IsRunning(b) <=> IsRunning(Top(c))
    PROVE  Running(c)' = IF IsRunning(f) THEN Running(c) + 1 ELSE Running(c)
<1>1. Height(c) \in Nat \ {0} /\ Top(c) = stack[c][Height(c)]
    BY TopFrame
<1>2. PICK R : R = RunSet(c) /\ IsFiniteSet(R) /\ Running(c) = Cardinality(R)
    BY RunningCounts
<1>3. PICK u : u = stack'[c]
    OBVIOUS
<1>4. Len(u) = Height(c) + 1 /\ u[Height(c)] = b /\ u[Height(c) + 1] = f
      /\ \A i \in 1..(Height(c) - 1) : u[i] = stack[c][i]
    BY <1>3 DEF Pushed
<1>5. Running(c)' = Cardinality({i \in 1..Len(u) : IsRunning(u[i])})
    BY <1>3, RunningNext DEF Pushed, OneChain
<1>6. R \subseteq 1..Height(c)
    BY <1>2 DEF RunSet
<1>7. {i \in 1..Len(u) : IsRunning(u[i])}
          = IF IsRunning(f) THEN R \cup {Height(c) + 1} ELSE R
  <2>1. \A i \in 1..(Height(c) + 1) :
            i = Height(c) + 1 \/ i = Height(c) \/ i \in 1..(Height(c) - 1)
      BY <1>1
  <2>2. ASSUME NEW i \in 1..(Height(c) - 1)
        PROVE  IsRunning(u[i]) <=> i \in R
      BY <1>1, <1>2, <1>4 DEF RunSet
  <2>3. Height(c) \in R <=> IsRunning(u[Height(c)])
      BY <1>1, <1>2, <1>4 DEF RunSet
  <2>4. IsRunning(u[Height(c) + 1]) <=> IsRunning(f)
      BY <1>4
  <2>5. PICK W : W = {i \in 1..Len(u) : IsRunning(u[i])}
      OBVIOUS
  <2>6. /\ W \subseteq 1..(Height(c) + 1)
        /\ \A i \in 1..(Height(c) + 1) : i \in W <=> IsRunning(u[i])
      BY <1>4, <2>5
  <2>7. /\ Height(c) \in 1..(Height(c) + 1) /\ Height(c) + 1 \in 1..(Height(c) + 1)
        /\ Height(c) + 1 \notin R /\ R \subseteq 1..(Height(c) + 1)
        /\ \A i \in 1..(Height(c) - 1) : i \in 1..(Height(c) + 1)
      BY <1>1, <1>6
  <2>8. \A i \in 1..(Height(c) + 1) : i # Height(c) + 1 => (i \in W <=> i \in R)
      BY <2>1, <2>2, <2>3, <2>6, <2>7
  <2>9. CASE IsRunning(f)
    <3>1. W = R \cup {Height(c) + 1}
        BY <2>4, <2>6, <2>7, <2>8, <2>9
    <3> QED BY <2>5, <2>9, <3>1
  <2>10. CASE ~IsRunning(f)
    <3>1. W = R
        BY <2>4, <2>6, <2>7, <2>8, <2>10
    <3> QED BY <2>5, <2>10, <3>1
  <2> QED BY <2>9, <2>10
<1>8. Height(c) + 1 \notin R
    BY <1>1, <1>6
<1>9. Cardinality(R \cup {Height(c) + 1}) = Cardinality(R) + 1
    BY <1>2, <1>8, FS_AddElement
<1> QED BY <1>2, <1>5, <1>7, <1>9

LEMMA RunningPopped ==
    ASSUME Types, NEW c \in Callers, Busy(c), Popped(c)
    PROVE  /\ Running(c)' = IF IsRunning(Top(c)) THEN Running(c) - 1 ELSE Running(c)
           /\ Running(c) \in Nat /\ (IsRunning(Top(c)) => Running(c) > 0)
<1>1. Height(c) \in Nat \ {0} /\ Top(c) = stack[c][Height(c)]
    BY TopFrame
<1>2. PICK R : R = RunSet(c) /\ IsFiniteSet(R) /\ Running(c) = Cardinality(R)
               /\ Cardinality(R) \in Nat
    BY RunningCounts
<1>3. PICK u : u = stack'[c]
    OBVIOUS
<1>4. Len(u) = Height(c) - 1
      /\ \A i \in 1..(Height(c) - 1) : IsRunning(u[i]) <=> IsRunning(stack[c][i])
  <2>1. Len(u) = Height(c) - 1
        /\ \A i \in 1..(Height(c) - 2) : u[i] = stack[c][i]
      BY <1>3 DEF Popped
  <2>2. Height(c) > 1 => (IsRunning(u[Height(c) - 1])
                             <=> IsRunning(stack[c][Height(c) - 1]))
      BY <1>3 DEF Popped, IsRunning
  <2>3. \A i \in 1..(Height(c) - 1) :
            (i = Height(c) - 1 /\ Height(c) > 1) \/ i \in 1..(Height(c) - 2)
      BY <1>1
  <2> QED BY <2>1, <2>2, <2>3
<1>5. Running(c)' = Cardinality({i \in 1..Len(u) : IsRunning(u[i])})
    BY <1>3, RunningNext DEF Popped, OneChain
<1>6. R \subseteq 1..Height(c)
    BY <1>2 DEF RunSet
<1>7. {i \in 1..Len(u) : IsRunning(u[i])} = R \ {Height(c)}
  <2>1. ASSUME NEW i \in 1..(Height(c) - 1)
        PROVE  IsRunning(u[i]) <=> i \in R
      BY <1>1, <1>2, <1>4 DEF RunSet
  <2>2. \A i \in R : i # Height(c) => i \in 1..(Height(c) - 1)
      BY <1>1, <1>6
  <2>3. \A i \in 1..(Height(c) - 1) : i # Height(c)
      BY <1>1
  <2> QED BY <1>4, <2>1, <2>2, <2>3
<1>8. Height(c) \in R <=> IsRunning(Top(c))
    BY <1>1, <1>2 DEF RunSet
<1>9. Cardinality(R \ {Height(c)})
          = IF Height(c) \in R THEN Cardinality(R) - 1 ELSE Cardinality(R)
    BY <1>2, FS_RemoveElement
<1>10. Height(c) \in R => Cardinality(R) > 0
    BY <1>2, FS_EmptySet
<1> QED BY <1>2, <1>5, <1>7, <1>8, <1>9, <1>10

\* A call that is the first of its chain runs no effect.
LEMMA NoneRunning ==
    ASSUME Types, ChainsOK, NEW c \in Callers, Height(c) <= 1
    PROVE  Running(c) = 0
<1>1. \A i \in 1..Height(c) : ~IsRunning(stack[c][i])
  <2> SUFFICES ASSUME NEW i \in 1..Height(c) PROVE ~IsRunning(stack[c][i])
      OBVIOUS
  <2>1. PICK s \in Seq(Frames) : s = stack[c] /\ Len(s) \in Nat
      BY LenProperties DEF Types
  <2>2. i = 1 /\ s # <<>>
      BY <2>1 DEF Height
  <2>3. s[1].kind \in Calling
      BY <2>1, <2>2 DEF ChainsOK, Chain
  <2> QED BY <2>1, <2>2, <2>3 DEF IsRunning, Calling
<1>2. RunSet(c) = {}
    BY <1>1 DEF RunSet
<1> QED BY <1>2, RunningCounts, FS_EmptySet

\* A call above another frame, outside hooks, is above a running effect.
LEMMA SomeRunning ==
    ASSUME Types, ChainsOK, NEW c \in Callers, Height(c) > 1,
           Top(c).kind = "transition", stack[c][Height(c) - 1].pc \notin {"asked", "hooked"}
    PROVE  Running(c) > 0
<1>1. PICK s \in Seq(Frames) : s = stack[c] /\ Len(s) \in Nat
    BY LenProperties DEF Types
<1>2. Busy(c)
    BY <1>1 DEF Busy, Height
<1>3. Height(c) - 1 \in 1..(Len(s) - 1) /\ Height(c) - 1 + 1 = Height(c)
      /\ Height(c) - 1 \in 1..Height(c)
    BY <1>1 DEF Height
<1>4. Chain(s)
    BY <1>1 DEF ChainsOK
<1>5. Follows(s[Height(c) - 1], s[Height(c)]) /\ FrameOK(s[Height(c) - 1])
    BY <1>1, <1>3, <1>4 DEF Chain
<1>6. s[Height(c)] = Top(c)
    BY <1>1, <1>2, TopFrame
<1>7. IsRunning(s[Height(c) - 1])
    BY <1>1, <1>5, <1>6 DEF Follows, FrameOK, IsRunning
<1>8. RunSet(c) # {}
    BY <1>1, <1>3, <1>7 DEF RunSet
<1>9. Cardinality(RunSet(c)) # 0
    BY <1>8, RunningCounts, FS_EmptySet
<1> QED BY <1>9, RunningCounts

-----------------------------------------------------------------------------
(* Chains that run alone.                                                  *)

\* No other chain is past its commit.
Sole(c) == \A d \in Callers \ {c} : ~Deep(d)

LEMMA SoleDepth ==
    ASSUME Types, ChainsOK, Alone, NEW c \in Callers
    PROVE  /\ Deep(c) => Sole(c)
           /\ Sole(c) => depth = Running(c)
           /\ ~Deep(c) => Running(c) = 0
<1>1. Deep(c) => Sole(c)
    BY DEF Alone, Sole
<1>2. ASSUME ~Deep(c) PROVE Running(c) = 0
  <2>1. PICK s \in Seq(Frames) : s = stack[c] /\ Len(s) \in Nat
      BY LenProperties DEF Types
  <2>2. s # <<>> => ~(Len(s) > 1)
      BY <1>2, <2>1 DEF Deep, Busy
  <2>3. Len(s) <= 1
      BY <2>1, <2>2, EmptySeq
  <2> QED BY <2>1, <2>3, NoneRunning DEF Height
<1>3. ASSUME Sole(c) PROVE depth = Running(c)
  <2>1. CASE Deep(c)
      BY <2>1 DEF Alone
  <2>2. CASE ~Deep(c)
    <3>1. \A d \in Callers : ~Deep(d)
        BY <1>3, <2>2 DEF Sole
    <3> QED BY <1>2, <2>2, <3>1 DEF Alone
  <2> QED BY <2>1, <2>2
<1> QED BY <1>1, <1>2, <1>3

\* The frames that wait stay settled, whatever is committed above them.
LEMMA LowerFrames ==
    ASSUME Types, ChainsOK, Alone, NEW c \in Callers, Busy(c),
           \/ row' = row /\ revision' = revision
           \/ revision' = revision + 1
           \/ Height(c) = 1
    PROVE  \A i \in 1..(Height(c) - 1) : \A f :
               f.pc = stack[c][i].pc /\ f.ver = stack[c][i].ver
                   /\ f.base = stack[c][i].base
               => Settled(f)'
<1> SUFFICES ASSUME NEW i \in 1..(Height(c) - 1), NEW f, f.pc = stack[c][i].pc,
                    f.ver = stack[c][i].ver, f.base = stack[c][i].base
             PROVE  Settled(f)'
    OBVIOUS
<1>1. Height(c) \in Nat \ {0} /\ \A j \in 1..Height(c) : stack[c][j] \in Frames
    BY TopFrame
<1>2. i \in 1..Height(c) /\ Height(c) # 1
    BY <1>1
<1>3. PICK g \in Frames : g = stack[c][i]
    BY <1>1, <1>2
<1>4. Settled(g)
    BY <1>2, <1>3 DEF Alone, Height
<1>5. g.pc \in {"effects", "run"}
  <2>1. Follows(g, stack[c][i + 1])
      BY <1>3 DEF ChainsOK, Chain, Height
  <2> QED BY <1>4, <2>1 DEF Follows, Settled
<1>6. g.base \in Nat /\ revision \in Nat
    BY DEF Frames, Types
<1>7. f.pc = g.pc /\ f.ver = g.ver /\ f.base = g.base
    BY <1>3
<1>8. CASE f.pc = "run"
    BY <1>8 DEF Settled
<1>9. CASE f.pc = "effects"
  <2>1. f.base <= revision /\ (f.ver = row \/ f.base < revision)
      BY <1>4, <1>7, <1>9 DEF Settled
  <2>2. f.base <= revision' /\ (f.ver = row' \/ f.base < revision')
      BY <1>2, <1>6, <1>7, <2>1
  <2> QED BY <1>9, <2>2 DEF Settled
<1> QED BY <1>5, <1>7, <1>8, <1>9

LEMMA AloneStep ==
    ASSUME Types, ChainsOK, Alone, Types', ChainsOK', NEW c \in Callers, OneChain(c),
           Deep(c)' => Sole(c),
           depth = Running(c) => depth' = Running(c)',
           ~Sole(c) => row' = row /\ revision' = revision /\ depth' = depth,
           (\A i \in 1..Len(stack[c]) : Settled(stack[c][i]))'
    PROVE  Alone'
<1>1. ASSUME NEW d \in Callers, NEW e \in Callers, Deep(d)', Deep(e)'
      PROVE  d = e
  <2>1. CASE d = c \/ e = c
      BY <1>1, <2>1, OtherCallers DEF Sole
  <2>2. CASE d # c /\ e # c
      BY <1>1, <2>2, OtherCallers DEF Alone
  <2> QED BY <2>1, <2>2
<1>2. ASSUME NEW d \in Callers, Deep(d)'
      PROVE  depth' = Running(d)'
  <2>1. CASE d = c
      BY <1>2, <2>1, SoleDepth
  <2>2. CASE d # c
    <3>1. Deep(d) /\ Running(d)' = Running(d) /\ ~Sole(c)
        BY <1>2, <2>2, OtherCallers DEF Sole
    <3> QED BY <3>1 DEF Alone
  <2> QED BY <2>1, <2>2
<1>3. ASSUME \A d \in Callers : ~Deep(d)'
      PROVE  depth' = 0
  <2>1. Sole(c)
      BY <1>3, OtherCallers DEF Sole
  <2>2. depth' = Running(c)'
      BY <2>1, SoleDepth
  <2>3. (~Deep(c) => Running(c) = 0)'
    <3>1. PICK s \in Seq(Frames) : s = stack'[c] /\ Len(s) \in Nat
        BY LenProperties DEF OneChain
    <3>2. ~Deep(c)' /\ (s # <<>> => ~(Len(s) > 1))
        BY <1>3, <3>1 DEF Deep, Busy
    <3>3. (Height(c) <= 1)'
        BY <3>1, <3>2, EmptySeq DEF Height
    <3>4. (Types /\ ChainsOK /\ Height(c) <= 1 => Running(c) = 0)'
        BY NoneRunning, PTL
    <3> QED BY <3>3, <3>4
  <2> QED BY <1>3, <2>2, <2>3
<1>4. ASSUME NEW d \in Callers, d # c
      PROVE  (\A i \in 1..Len(stack[d]) : Settled(stack[d][i]))'
  <2>1. PICK s \in Seq(Frames) : s = stack[d] /\ s = stack'[d] /\ Len(s) \in Nat
      BY <1>4, LenProperties DEF Types, OneChain
  <2>2. ASSUME NEW i \in 1..Len(s), NEW f, f = s[i]
        PROVE  Settled(f)'
    <3>1. CASE Deep(d)
      <4>1. ~Sole(c)
          BY <1>4, <3>1 DEF Sole
      <4>2. Settled(f)
          BY <2>1, <2>2 DEF Alone
      <4> QED BY <4>1, <4>2 DEF Settled
    <3>2. CASE ~Deep(d)
      <4>1. s # <<>>
          BY <2>1, <2>2
      <4>2. Fresh(d) /\ ~(Len(s) > 1)
          BY <2>1, <3>2, <4>1 DEF Deep, Busy
      <4>3. i = Len(s)
          BY <2>1, <2>2, <4>2
      <4>4. f.pc \in {"read", "commit"}
          BY <2>1, <2>2, <4>2, <4>3 DEF Fresh, Top, Last
      <4> QED BY <4>4 DEF Settled
    <3> QED BY <3>1, <3>2
  <2> QED BY <2>1, <2>2 DEF Settled
<1> QED BY <1>1, <1>2, <1>3, <1>4 DEF Alone

-----------------------------------------------------------------------------
(* Steps by what they do to the chain of their caller.                     *)

\* The frame on top goes on.
LEMMA ReplacedStep ==
    ASSUME IInv, NEW c \in Callers, Busy(c), NEW f \in Frames, SetTop(c, f),
           FrameOK(f)', f.kind = Top(c).kind,
           IsRunning(Top(c)) => IsRunning(f),
           throwing' = throwing, calls' = calls, scope' = scope,
           row' \in Nat, revision' \in Nat, depth' \in 0..MaxEffectChainDepth,
           foreign' \in BOOLEAN, foreign => foreign',
           \/ /\ row' = row /\ revision' <= revision
              /\ f.pc \in {"read", "commit"} => Fresh(c)
           \/ /\ row' = row + 1 /\ revision' = revision + 1
              /\ f.pc \notin {"read", "commit"},
           Alone /\ ~foreign' =>
               /\ \/ revision' = revision + 1
                  \/ revision' = revision /\ row' = row
                  \/ Height(c) = 1
               /\ depth' = IF IsRunning(f) /\ ~IsRunning(Top(c)) THEN depth + 1
                           ELSE depth
               /\ \/ ~Fresh(c) \/ Sole(c)
                  \/ /\ f.pc \in {"read", "commit"}
                     /\ row' = row /\ revision' = revision /\ depth' = depth
               /\ Settled(f)'
    PROVE  IInv'
<1> USE DEF IInv
<1>1. /\ Height(c) \in Nat \ {0} /\ Top(c) = stack[c][Height(c)]
      /\ row \in Nat /\ revision \in Nat /\ calls \in Nat
      /\ revision <= row
    BY TopFrame DEF Types, NumbersOK
<1>2. Replaced(c, f) /\ OneChain(c)
    BY SetTopReplaces DEF Replaced
<1>3. Types'
    BY <1>2 DEF Types, OneChain
<1>4. row <= row'
    BY <1>1
<1>5. Busy(c)' /\ Top(c)' = f /\ (Fresh(c)' <=> f.pc \in {"read", "commit"})
    BY <1>2, NewTop DEF Fresh
<1>6. ChainsOK'
  <2>1. Chain(stack[c])'
      BY <1>2, <1>4, ChainReplaced
  <2>2. throwing' \in [Callers -> BOOLEAN]
      BY DEF Types
  <2> QED BY <1>2, <1>4, <1>5, <2>1, <2>2, OtherChains
<1>7. NumbersOK'
  <2>1. row # 0
      BY DEF NumbersOK, BusyCallers
  <2>2. revision' <= row' /\ row' # 0
      BY <1>1, <1>4, <2>1
  <2> QED BY <1>2, <1>4, <2>2, NumbersStep
<1>8. ASSUME ~foreign' PROVE Alone'
  <2>1. Alone
      BY <1>8 DEF AloneOK, Types
  <2>2. Len(stack'[c]) = Height(c)
      BY <1>2 DEF Replaced
  <2>3. Deep(c)' => Sole(c)
    <3>1. Deep(c) => Sole(c)
        BY <2>1, SoleDepth
    <3>2. ~Fresh(c) => Deep(c)
        BY DEF Deep
    <3>3. f.pc \in {"read", "commit"} /\ Deep(c)' => Deep(c)
        BY <1>5, <2>2 DEF Deep, Height
    <3> QED BY <1>8, <2>1, <3>1, <3>2, <3>3
  <2>4. depth = Running(c) => depth' = Running(c)'
      BY <1>2, <1>8, <2>1, RunningReplaced
  <2>5. ~Sole(c) => row' = row /\ revision' = revision /\ depth' = depth
    <3>1. ~Fresh(c) => Sole(c)
        BY <2>1, SoleDepth DEF Deep
    <3> QED BY <1>8, <2>1, <3>1
  <2>6. (\A i \in 1..Len(stack[c]) : Settled(stack[c][i]))'
    <3>1. PICK u : u = stack'[c]
        OBVIOUS
    <3>2. Len(u) = Height(c) /\ u[Height(c)] = f
          /\ \A i \in 1..(Height(c) - 1) : u[i] = stack[c][i]
        BY <1>2, <3>1 DEF Replaced
    <3>3. ASSUME NEW i \in 1..Len(u), NEW g, g = u[i]
          PROVE  Settled(g)'
      <4>1. CASE i = Height(c)
          BY <1>8, <2>1, <3>2, <3>3, <4>1
      <4>2. CASE i # Height(c)
        <5>1. i \in 1..(Height(c) - 1)
            BY <1>1, <3>2, <4>2
        <5>2. g = stack[c][i]
            BY <3>2, <3>3, <5>1
        <5>3. \/ row' = row /\ revision' = revision
              \/ revision' = revision + 1
              \/ Height(c) = 1
            BY <1>8, <2>1
        <5> QED BY <2>1, <5>1, <5>2, <5>3, LowerFrames
      <4> QED BY <4>1, <4>2
    <3> QED BY <3>1, <3>3 DEF Settled
  <2> QED BY <1>2, <1>3, <1>6, <2>1, <2>3, <2>4, <2>5, <2>6, AloneStep
<1> QED BY <1>3, <1>6, <1>7, <1>8 DEF AloneOK

\* A call or an effect is put on top.
LEMMA PushedStep ==
    ASSUME IInv, NEW c \in Callers, Busy(c), NEW b \in Frames, NEW f \in Frames,
           Push(c, b, f), FrameOK(b), FrameOK(f), b.kind = Top(c).kind,
           Follows(b, f), IsRunning(b) <=> IsRunning(Top(c)), foreign' \/ ~Fresh(c),
           throwing' = throwing, scope' = scope, row' = row, revision' = revision,
           depth' \in 0..MaxEffectChainDepth, calls' \in Nat,
           foreign' \in BOOLEAN, foreign => foreign',
           Alone /\ ~foreign' =>
               /\ depth' = IF IsRunning(f) THEN depth + 1 ELSE depth
               /\ Settled(b)' /\ Settled(f)'
    PROVE  IInv'
<1> USE DEF IInv
<1>1. /\ Height(c) \in Nat \ {0} /\ Top(c) = stack[c][Height(c)]
      /\ row \in Nat /\ revision \in Nat /\ calls \in Nat /\ revision <= row
    BY TopFrame DEF Types, NumbersOK
<1>2. Pushed(c, b, f) /\ OneChain(c)
    BY PushPushes DEF Pushed
<1>3. Types'
    BY <1>2 DEF Types, OneChain
<1>4. FrameOK(b)' /\ FrameOK(f)'
    BY DEF FrameOK
<1>5. Busy(c)' /\ Top(c)' = f /\ (Fresh(c)' <=> f.pc \in {"read", "commit"})
    BY <1>2, NewTop DEF Fresh
<1>6. ChainsOK'
  <2>1. row' \in Nat /\ row <= row'
      BY <1>1
  <2>2. Chain(stack[c])'
      BY <1>2, <1>4, <2>1, ChainPushed
  <2>3. throwing' \in [Callers -> BOOLEAN]
      BY DEF Types
  <2> QED BY <1>2, <1>5, <2>1, <2>2, <2>3, OtherChains
<1>7. NumbersOK'
  <2>1. row # 0
      BY DEF NumbersOK, BusyCallers
  <2>2. revision' <= row' /\ row' \in Nat /\ row <= row' /\ row' # 0
      BY <1>1, <2>1
  <2> QED BY <1>2, <2>2, NumbersStep
<1>8. ASSUME ~foreign' PROVE Alone'
  <2>1. Alone
      BY <1>8 DEF AloneOK, Types
  <2>2. Deep(c) /\ Sole(c)
      BY <1>8, <2>1, SoleDepth DEF Deep
  <2>3. depth = Running(c) => depth' = Running(c)'
      BY <1>2, <1>8, <2>1, RunningPushed
  <2>4. (\A i \in 1..Len(stack[c]) : Settled(stack[c][i]))'
    <3>1. PICK u : u = stack'[c]
        OBVIOUS
    <3>2. Len(u) = Height(c) + 1 /\ u[Height(c)] = b /\ u[Height(c) + 1] = f
          /\ \A i \in 1..(Height(c) - 1) : u[i] = stack[c][i]
        BY <1>2, <3>1 DEF Pushed
    <3>3. ASSUME NEW i \in 1..Len(u), NEW g, g = u[i]
          PROVE  Settled(g)'
      <4>1. CASE i = Height(c)
          BY <1>8, <2>1, <3>2, <3>3, <4>1
      <4>2. CASE i = Height(c) + 1
          BY <1>8, <2>1, <3>2, <3>3, <4>2
      <4>3. CASE i # Height(c) /\ i # Height(c) + 1
        <5>1. i \in 1..(Height(c) - 1)
            BY <1>1, <3>2, <4>3
        <5>2. g = stack[c][i]
            BY <3>2, <3>3, <5>1
        <5> QED BY <2>1, <5>1, <5>2, LowerFrames
      <4> QED BY <4>1, <4>2, <4>3
    <3> QED BY <3>1, <3>3 DEF Settled
  <2> QED BY <1>2, <1>3, <1>6, <2>1, <2>2, <2>3, <2>4, AloneStep
<1> QED BY <1>3, <1>6, <1>7, <1>8 DEF AloneOK

\* The frame on top returns, or an error leaves it.
LEMMA PoppedStep ==
    ASSUME IInv, NEW c \in Callers, Busy(c), Pop(c),
           row' = row, revision' = revision, calls' = calls, scope' = scope,
           foreign' = foreign, throwing' \in [Callers -> BOOLEAN],
           \A d \in Callers \ {c} : throwing'[d] = throwing[d],
           Height(c) = 1 => ~throwing'[c],
           depth' = IF IsRunning(Top(c)) THEN Max2(depth - 1, 0) ELSE depth
    PROVE  IInv'
<1> USE DEF IInv
<1>1. /\ Height(c) \in Nat \ {0} /\ Top(c) = stack[c][Height(c)]
      /\ row \in Nat /\ revision \in Nat /\ calls \in Nat /\ revision <= row
      /\ depth \in 0..MaxEffectChainDepth /\ MaxEffectChainDepth \in Nat
      /\ \A i \in 1..Height(c) : stack[c][i] \in Frames
    BY TopFrame, EffectAssumption DEF Types, NumbersOK
<1>2. Popped(c) /\ OneChain(c)
    BY PopPops DEF Popped
<1>3. Types'
  <2>1. depth' \in 0..MaxEffectChainDepth
      BY <1>1 DEF Max2
  <2> QED BY <1>2, <2>1 DEF Types, OneChain
<1>4. /\ Chain(stack[c])'
      /\ Height(c) > 1 => Busy(c)' /\ Top(c)'.pc \in {"asked", "hooked", "effects", "run"}
      /\ Height(c) = 1 => stack'[c] = <<>>
    BY <1>2, ChainPopped
<1>5. Height(c) = 1 \/ Height(c) > 1
    BY <1>1
<1>6. ~Fresh(c)' /\ (Busy(c)' => Height(c) > 1)
    BY <1>4, <1>5 DEF Fresh, Busy
<1>7. ChainsOK'
  <2>1. throwing'[c] => Busy(c)'
      BY <1>4, <1>5
  <2>2. row' \in Nat /\ row <= row'
      BY <1>1
  <2> QED BY <1>2, <1>4, <2>1, <2>2, OtherChains
<1>8. NumbersOK'
  <2>1. row # 0
      BY DEF NumbersOK, BusyCallers
  <2>2. revision' <= row' /\ row' \in Nat /\ row <= row' /\ row' # 0
      BY <1>1, <2>1
  <2> QED BY <1>2, <2>2, NumbersStep
<1>9. ASSUME ~foreign' PROVE Alone'
  <2>1. Alone
      BY <1>9 DEF AloneOK, Types
  <2>2. Deep(c)' => Sole(c)
      BY <1>6, <2>1, SoleDepth DEF Deep, Height
  <2>3. depth = Running(c) => depth' = Running(c)'
    <3>1. /\ Running(c)' = IF IsRunning(Top(c)) THEN Running(c) - 1 ELSE Running(c)
          /\ Running(c) \in Nat /\ (IsRunning(Top(c)) => Running(c) > 0)
        BY <1>2, RunningPopped
    <3> QED BY <3>1 DEF Max2
  <2>4. ~Sole(c) => depth' = depth
    <3>1. ~Sole(c) => Fresh(c)
        BY <2>1, SoleDepth DEF Deep
    <3> QED BY <3>1 DEF Fresh, IsRunning
  <2>5. (\A i \in 1..Len(stack[c]) : Settled(stack[c][i]))'
    <3>1. PICK u : u = stack'[c]
        OBVIOUS
    <3>2. Len(u) = Height(c) - 1
          /\ \A i \in 1..(Height(c) - 2) : u[i] = stack[c][i]
        BY <1>2, <3>1 DEF Popped
    <3>3. Height(c) > 1 => /\ u[Height(c) - 1].pc = stack[c][Height(c) - 1].pc
                           /\ u[Height(c) - 1].ver = stack[c][Height(c) - 1].ver
                           /\ u[Height(c) - 1].base = stack[c][Height(c) - 1].base
        BY <1>2, <3>1 DEF Popped
    <3>4. ASSUME NEW i \in 1..Len(u), NEW g, g = u[i]
          PROVE  Settled(g)'
      <4>1. i \in 1..(Height(c) - 1)
          BY <3>2
      <4>2. \/ i \in 1..(Height(c) - 2)
            \/ i = Height(c) - 1 /\ Height(c) > 1
          BY <1>1, <4>1
      <4>3. /\ g.pc = stack[c][i].pc /\ g.ver = stack[c][i].ver
            /\ g.base = stack[c][i].base
          BY <3>2, <3>3, <3>4, <4>2
      <4> QED BY <2>1, <4>1, <4>3, LowerFrames
    <3> QED BY <3>1, <3>4 DEF Settled
  <2> QED BY <1>2, <1>3, <1>7, <2>1, <2>2, <2>3, <2>4, <2>5, AloneStep
<1> QED BY <1>3, <1>7, <1>8, <1>9 DEF AloneOK

\* A caller makes its first call.
LEMMA BegunStep ==
    ASSUME IInv, NEW c \in Callers, ~Busy(c), NEW f \in Frames,
           stack' = [stack EXCEPT ![c] = <<f>>],
           f.kind \in Calling, FrameOK(f)', Settled(f)',
           throwing' = throwing, scope' = scope, revision' = revision,
           depth' = depth, foreign' = foreign,
           calls' = calls + 1,
           \/ row' = row /\ row # 0 /\ f.pc \in {"read", "commit"}
           \/ row' = row + 1 /\ row = 0 /\ f.pc \notin {"read", "commit"}
    PROVE  IInv'
<1> USE DEF IInv
<1>1. row \in Nat /\ revision \in Nat /\ calls \in Nat /\ revision <= row
    BY DEF Types, NumbersOK
<1>2. Begun(c, f) /\ OneChain(c)
    BY BeginBegins DEF Begun
<1>3. row' \in Nat /\ row <= row' /\ row' # 0
    BY <1>1
<1>4. Types'
    BY <1>1, <1>2, <1>3 DEF Types, OneChain
<1>5. /\ Busy(c)' /\ Top(c)' = f /\ Len(stack'[c]) = 1
      /\ Fresh(c)' <=> f.pc \in {"read", "commit"}
    BY <1>2, NewTop DEF Fresh
<1>6. ChainsOK'
  <2>1. Chain(stack[c])'
      BY <1>2, ChainBegun
  <2>2. throwing' \in [Callers -> BOOLEAN]
      BY DEF Types
  <2> QED BY <1>2, <1>3, <1>5, <2>1, <2>2, OtherChains
<1>7. NumbersOK'
  <2>1. revision' <= row'
      BY <1>1, <1>3
  <2> QED BY <1>2, <1>3, <2>1, NumbersStep
<1>8. ASSUME ~foreign' PROVE Alone'
  <2>1. Alone
      BY <1>8 DEF AloneOK, Types
  <2>2. row = 0 => Sole(c)
      BY DEF NumbersOK, BusyCallers, Sole, Deep
  <2>3. Deep(c)' => Sole(c)
    <3>1. Deep(c)' => f.pc \notin {"read", "commit"}
        BY ONLY <1>5 DEF Deep
    <3> QED BY <2>2, <3>1
  <2>4. depth = Running(c) => depth' = Running(c)'
    <3>1. Running(c) = 0
        BY <2>1, SoleDepth DEF Deep
    <3>2. (Types /\ ChainsOK /\ Height(c) <= 1 => Running(c) = 0)'
        BY NoneRunning, PTL
    <3>3. (Height(c) <= 1)'
        BY ONLY <1>5 DEF Height
    <3>4. Running(c)' = 0
        BY <1>4, <1>6, <3>2, <3>3
    <3> QED BY <3>1, <3>4
  <2>5. (\A i \in 1..Len(stack[c]) : Settled(stack[c][i]))'
    <3>1. PICK u : u = stack'[c]
        OBVIOUS
    <3>2. \A i \in 1..Len(u) : u[i] = f
        BY <1>2, <1>5, <3>1 DEF Begun
    <3> QED BY <3>1, <3>2 DEF Settled
  <2> QED BY <1>2, <1>4, <1>6, <2>1, <2>2, <2>3, <2>4, <2>5, AloneStep
<1> QED BY <1>4, <1>6, <1>7, <1>8 DEF AloneOK

\* An error is thrown; it leaves no frame yet.
LEMMA ThrownStep ==
    ASSUME IInv, NEW c \in Callers, Busy(c), Throw(c), stack' = stack,
           UNCHANGED <<row, depth, revision, calls, scope, foreign>>
    PROVE  IInv'
<1> USE DEF IInv
<1>1. throwing' \in [Callers -> BOOLEAN]
      /\ \A d \in Callers \ {c} : throwing'[d] = throwing[d]
    BY DEF Throw, Types
<1>2. Types'
    BY <1>1 DEF Types
<1>3. ChainsOK'
    BY <1>1 DEF ChainsOK, Chain, FrameOK, Busy
<1>4. NumbersOK'
    BY DEF NumbersOK, BusyCallers, Busy
<1>5. AloneOK'
    BY DEF AloneOK, Alone, Deep, Fresh, Busy, Top, Running, Settled
<1> QED BY <1>2, <1>3, <1>4, <1>5

-----------------------------------------------------------------------------
(* The actions, one by one.                                                *)

LEMMA AtTop ==
    ASSUME IInv, NEW c \in Callers, Busy(c)
    PROVE  /\ Top(c) \in Frames /\ FrameOK(Top(c)) /\ (Alone => Settled(Top(c)))
           /\ row \in Nat /\ revision \in Nat /\ calls \in Nat /\ scope.calls \in Nat
           /\ scope.effects \in Nat /\ depth \in 0..MaxEffectChainDepth
           /\ MaxEffectChainDepth \in Nat /\ foreign \in BOOLEAN
           /\ revision <= row /\ row # 0
<1> USE DEF IInv
<1>1. Height(c) \in Nat \ {0} /\ Top(c) = stack[c][Height(c)] /\ Top(c) \in Frames
    BY TopFrame
<1>2. Height(c) \in 1..Len(stack[c])
    BY <1>1 DEF Height
<1>3. FrameOK(Top(c)) /\ (Alone => Settled(Top(c)))
    BY <1>1, <1>2 DEF ChainsOK, Chain, Alone
<1>4. row # 0
    BY DEF NumbersOK, BusyCallers
<1> QED BY <1>1, <1>3, <1>4, EffectAssumption DEF Types, NumbersOK

LEMMA ReadSnapshotStep ==
    ASSUME IInv, NEW c \in Callers, ReadSnapshot(c)
    PROVE  IInv'
<1>1. Busy(c) /\ Top(c).kind = "transition" /\ Top(c).pc = "read"
    BY DEF ReadSnapshot, At
<1>2. PICK t \in Frames : t = Top(c) /\ FrameOK(t) /\ row \in Nat
    BY <1>1, AtTop
<1>3. PICK f : f = [t EXCEPT !.ver = row, !.pc = "commit"]
    OBVIOUS
<1>4. /\ f \in Frames /\ f.kind = "transition" /\ f.pc = "commit" /\ f.ver = row
      /\ f.nested = t.nested
    BY <1>1, <1>2, <1>3 DEF Frames, Labels
<1>5. SetTop(c, f)
    BY <1>2, <1>3 DEF ReadSnapshot
<1>6. UNCHANGED <<row, depth, revision, throwing, calls, scope, foreign>>
    BY DEF ReadSnapshot
<1>7. FrameOK(f)' /\ Settled(f)'
    BY <1>2, <1>4, <1>6 DEF FrameOK, Settled
<1>8. Fresh(c) /\ ~IsRunning(Top(c)) /\ ~IsRunning(f)
    BY <1>1, <1>4 DEF Fresh, IsRunning
<1> QED BY <1>1, <1>2, <1>4, <1>5, <1>6, <1>7, <1>8, AtTop, ReplacedStep

LEMMA CommitStepStep ==
    ASSUME IInv, NEW c \in Callers, CommitStep(c)
    PROVE  IInv'
<1>1. Busy(c) /\ Top(c).kind = "transition" /\ Top(c).pc \in {"commit", "asked"}
    BY DEF CommitStep, At
<1>2. CASE Top(c).ver = row
  <2>1. PICK t \in Frames : t = Top(c) /\ FrameOK(t) /\ row \in Nat
      BY <1>1, AtTop
  <2>2. PICK f : f = [t EXCEPT !.ver = row + 1, !.pc = "hooks"]
      OBVIOUS
  <2>3. /\ f \in Frames /\ f.kind = "transition" /\ f.pc = "hooks" /\ f.ver = row + 1
        /\ f.nested = t.nested /\ t.nested \in Nat
    <3>1. PICK n \in Nat : n = row + 1
        BY <2>1
    <3>2. f = [t EXCEPT !.ver = n, !.pc = "hooks"]
        BY <2>2, <3>1
    <3>3. t.kind = "transition"
        BY <1>1, <2>1
    <3>4. /\ f \in Frames /\ f.kind = "transition" /\ f.pc = "hooks" /\ f.ver = n
          /\ f.nested = t.nested /\ t.nested \in Nat
        BY <3>2, <3>3 DEF Frames, Labels
    <3> QED BY <3>1, <3>4
  <2>4. /\ SetTop(c, f) /\ row' = row + 1 /\ revision' = revision + 1
        /\ foreign' = (foreign \/ \E d \in Callers \ {c} : Busy(d))
        /\ UNCHANGED <<depth, throwing, calls, scope>>
      BY <1>2, <2>1, <2>2 DEF CommitStep
  <2>5. FrameOK(f)' /\ Settled(f)'
      BY <2>1, <2>3, <2>4 DEF FrameOK, Settled
  <2>6. ~IsRunning(Top(c)) /\ ~IsRunning(f)
      BY <1>1, <2>3 DEF IsRunning
  <2>7. ~foreign' => Sole(c)
      BY <2>4 DEF Sole, Deep
  <2>8. foreign' \in BOOLEAN /\ (foreign => foreign')
      BY <2>4
  <2> QED BY <1>1, <2>3, <2>4, <2>5, <2>6, <2>7, <2>8, AtTop, ReplacedStep
<1>3. CASE Top(c).ver # row
  <2>1. Throw(c) /\ stack' = stack
        /\ UNCHANGED <<row, depth, revision, calls, scope, foreign>>
      BY <1>3 DEF CommitStep
  <2> QED BY <1>1, <2>1, ThrownStep
<1> QED BY <1>2, <1>3

LEMMA BeginEffectsStep ==
    ASSUME IInv, NEW c \in Callers, BeginEffects(c)
    PROVE  IInv'
<1>1. Busy(c) /\ Top(c).kind \in Calling /\ Top(c).pc \in {"hooks", "hooked"}
    BY DEF BeginEffects, At
<1>2. PICK t \in Frames : /\ t = Top(c) /\ FrameOK(t) /\ (Alone => Settled(t))
                          /\ revision \in Nat /\ row \in Nat /\ scope.effects \in Nat
    BY <1>1, AtTop
<1>3. PICK n \in 0..scope.effects :
          SetTop(c, [Top(c) EXCEPT !.pc = "effects", !.base = revision, !.left = n])
    BY DEF BeginEffects
<1>4. PICK f : f = [t EXCEPT !.pc = "effects", !.base = revision, !.left = n]
    OBVIOUS
<1>5. /\ f \in Frames /\ f.kind = t.kind /\ f.pc = "effects" /\ f.base = revision
      /\ f.ver = t.ver /\ f.nested = t.nested
  <2>1. n \in Nat /\ revision \in Nat
      BY <1>2
  <2> QED BY <2>1, <1>4 DEF Frames, Labels
<1>6. SetTop(c, f)
    BY <1>2, <1>3, <1>4
<1>7. UNCHANGED <<row, depth, revision, throwing, calls, scope, foreign>>
    BY DEF BeginEffects
<1>8. FrameOK(f)' /\ (Alone => Settled(f)')
  <2>1. FrameOK(f)'
      BY <1>1, <1>2, <1>5, <1>7 DEF FrameOK, Calling
  <2>2. ASSUME Alone PROVE f.ver = row
      BY <1>1, <1>2, <1>5, <2>2 DEF Settled
  <2> QED BY <1>2, <1>5, <1>7, <2>1, <2>2 DEF Settled
<1>9. ~Fresh(c) /\ ~IsRunning(Top(c)) /\ ~IsRunning(f)
    BY <1>1, <1>2, <1>5 DEF Fresh, IsRunning, Calling
<1> QED BY <1>1, <1>2, <1>5, <1>6, <1>7, <1>8, <1>9, AtTop, ReplacedStep

LEMMA RefreshStep ==
    ASSUME IInv, NEW c \in Callers, Refresh(c)
    PROVE  IInv'
<1>1. Busy(c) /\ Top(c).kind = "transition" /\ Top(c).pc = "refresh"
    BY DEF Refresh, At
<1>2. PICK t \in Frames : t = Top(c) /\ FrameOK(t) /\ row \in Nat
    BY <1>1, AtTop
<1>3. PICK f : f = [t EXCEPT !.ver = row, !.pc = "done"]
    OBVIOUS
<1>4. /\ f \in Frames /\ f.kind = "transition" /\ f.pc = "done" /\ f.ver = row
      /\ f.nested = t.nested
    BY <1>1, <1>2, <1>3 DEF Frames, Labels
<1>5. SetTop(c, f)
    BY <1>2, <1>3 DEF Refresh
<1>6. UNCHANGED <<row, depth, revision, throwing, calls, scope, foreign>>
    BY DEF Refresh
<1>7. FrameOK(f)' /\ Settled(f)'
    BY <1>2, <1>4, <1>6 DEF FrameOK, Settled
<1>8. ~Fresh(c) /\ ~IsRunning(Top(c)) /\ ~IsRunning(f)
    BY <1>1, <1>4 DEF Fresh, IsRunning
<1> QED BY <1>1, <1>2, <1>4, <1>5, <1>6, <1>7, <1>8, AtTop, ReplacedStep

LEMMA LatestReadStep ==
    ASSUME IInv, NEW c \in Callers, LatestRead(c)
    PROVE  IInv'
<1>1. Busy(c) /\ Top(c).kind = "effect" /\ Top(c).pc = "await"
    BY DEF LatestRead, At
<1>2. PICK t \in Frames : /\ t = Top(c) /\ FrameOK(t) /\ (Alone => Settled(t))
                          /\ row \in Nat /\ MaxEffectChainDepth \in Nat
    BY <1>1, AtTop
<1>3. PICK f : f = [t EXCEPT !.ver = row, !.pc = "run"]
    OBVIOUS
<1>4. /\ f \in Frames /\ f.kind = "effect" /\ f.pc = "run" /\ f.ver = row
      /\ f.nested = t.nested /\ f.next = t.next /\ t.next \in Nat
    BY <1>1, <1>2, <1>3 DEF Frames, Labels
<1>5. SetTop(c, f) /\ depth' = t.next
    BY <1>2, <1>3 DEF LatestRead
<1>6. UNCHANGED <<row, revision, throwing, calls, scope, foreign>>
    BY DEF LatestRead
<1>7. FrameOK(f)' /\ Settled(f)'
    BY <1>1, <1>2, <1>4, <1>6 DEF FrameOK, Settled
<1>8. ~Fresh(c) /\ ~IsRunning(Top(c)) /\ IsRunning(f)
    BY <1>1, <1>4 DEF Fresh, IsRunning
<1>9. depth' \in 0..MaxEffectChainDepth /\ (Alone => depth' = depth + 1)
    BY <1>1, <1>2, <1>4, <1>5 DEF FrameOK, Settled
<1> QED BY <1>1, <1>2, <1>4, <1>5, <1>6, <1>7, <1>8, <1>9, AtTop, ReplacedStep

\* The revision is forgotten at the end of the first call of the chain only.
LEMMA CompareRevisionStep ==
    ASSUME IInv, NEW c \in Callers, CompareRevision(c)
    PROVE  IInv'
<1>1. Busy(c) /\ Top(c).kind = "transition" /\ Top(c).pc = "effects"
    BY DEF CompareRevision, At
<1>2. PICK t \in Frames : /\ t = Top(c) /\ FrameOK(t) /\ (Alone => Settled(t))
                          /\ row \in Nat /\ revision \in Nat /\ t.base \in Nat
    BY <1>1, AtTop DEF Frames
<1>3. PICK f : f = [t EXCEPT !.pc = IF revision = t.base THEN "done" ELSE "refresh"]
    OBVIOUS
<1>4. /\ f \in Frames /\ f.kind = "transition" /\ f.pc \in {"done", "refresh"}
      /\ f.ver = t.ver /\ f.nested = t.nested
      /\ f.pc = "done" => revision = t.base
    BY <1>1, <1>2, <1>3 DEF Frames, Labels
<1>5. SetTop(c, f) /\ revision' = IF depth = 0 THEN 0 ELSE revision
    BY <1>2, <1>3 DEF CompareRevision, CleanUpRevision
<1>6. UNCHANGED <<row, depth, throwing, calls, scope, foreign>>
    BY DEF CompareRevision
<1>7. FrameOK(f)' /\ (Alone => Settled(f)')
  <2>1. FrameOK(f)'
      BY <1>1, <1>2, <1>4, <1>6 DEF FrameOK
  <2>2. ASSUME Alone, f.pc = "done" PROVE f.ver >= f.nested
    <3>1. t.ver = row
        BY <1>1, <1>2, <1>4, <2>2 DEF Settled
    <3> QED BY <1>2, <1>4, <3>1 DEF FrameOK
  <2> QED BY <1>4, <2>1, <2>2 DEF Settled
<1>8. ~Fresh(c) /\ ~IsRunning(Top(c)) /\ ~IsRunning(f)
    BY <1>1, <1>4 DEF Fresh, IsRunning
<1>9. ASSUME Alone, depth = 0 PROVE Height(c) = 1
  <2>1. Types /\ ChainsOK
      BY DEF IInv
  <2>2. Height(c) \in Nat \ {0}
      BY <1>1, <2>1, TopFrame
  <2>3. Running(c) = 0
      BY <1>8, <1>9, <2>1, SoleDepth, <1>1 DEF Deep
  <2>4. ASSUME Height(c) > 1 PROVE FALSE
    <3>1. Height(c) - 1 \in 1..Len(stack[c])
        BY <2>2, <2>4 DEF Height
    <3>2. stack[c][Height(c) - 1].pc \notin {"asked", "hooked"}
        BY <1>9, <3>1 DEF Alone, Settled
    <3>3. Running(c) > 0
        BY <1>1, <2>1, <2>4, <3>2, SomeRunning
    <3> QED BY <2>3, <3>3
  <2> QED BY <2>2, <2>4
<1>10. revision' \in Nat /\ revision' <= revision
    BY <1>2, <1>5
<1> QED BY <1>1, <1>2, <1>4, <1>5, <1>6, <1>7, <1>8, <1>9, <1>10, AtTop, ReplacedStep

LEMMA NewCallFrame ==
    ASSUME row \in Nat
    PROVE  \E f \in Frames :
               /\ f = Call("transition", "read", 0) /\ FrameOK(f) /\ Settled(f)'
               /\ f.kind = "transition" /\ f.pc = "read" /\ ~IsRunning(f)
<1>1. PICK f : f = Call("transition", "read", 0)
    OBVIOUS
<1>2. /\ f \in Frames /\ f.kind = "transition" /\ f.pc = "read" /\ f.ver = 0
      /\ f.nested = 0
    BY <1>1 DEF Call, Frames, Labels
<1> QED BY <1>1, <1>2 DEF FrameOK, Settled, IsRunning

LEMMA HookCallsStep ==
    ASSUME IInv, NEW c \in Callers, HookCalls(c)
    PROVE  IInv'
<1>1. Busy(c) /\ Top(c).kind \in Calling /\ Top(c).pc = "hooks"
    BY DEF HookCalls, At
<1>2. PICK t \in Frames : t = Top(c) /\ FrameOK(t)
    BY <1>1, AtTop
<1>3. PICK b : b = [t EXCEPT !.pc = "hooked"]
    OBVIOUS
<1>4. /\ b \in Frames /\ b.kind = t.kind /\ b.pc = "hooked" /\ b.ver = t.ver
      /\ b.nested = t.nested
    BY <1>3 DEF Frames, Labels
<1>5. PICK f \in Frames :
          /\ f = Call("transition", "read", 0) /\ FrameOK(f)
          /\ f.kind = "transition" /\ f.pc = "read" /\ ~IsRunning(f)
    BY <1>1, AtTop, NewCallFrame
<1>6. Push(c, b, f)
    BY <1>2, <1>3, <1>5 DEF HookCalls
<1>7. /\ calls' = calls + 1 /\ foreign' = TRUE
      /\ UNCHANGED <<row, depth, revision, throwing, scope>>
    BY DEF HookCalls, NewCall
<1>8. FrameOK(b) /\ Follows(b, f)
    BY <1>1, <1>2, <1>4, <1>5 DEF FrameOK, Follows, Calling
<1>9. ~Fresh(c) /\ ~IsRunning(Top(c)) /\ ~IsRunning(b)
    BY <1>1, <1>4 DEF Fresh, IsRunning
<1>10. calls' \in Nat /\ depth' \in 0..MaxEffectChainDepth
    BY <1>1, <1>7, AtTop
<1> QED BY <1>1, <1>2, <1>4, <1>5, <1>6, <1>7, <1>8, <1>9, <1>10, PushedStep

LEMMA BeforeHookCallsStep ==
    ASSUME IInv, NEW c \in Callers, BeforeHookCalls(c)
    PROVE  IInv'
<1>1. Busy(c) /\ Top(c).kind = "transition" /\ Top(c).pc = "commit"
    BY DEF BeforeHookCalls, At
<1>2. PICK t \in Frames : t = Top(c) /\ FrameOK(t)
    BY <1>1, AtTop
<1>3. PICK b : b = [t EXCEPT !.pc = "asked"]
    OBVIOUS
<1>4. /\ b \in Frames /\ b.kind = t.kind /\ b.pc = "asked" /\ b.ver = t.ver
      /\ b.nested = t.nested
    BY <1>3 DEF Frames, Labels
<1>5. PICK f \in Frames :
          /\ f = Call("transition", "read", 0) /\ FrameOK(f)
          /\ f.kind = "transition" /\ f.pc = "read" /\ ~IsRunning(f)
    BY <1>1, AtTop, NewCallFrame
<1>6. Push(c, b, f)
    BY <1>2, <1>3, <1>5 DEF BeforeHookCalls
<1>7. /\ calls' = calls + 1 /\ foreign' = TRUE
      /\ UNCHANGED <<row, depth, revision, throwing, scope>>
    BY DEF BeforeHookCalls, NewCall
<1>8. FrameOK(b) /\ Follows(b, f)
    BY <1>1, <1>2, <1>4, <1>5 DEF FrameOK, Follows
<1>9. ~IsRunning(Top(c)) /\ ~IsRunning(b)
    BY <1>1, <1>4 DEF IsRunning
<1>10. calls' \in Nat /\ depth' \in 0..MaxEffectChainDepth
    BY <1>1, <1>7, AtTop
<1> QED BY <1>1, <1>2, <1>4, <1>5, <1>6, <1>7, <1>8, <1>9, <1>10, PushedStep

LEMMA RefusalCaughtStep ==
    ASSUME IInv, NEW c \in Callers, RefusalCaught(c)
    PROVE  IInv'
<1>1. Busy(c) /\ Top(c).kind = "effect" /\ Top(c).pc = "run"
    BY DEF RefusalCaught, At
<1>2. PICK t \in Frames : t = Top(c) /\ FrameOK(t) /\ (Alone => Settled(t))
    BY <1>1, AtTop
<1>3. PICK f : f = [t EXCEPT !.left = 0]
    OBVIOUS
<1>4. /\ f \in Frames /\ f.kind = t.kind /\ f.pc = "run" /\ f.ver = t.ver
      /\ f.nested = t.nested /\ f.next = t.next
    BY <1>1, <1>2, <1>3 DEF Frames
<1>5. SetTop(c, f)
    BY <1>2, <1>3 DEF RefusalCaught
<1>6. UNCHANGED <<row, depth, revision, throwing, calls, scope, foreign>>
    BY DEF RefusalCaught
<1>7. FrameOK(f)' /\ Settled(f)'
    BY <1>1, <1>2, <1>4, <1>6 DEF FrameOK, Settled
<1>8. ~Fresh(c) /\ IsRunning(Top(c)) /\ IsRunning(f)
    BY <1>1, <1>2, <1>4 DEF Fresh, IsRunning
<1> QED BY <1>1, <1>2, <1>4, <1>5, <1>6, <1>7, <1>8, AtTop, ReplacedStep

LEMMA EffectCallsStep ==
    ASSUME IInv, NEW c \in Callers, EffectCalls(c)
    PROVE  IInv'
<1>1. Busy(c) /\ Top(c).kind = "effect" /\ Top(c).pc = "run"
    BY DEF EffectCalls, At
<1>2. PICK t \in Frames : t = Top(c) /\ FrameOK(t)
    BY <1>1, AtTop
<1>3. PICK f \in Frames :
          /\ f = Call("transition", "read", 0) /\ FrameOK(f) /\ Settled(f)'
          /\ f.kind = "transition" /\ f.pc = "read" /\ ~IsRunning(f)
    BY <1>1, AtTop, NewCallFrame
<1>4. Push(c, t, f)
    BY <1>2, <1>3 DEF EffectCalls
<1>5. /\ calls' = calls + 1
      /\ UNCHANGED <<row, depth, revision, throwing, scope, foreign>>
    BY DEF EffectCalls, NewCall
<1>6. Follows(t, f) /\ Settled(t)'
    BY <1>1, <1>2, <1>3 DEF Follows, Settled
<1>7. ~Fresh(c)
    BY <1>1 DEF Fresh
<1>8. calls' \in Nat /\ depth' \in 0..MaxEffectChainDepth
      /\ foreign' \in BOOLEAN
    BY <1>1, <1>5, AtTop
<1> QED BY <1>1, <1>2, <1>3, <1>4, <1>5, <1>6, <1>7, <1>8, PushedStep

LEMMA InvokeStep ==
    ASSUME IInv, NEW c \in Callers, Busy(c),
           \/ Top(c).kind \in Calling /\ Top(c).pc = "effects"
           \/ Top(c).kind = "effect" /\ Top(c).pc = "run",
           Top(c).left > 0, InvokeSingleEffect(c),
           UNCHANGED <<row, revision, calls, scope, foreign>>
    PROVE  IInv'
<1>1. PICK t \in Frames : /\ t = Top(c) /\ FrameOK(t) /\ (Alone => Settled(t))
                          /\ t.left \in Nat /\ t.left > 0
                          /\ t.ver \in Nat /\ t.base \in Nat /\ t.pc \in Labels
    BY AtTop DEF Frames
<1>2. PICK b : b = [t EXCEPT !.left = @ - 1]
    OBVIOUS
<1>3. /\ b \in Frames /\ b.kind = t.kind /\ b.pc = t.pc /\ b.ver = t.ver
      /\ b.nested = t.nested /\ b.base = t.base /\ b.next = t.next
  <2>1. PICK n \in Nat : n = t.left - 1
      BY <1>1
  <2>2. b = [t EXCEPT !.left = n]
      BY <1>2, <2>1
  <2> QED BY <2>2 DEF Frames
<1>4. PICK n \in Nat : n = depth + 1
    BY AtTop
<1>5. \/ Throw(c) /\ UNCHANGED <<stack, depth>>
      \/ /\ ~(n > MaxEffectChainDepth)
         /\ Push(c, b, Effect("await", 0, b.base, n))
         /\ UNCHANGED <<depth, throwing>>
      \/ /\ ~(n > MaxEffectChainDepth) /\ revision = b.base
         /\ Push(c, b, Effect("run", b.ver, b.base, n))
         /\ depth' = n /\ UNCHANGED throwing
    BY <1>1, <1>2, <1>4 DEF InvokeSingleEffect
<1>6. /\ row \in Nat /\ MaxEffectChainDepth \in Nat /\ depth \in 0..MaxEffectChainDepth
      /\ calls \in Nat /\ foreign \in BOOLEAN
    BY AtTop
<1>7. FrameOK(b) /\ (Alone /\ depth' \in Nat => Settled(b)')
  <2>1. FrameOK(b)
      BY <1>1, <1>3 DEF FrameOK
  <2>2. b.pc \in {"effects", "run"}
      BY <1>1, <1>3
  <2> QED BY <1>1, <1>3, <2>1, <2>2 DEF Settled
<1>8. ~Fresh(c) /\ (IsRunning(b) <=> IsRunning(Top(c)))
    BY <1>1, <1>3 DEF Fresh, IsRunning
<1>9. \A f : f.kind = "effect" => Follows(b, f)
    BY <1>1, <1>3 DEF Follows
<1>10. CASE Throw(c) /\ UNCHANGED <<stack, depth>>
    BY <1>10, ThrownStep
<1>11. CASE /\ ~(n > MaxEffectChainDepth)
            /\ Push(c, b, Effect("await", 0, b.base, n))
            /\ UNCHANGED <<depth, throwing>>
  <2>1. PICK f : f = Effect("await", 0, b.base, n)
      OBVIOUS
  <2>2. b.base \in Nat
      BY <1>1, <1>3
  <2>3. /\ f \in Frames /\ f.kind = "effect" /\ f.pc = "await" /\ f.ver = 0
        /\ f.nested = 0 /\ f.next = n
      BY <2>1, <2>2 DEF Effect, Frames, Labels
  <2>4. FrameOK(f) /\ Settled(f)' /\ ~IsRunning(f)
      BY <1>4, <1>6, <1>11, <2>3 DEF FrameOK, Settled, IsRunning
  <2>5. Push(c, b, f)
      BY <1>11, <2>1
  <2> QED BY <1>1, <1>3, <1>6, <1>7, <1>8, <1>9, <1>11, <2>3, <2>4, <2>5, PushedStep
<1>12. CASE /\ ~(n > MaxEffectChainDepth) /\ revision = b.base
            /\ Push(c, b, Effect("run", b.ver, b.base, n))
            /\ depth' = n /\ UNCHANGED throwing
  <2>1. PICK f : f = Effect("run", b.ver, b.base, n)
      OBVIOUS
  <2>2. b.base \in Nat /\ b.ver \in Nat
      BY <1>1, <1>3
  <2>3. /\ f \in Frames /\ f.kind = "effect" /\ f.pc = "run" /\ f.ver = b.ver
        /\ f.nested = 0 /\ f.next = n
      BY <2>1, <2>2 DEF Effect, Frames, Labels
  <2>4. n <= MaxEffectChainDepth /\ depth' \in 0..MaxEffectChainDepth
      BY <1>6, <1>12
  <2>5. FrameOK(f) /\ Settled(f)' /\ IsRunning(f)
    <3>1. b.ver <= row
        BY <1>7 DEF FrameOK
    <3> QED BY <1>6, <2>3, <2>4, <3>1 DEF FrameOK, Settled, IsRunning
  <2>6. Push(c, b, f)
      BY <1>12, <2>1
  <2> QED BY <1>1, <1>3, <1>4, <1>6, <1>7, <1>8, <1>9, <1>12, <2>3, <2>4, <2>5, <2>6,
             PushedStep
<1> QED BY <1>5, <1>10, <1>11, <1>12

LEMMA ReturnStep ==
    ASSUME IInv, NEW c \in Callers,
           EffectReturns(c) \/ StartReturns(c) \/ Return(c) \/ Unwind(c)
    PROVE  IInv'
<1>1. throwing \in [Callers -> BOOLEAN] /\ (throwing[c] => Busy(c))
    BY DEF IInv, Types, ChainsOK
<1>2. Busy(c) /\ Pop(c)
    BY <1>1 DEF EffectReturns, StartReturns, Return, Unwind, At
<1>3. UNCHANGED <<row, revision, calls, scope, foreign>>
    BY DEF EffectReturns, StartReturns, Return, Unwind
<1>4. /\ throwing' \in [Callers -> BOOLEAN]
      /\ \A d \in Callers \ {c} : throwing'[d] = throwing[d]
      /\ Height(c) = 1 => ~throwing'[c]
  <2>1. CASE EffectReturns(c) \/ StartReturns(c) \/ Return(c)
    <3>1. throwing' = throwing /\ ~throwing[c]
        BY <2>1 DEF EffectReturns, StartReturns, Return, At
    <3> QED BY <1>1, <3>1
  <2>2. CASE Unwind(c)
    <3>1. CASE Len(stack[c]) = 1
      <4>1. throwing' = [throwing EXCEPT ![c] = FALSE]
          BY <2>2, <3>1 DEF Unwind
      <4> QED BY <1>1, <4>1
    <3>2. CASE Len(stack[c]) # 1
      <4>1. throwing' = throwing \/ \E b \in BOOLEAN : throwing' = [throwing EXCEPT ![c] = b]
          BY <2>2, <3>2 DEF Unwind
      <4> QED BY <1>1, <3>2, <4>1 DEF Height
    <3> QED BY <3>1, <3>2
  <2> QED BY <2>1, <2>2
<1>5. depth' = IF IsRunning(Top(c)) THEN Max2(depth - 1, 0) ELSE depth
  <2>1. CASE EffectReturns(c)
      BY <2>1 DEF EffectReturns, At, IsRunning, ReleaseDepth
  <2>2. CASE StartReturns(c) \/ Return(c)
      BY <2>2 DEF StartReturns, Return, At, IsRunning
  <2>3. CASE Unwind(c)
      BY <2>3 DEF Unwind, IsRunning, ReleaseDepth
  <2> QED BY <2>1, <2>2, <2>3
<1> QED BY <1>2, <1>3, <1>4, <1>5, PoppedStep

LEMMA StartTransactionStep ==
    ASSUME IInv, NEW c \in Callers, StartTransaction(c)
    PROVE  IInv'
<1>1. /\ ~Busy(c) /\ row = 0 /\ row' = 1 /\ calls' = calls + 1
      /\ stack' = [stack EXCEPT ![c] = <<Call("start", "hooks", 1)>>]
      /\ UNCHANGED <<depth, revision, throwing, scope, foreign>>
    BY DEF StartTransaction, NewCall
<1>2. PICK f : f = Call("start", "hooks", 1)
    OBVIOUS
<1>3. /\ f \in Frames /\ f.kind = "start" /\ f.pc = "hooks" /\ f.ver = 1
      /\ f.nested = 0
    BY <1>2 DEF Call, Frames, Labels
<1>4. FrameOK(f)' /\ Settled(f)' /\ f.kind \in Calling
    BY <1>1, <1>3 DEF FrameOK, Settled, Calling
<1>5. stack' = [stack EXCEPT ![c] = <<f>>]
    BY <1>1, <1>2
<1>6. row' = row + 1 /\ f.pc \notin {"read", "commit"}
    BY <1>1, <1>3
<1> QED BY <1>1, <1>3, <1>4, <1>5, <1>6, BegunStep

LEMMA TransitionStep ==
    ASSUME IInv, NEW c \in Callers, Transition(c)
    PROVE  IInv'
<1>1. /\ ~Busy(c) /\ row > 0 /\ row' = row /\ calls' = calls + 1
      /\ stack' = [stack EXCEPT ![c] = <<Call("transition", "read", 0)>>]
      /\ UNCHANGED <<depth, revision, throwing, scope, foreign>>
    BY DEF Transition, NewCall
<1>2. row \in Nat
    BY DEF IInv, Types
<1>3. PICK f \in Frames :
          /\ f = Call("transition", "read", 0) /\ FrameOK(f) /\ Settled(f)'
          /\ f.kind = "transition" /\ f.pc = "read"
    BY <1>2, NewCallFrame
<1>4. FrameOK(f)' /\ f.kind \in Calling
    BY <1>1, <1>3 DEF FrameOK, Calling
<1>5. stack' = [stack EXCEPT ![c] = <<f>>]
    BY <1>1, <1>3
<1>6. row # 0
    BY <1>1, <1>2
<1> QED BY <1>1, <1>3, <1>4, <1>5, <1>6, BegunStep

-----------------------------------------------------------------------------
(* Theorems.                                                               *)

LEMMA InitIInv == Init => IInv
<1> SUFFICES ASSUME Init PROVE IInv
    OBVIOUS
<1>1. stack \in [Callers -> Seq(Frames)] /\ \A c \in Callers : stack[c] = <<>>
  <2>1. <<>> \in Seq(Frames)
      BY EmptySeq
  <2> QED BY <2>1 DEF Init
<1>2. \A c \in Callers : ~Busy(c) /\ ~Fresh(c) /\ ~Deep(c)
    BY <1>1 DEF Busy, Fresh, Deep
<1>3. Types
  <2>1. /\ row \in Nat /\ revision \in Nat /\ calls \in Nat /\ scope \in Scopes
        /\ foreign \in BOOLEAN
      BY DEF Init
  <2>2. depth \in 0..MaxEffectChainDepth
      BY EffectAssumption DEF Init
  <2>3. throwing \in [Callers -> BOOLEAN]
      BY DEF Init
  <2> QED BY <1>1, <2>1, <2>2, <2>3 DEF Types
<1>4. \A c \in Callers : Len(stack[c]) = 0
    BY <1>1
<1>5. ChainsOK
    BY <1>1, <1>4 DEF Init, ChainsOK, Chain
<1>6. NumbersOK
  <2>1. BusyCallers = {}
      BY <1>2 DEF BusyCallers
  <2> QED BY <2>1, FS_EmptySet DEF Init, NumbersOK
<1>7. AloneOK
    BY <1>2, <1>4 DEF Init, AloneOK, Alone
<1> QED BY <1>3, <1>5, <1>6, <1>7 DEF IInv

LEMMA NextIInv == IInv /\ [Next]_vars => IInv'
<1> SUFFICES ASSUME IInv, [Next]_vars PROVE IInv'
    OBVIOUS
<1>1. CASE UNCHANGED vars
  <2>1. UNCHANGED <<row, depth, revision, stack, throwing, calls, scope, foreign>>
      BY <1>1 DEF vars
  <2>2. Types'
      BY <2>1 DEF IInv, Types
  <2>3. ChainsOK'
      BY <2>1 DEF IInv, ChainsOK, Chain, FrameOK, Busy
  <2>4. NumbersOK'
      BY <2>1 DEF IInv, NumbersOK, BusyCallers, Busy
  <2>5. AloneOK'
      BY <2>1 DEF IInv, AloneOK, Alone, Deep, Fresh, Busy, Top, Running, Settled
  <2> QED BY <2>2, <2>3, <2>4, <2>5 DEF IInv
<1>2. ASSUME NEW c \in Callers, HookThrows(c) \/ EffectThrows(c) PROVE IInv'
  <2>1. Busy(c) /\ Throw(c) /\ stack' = stack
        /\ UNCHANGED <<row, depth, revision, calls, scope, foreign>>
      BY <1>2 DEF HookThrows, EffectThrows, At
  <2> QED BY <2>1, ThrownStep
<1>3. ASSUME NEW c \in Callers, NextEffect(c) \/ RunEffect(c) PROVE IInv'
  <2>1. /\ Busy(c) /\ Top(c).left > 0 /\ InvokeSingleEffect(c)
        /\ \/ Top(c).kind \in Calling /\ Top(c).pc = "effects"
           \/ Top(c).kind = "effect" /\ Top(c).pc = "run"
        /\ UNCHANGED <<row, revision, calls, scope, foreign>>
      BY <1>3 DEF NextEffect, RunEffect, At
  <2> QED BY <2>1, InvokeStep
<1> QED
    BY <1>1, <1>2, <1>3, StartTransactionStep, TransitionStep, ReadSnapshotStep,
       CommitStepStep, HookCallsStep, BeginEffectsStep, LatestReadStep,
       BeforeHookCallsStep, RefusalCaughtStep, EffectCallsStep, ReturnStep,
       CompareRevisionStep, RefreshStep DEF Next

\* The inductive invariant of hooks and effects: while calls come from one
\* place, a waiting frame's revision tells it what was committed above it.
THEOREM EffectsInductive == Spec => []IInv
<1>1. IInv /\ [Next]_vars => IInv'
    BY NextIInv
<1> QED BY <1>1, InitIInv, PTL DEF Spec

\* Types are kept: whoever throws, the depth stays within
\* maxEffectChainDepth, and the row has no more versions than calls were made.
THEOREM EffectsTypeCorrect == Spec => []TypeOK
<1>1. IInv => TypeOK
  <2> SUFFICES ASSUME IInv PROVE TypeOK
      OBVIOUS
  <2>1. row \in Nat /\ revision \in 0..row /\ depth \in 0..MaxEffectChainDepth
      BY DEF IInv, Types, NumbersOK
  <2>2. ASSUME NEW c \in Callers, NEW i \in DOMAIN stack[c]
        PROVE  /\ stack[c][i].ver <= row
               /\ stack[c][i].kind = "start" => i = 1
               /\ throwing[c] => Busy(c)
    <3>1. PICK s \in Seq(Frames) : s = stack[c]
        BY DEF IInv, Types
    <3>2. i \in 1..Len(s) /\ Len(s) \in Nat
        BY <3>1, LenProperties
    <3>3. Chain(s) /\ (throwing[c] => Busy(c))
        BY <3>1 DEF IInv, ChainsOK
    <3>4. ASSUME i # 1 PROVE s[i].kind # "start"
      <4>1. i - 1 \in 1..(Len(s) - 1) /\ i - 1 + 1 = i
          BY <3>2, <3>4
      <4>2. Follows(s[i - 1], s[i - 1 + 1])
          BY <3>3, <4>1 DEF Chain
      <4> QED BY <4>1, <4>2 DEF Follows
    <3> QED BY <3>1, <3>2, <3>3, <3>4 DEF Chain, FrameOK
  <2> QED BY <2>1, <2>2 DEF TypeOK
<1> QED BY <1>1, EffectsInductive, PTL

\* effectChainDepthByTx counts the running effects of the only chain, through
\* every throw and return, as long as calls are made one at a time.
THEOREM DepthCounts == Spec => []DepthExact
<1>1. IInv => DepthExact
  <2> SUFFICES ASSUME IInv, ~foreign, NEW c \in Callers, Busy(c),
                      Cardinality({d \in Callers : Busy(d)}) <= 1
               PROVE  depth = Running(c)
      BY DEF DepthExact
  <2>1. Types /\ ChainsOK /\ Alone /\ IsFiniteSet(BusyCallers)
      BY DEF IInv, AloneOK, NumbersOK
  <2>2. ASSUME NEW d \in Callers, d # c, Busy(d) PROVE FALSE
    <3>1. {c, d} \subseteq BusyCallers
        BY <2>2 DEF BusyCallers
    <3>2. IsFiniteSet({c}) /\ Cardinality({c}) = 1
        BY FS_Singleton
    <3>3. /\ IsFiniteSet({c} \cup {d})
          /\ Cardinality({c} \cup {d}) = Cardinality({c}) + 1
        BY <2>2, <3>2, FS_AddElement
    <3>4. {c} \cup {d} \subseteq BusyCallers
        BY <3>1
    <3>5. Cardinality({c} \cup {d}) <= Cardinality(BusyCallers)
          /\ Cardinality(BusyCallers) \in Nat
        BY <2>1, <3>4, FS_Subset, FS_CardinalityType
    <3>6. Cardinality(BusyCallers) <= 1
        BY DEF BusyCallers
    <3> QED BY <3>2, <3>3, <3>5, <3>6
  <2>3. Sole(c)
      BY <2>2 DEF Sole, Deep
  <2> QED BY <2>1, <2>3, SoleDepth
<1> QED BY <1>1, EffectsInductive, PTL

\* transition returns at least what its effects committed: the comparison of
\* the revisions does not miss a nested call.
THEOREM NestedCommitsSeen == Spec => []OuterSeesNested
<1>1. IInv => OuterSeesNested
  <2> SUFFICES ASSUME IInv, ~foreign, NEW c \in Callers, NEW i \in DOMAIN stack[c],
                      stack[c][i].kind = "transition", stack[c][i].pc = "done"
               PROVE  stack[c][i].ver >= stack[c][i].nested
      BY DEF OuterSeesNested
  <2>1. i \in 1..Len(stack[c])
      BY LenProperties DEF IInv, Types
  <2>2. Settled(stack[c][i])
      BY <2>1 DEF IInv, AloneOK, Alone
  <2> QED BY <2>2 DEF Settled
<1> QED BY <1>1, EffectsInductive, PTL

\* What a step puts on top, whatever its fields.
LEMMA TopAfter ==
    ASSUME Types, NEW c \in Callers, Busy(c), NEW f
    PROVE  /\ SetTop(c, f) => Last(stack'[c]) = f
           /\ \A b : Push(c, b, f) => Last(stack'[c]) = f
<1>1. PICK s \in Seq(Frames) : s = stack[c] /\ s # <<>>
    BY TopFrame
<1>2. ASSUME SetTop(c, f) PROVE Last(stack'[c]) = f
  <2>1. PICK S : S = Frames \cup {f}
      OBVIOUS
  <2>2. s \in Seq(S) /\ s # <<>> /\ f \in S
      BY <1>1, <2>1, SeqMonotonic
  <2>3. LET u == Front(s) \o <<f>>
        IN  /\ u \in Seq(S) /\ u # <<>> /\ Len(u) = Len(s) /\ u[Len(s)] = f
            /\ \A i \in 1..(Len(s) - 1) : u[i] = s[i]
      BY ONLY <2>2, LastReplaced
  <2>4. stack'[c] = Front(s) \o <<f>>
      BY <1>1, <1>2 DEF SetTop, Types
  <2> QED BY <2>3, <2>4 DEF Last
<1>3. ASSUME NEW b, Push(c, b, f) PROVE Last(stack'[c]) = f
  <2>1. PICK S : S = Frames \cup {b, f}
      OBVIOUS
  <2>2. s \in Seq(S) /\ s # <<>> /\ b \in S /\ f \in S
      BY <1>1, <2>1, SeqMonotonic
  <2>3. LET u == Front(s) \o <<b, f>>
        IN  /\ u \in Seq(S) /\ u # <<>> /\ Len(u) = Len(s) + 1
            /\ u[Len(s)] = b /\ u[Len(s) + 1] = f
            /\ \A i \in 1..(Len(s) - 1) : u[i] = s[i]
      BY ONLY <2>2, LastPushed
  <2>4. stack'[c] = Front(s) \o <<b, f>>
      BY <1>1, <1>3 DEF Push, Types
  <2> QED BY <2>3, <2>4 DEF Last
<1> QED BY <1>2, <1>3

\* The effects a step starts in the chain of c are handed the row's version.
Handed(c) ==
    Len(stack'[c]) > 0 /\ Last(stack'[c]).kind = "effect"
        /\ Last(stack'[c]).pc = "run" /\ stack[c] # stack'[c]
        /\ (Busy(c) => Top(c).kind # "effect" \/ Top(c).pc = "await")
        /\ Len(stack'[c]) >= Len(stack[c])
        => Last(stack'[c]).ver = row

LEMMA OwnChainOnly ==
    ASSUME Types, NEW c \in Callers,
           \/ StartTransaction(c) \/ Transition(c) \/ ReadSnapshot(c)
           \/ BeforeHookCalls(c) \/ CommitStep(c) \/ HookCalls(c) \/ HookThrows(c)
           \/ BeginEffects(c) \/ NextEffect(c) \/ LatestRead(c) \/ RunEffect(c)
           \/ RefusalCaught(c) \/ EffectCalls(c)
           \/ EffectReturns(c) \/ EffectThrows(c) \/ Unwind(c)
           \/ StartReturns(c) \/ CompareRevision(c) \/ Refresh(c) \/ Return(c)
    PROVE  \A d \in Callers \ {c} : stack'[d] = stack[d]
<1>1. CASE StartTransaction(c) \/ Transition(c)
    BY <1>1 DEF Types, StartTransaction, Transition
<1>2. CASE \/ ReadSnapshot(c) \/ CommitStep(c) \/ HookThrows(c) \/ BeginEffects(c)
           \/ LatestRead(c) \/ RefusalCaught(c) \/ EffectThrows(c)
           \/ CompareRevision(c) \/ Refresh(c)
    BY <1>2 DEF Types, SetTop, ReadSnapshot, CommitStep, HookThrows, BeginEffects,
                LatestRead, RefusalCaught, EffectThrows, CompareRevision, Refresh
<1>3. CASE \/ BeforeHookCalls(c) \/ HookCalls(c) \/ EffectCalls(c)
           \/ NextEffect(c) \/ RunEffect(c)
    BY <1>3 DEF Types, Push, BeforeHookCalls, HookCalls, EffectCalls, NextEffect, RunEffect,
                InvokeSingleEffect
<1>4. CASE EffectReturns(c) \/ Unwind(c) \/ StartReturns(c) \/ Return(c)
    BY <1>4 DEF Types, Pop, EffectReturns, Unwind, StartReturns, Return
<1> QED BY <1>1, <1>2, <1>3, <1>4

LEMMA HandedStep ==
    ASSUME IInv, NEW c \in Callers, ~foreign',
           \/ StartTransaction(c) \/ Transition(c) \/ ReadSnapshot(c)
           \/ BeforeHookCalls(c) \/ CommitStep(c) \/ HookCalls(c) \/ HookThrows(c)
           \/ BeginEffects(c) \/ NextEffect(c) \/ LatestRead(c) \/ RunEffect(c)
           \/ RefusalCaught(c) \/ EffectCalls(c)
           \/ EffectReturns(c) \/ EffectThrows(c) \/ Unwind(c)
           \/ StartReturns(c) \/ CompareRevision(c) \/ Refresh(c) \/ Return(c)
    PROVE  Handed(c)
<1>1. Types
    BY DEF IInv
<1>2. CASE StartTransaction(c) \/ Transition(c)
  <2>1. ASSUME NEW f, stack' = [stack EXCEPT ![c] = <<f>>] PROVE Last(stack'[c]) = f
      BY <1>1, <2>1 DEF Types, Last
  <2>2. Last(stack'[c]) \in {Call("start", "hooks", 1), Call("transition", "read", 0)}
      BY <1>2, <2>1 DEF StartTransaction, Transition
  <2> QED BY <2>2 DEF Call, Handed
<1>3. CASE \/ ReadSnapshot(c) \/ BeginEffects(c) \/ CompareRevision(c) \/ Refresh(c)
           \/ CommitStep(c)
  <2>1. Busy(c) /\ Top(c).kind # "effect"
      BY <1>3 DEF ReadSnapshot, BeginEffects, CompareRevision, Refresh, CommitStep, At,
                  Calling
  <2>2. PICK t \in Frames : t = Top(c)
      BY <2>1, AtTop
  <2>3. \/ stack' = stack
        \/ \E f : SetTop(c, f) /\ f.kind = t.kind
    <3>1. /\ \A v, p : [t EXCEPT !.ver = v, !.pc = p].kind = t.kind
          /\ \A p : [t EXCEPT !.pc = p].kind = t.kind
        BY DEF Frames
    <3>2. CASE ReadSnapshot(c)
        BY <2>2, <3>1, <3>2 DEF ReadSnapshot
    <3>3. CASE BeginEffects(c)
      <4>1. PICK n \in 0..scope.effects : SetTop(c,
                [Top(c) EXCEPT !.pc = "effects", !.base = revision, !.left = n])
          BY <3>3 DEF BeginEffects
      <4>2. PICK f : f = [t EXCEPT !.pc = "effects", !.base = revision, !.left = n]
          OBVIOUS
      <4>3. SetTop(c, f) /\ f.kind = t.kind
          BY <2>2, <4>1, <4>2 DEF Frames
      <4> QED BY <4>3
    <3>4. CASE CompareRevision(c)
        BY <2>2, <3>1, <3>4 DEF CompareRevision
    <3>5. CASE Refresh(c)
        BY <2>2, <3>1, <3>5 DEF Refresh
    <3>6. CASE CommitStep(c)
        BY <2>2, <3>1, <3>6 DEF CommitStep
    <3> QED BY <1>3, <3>2, <3>3, <3>4, <3>5, <3>6
  <2> QED BY <1>1, <2>1, <2>2, <2>3, TopAfter DEF Handed
<1>4. CASE HookThrows(c) \/ EffectThrows(c)
    BY <1>4 DEF HookThrows, EffectThrows, Handed
<1>5. CASE BeforeHookCalls(c) \/ HookCalls(c) \/ EffectCalls(c)
  <2>1. Busy(c) /\ \E b : Push(c, b, Call("transition", "read", 0))
      BY <1>5 DEF BeforeHookCalls, HookCalls, EffectCalls, At
  <2>2. Last(stack'[c]) = Call("transition", "read", 0)
      BY <1>1, <2>1, TopAfter
  <2> QED BY <2>2 DEF Call, Handed
<1>6. CASE LatestRead(c)
  <2>1. Busy(c)
      BY <1>6 DEF LatestRead, At
  <2>2. PICK t \in Frames : t = Top(c)
      BY <2>1, AtTop
  <2>3. Last(stack'[c]) = [t EXCEPT !.ver = row, !.pc = "run"]
      BY <1>1, <1>6, <2>1, <2>2, TopAfter DEF LatestRead
  <2>4. Last(stack'[c]).ver = row
      BY <2>3 DEF Frames
  <2> QED BY <2>4 DEF Handed
<1>7. CASE RunEffect(c) \/ RefusalCaught(c)
    BY <1>7 DEF RunEffect, RefusalCaught, At, Handed
<1>8. CASE NextEffect(c)
  <2>1. Busy(c) /\ Top(c).pc = "effects" /\ InvokeSingleEffect(c) /\ foreign' = foreign
      BY <1>8 DEF NextEffect, At
  <2>2. Alone
      BY <2>1 DEF IInv, AloneOK
  <2>3. PICK t \in Frames : /\ t = Top(c) /\ Settled(t) /\ t.pc = "effects"
                            /\ t.base \in Nat /\ t.left \in Nat
      BY <2>1, <2>2, AtTop DEF Frames
  <2>4. PICK b : b = [t EXCEPT !.left = @ - 1]
      OBVIOUS
  <2>5. b.ver = t.ver /\ b.base = t.base
      BY <2>4 DEF Frames
  <2>6. \/ stack' = stack
        \/ \E n : Push(c, b, Effect("await", 0, b.base, n))
        \/ revision = t.base /\ \E n : Push(c, b, Effect("run", t.ver, b.base, n))
      BY <2>1, <2>3, <2>4, <2>5 DEF InvokeSingleEffect
  <2>7. revision = t.base => t.ver = row
      BY <2>3 DEF Settled
  <2>8. CASE stack' = stack
      BY <2>8 DEF Handed
  <2>9. CASE \E n : Push(c, b, Effect("await", 0, b.base, n))
    <3>1. PICK n : Push(c, b, Effect("await", 0, b.base, n))
        BY <2>9
    <3>2. PICK f : f = Effect("await", 0, b.base, n)
        OBVIOUS
    <3>3. Last(stack'[c]) = f /\ f.pc = "await"
        BY <1>1, <2>1, <3>1, <3>2, TopAfter DEF Effect
    <3> QED BY <3>3 DEF Handed
  <2>10. CASE revision = t.base /\ \E n : Push(c, b, Effect("run", t.ver, b.base, n))
    <3>1. PICK n : Push(c, b, Effect("run", t.ver, b.base, n))
        BY <2>10
    <3>2. PICK f : f = Effect("run", t.ver, b.base, n)
        OBVIOUS
    <3>3. Last(stack'[c]) = f /\ f.ver = t.ver
        BY <1>1, <2>1, <3>1, <3>2, TopAfter DEF Effect
    <3> QED BY <2>7, <2>10, <3>3 DEF Handed
  <2> QED BY <2>6, <2>8, <2>9, <2>10
<1>9. CASE EffectReturns(c) \/ Unwind(c) \/ StartReturns(c) \/ Return(c)
  <2>1. Busy(c) /\ Pop(c)
      BY <1>9 DEF EffectReturns, StartReturns, Return, Unwind, At, IInv, ChainsOK
  <2>2. Height(c) \in Nat /\ Len(stack'[c]) = Height(c) - 1
      BY <1>1, <2>1, TopFrame, PopPops DEF Popped
  <2> QED BY <2>2 DEF Handed, Height
<1> QED BY <1>2, <1>3, <1>4, <1>5, <1>6, <1>7, <1>8, <1>9

\* invokeSingleEffect hands an effect the latest state: the caller's own unless
\* the revision tells of a nested call, and the row's then.
THEOREM EffectsUpToDate == Spec => EffectSeesLatest
<1>1. IInv /\ [Next]_vars => [~foreign' => \A c \in Callers : Handed(c)]_vars
  <2> SUFFICES ASSUME IInv, Next, ~foreign', NEW c \in Callers PROVE Handed(c)
      OBVIOUS
  <2>1. PICK d \in Callers :
           \/ StartTransaction(d) \/ Transition(d) \/ ReadSnapshot(d)
           \/ BeforeHookCalls(d) \/ CommitStep(d) \/ HookCalls(d) \/ HookThrows(d)
           \/ BeginEffects(d) \/ NextEffect(d) \/ LatestRead(d) \/ RunEffect(d)
           \/ RefusalCaught(d) \/ EffectCalls(d)
           \/ EffectReturns(d) \/ EffectThrows(d) \/ Unwind(d)
           \/ StartReturns(d) \/ CompareRevision(d) \/ Refresh(d) \/ Return(d)
      BY DEF Next
  <2>2. CASE d = c
      BY <2>1, <2>2, HandedStep
  <2>3. CASE d # c
    <3>1. stack'[c] = stack[c]
        BY <2>1, <2>3, OwnChainOnly DEF IInv
    <3> QED BY <3>1 DEF Handed
  <2> QED BY <2>2, <2>3
<1> QED BY <1>1, EffectsInductive, PTL DEF Spec, EffectSeesLatest, Handed
=============================================================================
