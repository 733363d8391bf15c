---------------------------- MODULE ScreenProofs -----------------------------
(***************************************************************************)
(* What prints on the screen, for screens of every size.  The kernel log,  *)
(* for a ring of every length and portions of every length: the ring       *)
(* implements LogTail, and the pages of the viewer cover the log without a *)
(* gap and never scroll.  The console, whatever is printed and typed: the  *)
(* screen shows the line that is being typed.                              *)
(***************************************************************************)
EXTENDS Syslog, Console, Recursion

L == SYSLOG_LENGTH
Symbols == Characters \cup {Unwritten}

(* The ring, whatever has been written so far.                             *)
RingOK == /\ buffer \in [Places -> Symbols]
          /\ writePtr \in 0 .. L
          /\ isWrapped \in BOOLEAN

-----------------------------------------------------------------------------
(* The flattened log of a ring b with its end at w, wrapped or not.        *)

StretchOf(b, from, to) == [i \in 1 .. to - from |-> b[from + i - 1]]
FlatOf(b, w, wrapped) == (IF wrapped THEN StretchOf(b, w, L) ELSE <<>>) \o StretchOf(b, 0, w)
FlatLength(w, wrapped) == IF wrapped THEN L ELSE w
FlatPlace(w, wrapped, i) == IF wrapped /\ i <= L - w THEN w + i - 1
                            ELSE IF wrapped THEN i - (L - w) - 1
                            ELSE i - 1

LEMMA FlattenIsFlat ==
    /\ FlattenLogs = FlatOf(buffer, writePtr, isWrapped)
    /\ FlattenLogs' = FlatOf(buffer', writePtr', isWrapped')
BY DEF FlattenLogs, FlatOf, Stretch, StretchOf, L

LEMMA StretchFacts ==
    ASSUME NEW b \in [Places -> Symbols], NEW from \in 0 .. L, NEW to \in from .. L
    PROVE  /\ StretchOf(b, from, to) \in Seq(Symbols)
           /\ Len(StretchOf(b, from, to)) = to - from
           /\ \A i \in 1 .. to - from : StretchOf(b, from, to)[i] = b[from + i - 1]
<1>1. L \in Nat \ {0} /\ to - from \in Nat
  BY SyslogAssumption DEF L
<1>2. \A i \in 1 .. to - from : from + i - 1 \in Places
  BY <1>1 DEF Places, L
<1>3. \A i \in 1 .. to - from : b[from + i - 1] \in Symbols
  BY <1>2
<1>4. PICK n \in Nat : n = to - from
  BY <1>1
<1>5. PICK s : s = StretchOf(b, from, to)
  OBVIOUS
<1>6. s \in [1 .. n -> Symbols] /\ \A i \in 1 .. n : s[i] = b[from + i - 1]
  BY <1>3, <1>4, <1>5 DEF StretchOf
<1>7. s \in Seq(Symbols) /\ Len(s) = n
  BY <1>6
<1> QED
  BY <1>4, <1>5, <1>6, <1>7

LEMMA FlatFacts ==
    ASSUME NEW b \in [Places -> Symbols], NEW w \in 0 .. L, NEW wrapped \in BOOLEAN
    PROVE  /\ FlatOf(b, w, wrapped) \in Seq(Symbols)
           /\ Len(FlatOf(b, w, wrapped)) = FlatLength(w, wrapped)
           /\ \A i \in 1 .. FlatLength(w, wrapped) :
                  FlatOf(b, w, wrapped)[i] = b[FlatPlace(w, wrapped, i)]
<1> DEFINE old == IF wrapped THEN StretchOf(b, w, L) ELSE <<>>
           new == StretchOf(b, 0, w)
<1>1. L \in Nat \ {0}
  BY SyslogAssumption DEF L
<1>2. new \in Seq(Symbols) /\ Len(new) = w /\ \A i \in 1 .. w : new[i] = b[i - 1]
  <2>1. 0 \in 0 .. L /\ w - 0 = w /\ \A i \in 1 .. w : 0 + i - 1 = i - 1
    BY <1>1
  <2>2. /\ new \in Seq(Symbols) /\ Len(new) = w - 0
        /\ \A i \in 1 .. w - 0 : new[i] = b[0 + i - 1]
    BY <1>1, <2>1, StretchFacts
  <2> HIDE DEF new
  <2> QED
    BY <2>1, <2>2
<1>3. /\ old \in Seq(Symbols) /\ Len(old) = IF wrapped THEN L - w ELSE 0
      /\ wrapped => \A i \in 1 .. L - w : old[i] = b[w + i - 1]
  <2>1. L \in w .. L
    BY <1>1
  <2>2. CASE wrapped
    BY <2>1, <2>2, StretchFacts
  <2>3. CASE ~ wrapped
    BY <2>3
  <2> QED
    BY <2>2, <2>3
<1>4. FlatOf(b, w, wrapped) = old \o new
  BY DEF FlatOf
<1> HIDE DEF old, new
<1>5. /\ old \o new \in Seq(Symbols) /\ Len(old \o new) = Len(old) + Len(new)
      /\ \A i \in 1 .. Len(old) + Len(new) : (old \o new)[i] = IF i <= Len(old) THEN old[i] ELSE new[i - Len(old)]
  BY <1>2, <1>3, ConcatProperties
<1>6. Len(old) + Len(new) = FlatLength(w, wrapped)
  BY <1>1, <1>2, <1>3 DEF FlatLength
<1>7. ASSUME NEW i \in 1 .. FlatLength(w, wrapped) PROVE (old \o new)[i] = b[FlatPlace(w, wrapped, i)]
  <2>1. CASE i <= Len(old)
    BY <1>1, <1>3, <1>5, <1>6, <2>1 DEF FlatPlace
  <2>2. CASE i > Len(old)
    <3>1. (old \o new)[i] = new[i - Len(old)] /\ i - Len(old) \in 1 .. w
      BY <1>1, <1>2, <1>3, <1>5, <1>6, <2>2
    <3>2. new[i - Len(old)] = b[i - Len(old) - 1]
      BY <1>2, <3>1
    <3>3. FlatPlace(w, wrapped, i) = i - Len(old) - 1
      BY <1>1, <1>3, <2>2 DEF FlatPlace
    <3> QED
      BY <3>1, <3>2, <3>3
  <2> QED
    BY <1>1, <1>2, <1>3, <1>6, <2>1, <2>2
<1> QED
  BY <1>4, <1>5, <1>6, <1>7

-----------------------------------------------------------------------------
(* Writing.                                                                *)

LEMMA ClampedFacts ==
    ASSUME NEW p \in Seq(Symbols)
    PROVE  /\ Clamped(p) \in Seq(Symbols)
           /\ Len(Clamped(p)) = IF Len(p) > L THEN L ELSE Len(p)
           /\ \A i \in 1 .. Len(Clamped(p)) : Clamped(p)[i] = p[Len(p) - Len(Clamped(p)) + i]
<1>1. L \in Nat \ {0} /\ Len(p) \in Nat
  BY SyslogAssumption DEF L
<1>2. CASE Len(p) > L
  <2>1. Clamped(p) = SubSeq(p, Len(p) - L + 1, Len(p))
    BY <1>2 DEF Clamped, L
  <2>2. \A i \in Len(p) - L + 1 .. Len(p) : p[i] \in Symbols
    BY <1>1, <1>2, ElementOfSeq
  <2>3. Len(p) - L + 1 \in Int /\ Len(p) - (Len(p) - L + 1) + 1 = L /\ Len(p) - L + 1 <= Len(p)
    BY <1>1, <1>2
  <2>4. /\ Clamped(p) \in Seq(Symbols) /\ Len(Clamped(p)) = L
        /\ \A i \in 1 .. L : Clamped(p)[i] = p[Len(p) - L + 1 + i - 1]
    BY <1>1, <2>1, <2>2, <2>3, SubSeqProperties
  <2>5. \A i \in 1 .. L : Len(p) - L + 1 + i - 1 = Len(p) - L + i
    BY <1>1
  <2> QED
    BY <1>2, <2>4, <2>5
<1>3. CASE ~ (Len(p) > L)
  BY <1>1, <1>3 DEF Clamped, L
<1> QED
  BY <1>2, <1>3

LEMMA CopyFacts ==
    ASSUME NEW b \in [Places -> Symbols], NEW p \in 0 .. L, NEW text \in Seq(Symbols)
    PROVE  /\ CopyTo(b, p, text) \in [Places -> Symbols]
           /\ \A q \in Places : CopyTo(b, p, text)[q] =
                  IF p <= q /\ q < p + Len(text) THEN text[q - p + 1] ELSE b[q]
<1>1. L \in Nat \ {0} /\ Len(text) \in Nat /\ DOMAIN text = 1 .. Len(text)
  BY SyslogAssumption DEF L
<1>2. ASSUME NEW q \in Places
      PROVE  /\ q - p + 1 \in DOMAIN text <=> p <= q /\ q < p + Len(text)
             /\ q - p + 1 \in DOMAIN text => text[q - p + 1] \in Symbols
  BY <1>1 DEF Places, L
<1> QED
  BY <1>2 DEF CopyTo

LEMMA PortionType == ASSUME NEW portion \in Portions PROVE portion \in Seq(Symbols)
<1>1. portion \in Seq(Characters) /\ Characters \subseteq Symbols
  BY SyslogAssumption DEF Symbols
<1> QED
  BY <1>1, SeqMonotonic

(* What a write leaves in the ring: the places from w on, as many as there *)
(* are, and the rest of the text from the start.                           *)
LEMMA KernelLogFacts ==
    ASSUME RingOK, NEW portion \in Portions, KernelLog(portion),
           NEW text, text = Clamped(portion), NEW k, k = Len(text)
    PROVE  /\ RingOK'
           /\ writePtr + k <= L =>
                  /\ writePtr' = writePtr + k /\ isWrapped' = isWrapped
                  /\ \A q \in Places : buffer'[q] =
                         IF writePtr <= q /\ q < writePtr + k THEN text[q - writePtr + 1] ELSE buffer[q]
           /\ writePtr + k > L =>
                  /\ writePtr' = writePtr + k - L /\ isWrapped'
                  /\ \A q \in Places : buffer'[q] =
                         IF writePtr <= q THEN text[q - writePtr + 1]
                         ELSE IF q < writePtr + k - L THEN text[L - writePtr + q + 1]
                         ELSE buffer[q]
<1> DEFINE over == writePtr + k - L
           excess == IF over > 0 THEN over ELSE 0
           first == k - excess
           head == SubSeq(text, 1, first)
           tail == SubSeq(text, first + 1, k)
           once == CopyTo(buffer, writePtr, head)
<1>1. /\ buffer' = CopyTo(once, 0, tail)
      /\ writePtr' = IF excess > 0 THEN excess ELSE writePtr + first
      /\ isWrapped' = (isWrapped \/ excess > 0)
  BY DEF KernelLog, L
<1>2. L \in Nat \ {0} /\ text \in Seq(Symbols) /\ k \in 0 .. L
  <2>1. portion \in Seq(Symbols)
    BY PortionType
  <2> QED
    BY <2>1, ClampedFacts, SyslogAssumption DEF L
<1>3. writePtr \in 0 .. L /\ buffer \in [Places -> Symbols] /\ isWrapped \in BOOLEAN
  BY DEF RingOK
<1>4. first \in 0 .. k /\ excess \in 0 .. writePtr /\ excess = k - first /\ (excess > 0 => first = L - writePtr)
  BY <1>2, <1>3
<1>5. \A i \in 1 .. k : text[i] \in Symbols
  BY <1>2, ElementOfSeq
<1>6. /\ head \in Seq(Symbols) /\ Len(head) = first
      /\ \A i \in 1 .. first : head[i] = text[i]
  <2> HIDE DEF first
  <2>1. /\ head \in Seq(Symbols) /\ Len(head) = (IF 1 <= first THEN first - 1 + 1 ELSE 0)
        /\ \A i \in 1 .. first - 1 + 1 : head[i] = text[1 + i - 1]
    BY <1>2, <1>4, <1>5, SubSeqProperties
  <2> QED
    BY <1>2, <1>4, <2>1
<1>7. /\ tail \in Seq(Symbols) /\ Len(tail) = excess
      /\ \A i \in 1 .. excess : tail[i] = text[first + i]
  <2> HIDE DEF first, excess
  <2>1. first + 1 \in Int /\ k \in Int /\ \A i \in first + 1 .. k : text[i] \in Symbols
    BY <1>2, <1>4, <1>5
  <2>2. /\ tail \in Seq(Symbols) /\ Len(tail) = (IF first + 1 <= k THEN k - (first + 1) + 1 ELSE 0)
        /\ \A i \in 1 .. k - (first + 1) + 1 : tail[i] = text[first + 1 + i - 1]
    BY <2>1, SubSeqProperties
  <2>3. k - (first + 1) + 1 = excess /\ \A i \in 1 .. excess : first + 1 + i - 1 = first + i
    BY <1>2, <1>4
  <2> QED
    BY <1>2, <1>4, <2>2, <2>3
<1> HIDE DEF head, tail, once, first, excess, over
<1>8. /\ once \in [Places -> Symbols]
      /\ \A q \in Places : once[q] = IF writePtr <= q /\ q < writePtr + first THEN head[q - writePtr + 1] ELSE buffer[q]
  BY <1>3, <1>6, CopyFacts DEF once
<1>9. /\ buffer' \in [Places -> Symbols]
      /\ \A q \in Places : buffer'[q] = IF 0 <= q /\ q < 0 + excess THEN tail[q - 0 + 1] ELSE once[q]
  <2>1. 0 \in 0 .. L
    BY <1>2
  <2> QED
    BY <1>1, <1>7, <1>8, <2>1, CopyFacts
<1>10. \A q \in Places : q \in 0 .. L - 1
  BY DEF Places, L
<1>11. \A q \in Places : buffer'[q] =
           IF q < excess THEN text[first + q + 1]
           ELSE IF writePtr <= q /\ q < writePtr + first THEN text[q - writePtr + 1] ELSE buffer[q]
  <2> SUFFICES ASSUME NEW q \in Places
               PROVE  buffer'[q] = IF q < excess THEN text[first + q + 1]
                          ELSE IF writePtr <= q /\ q < writePtr + first THEN text[q - writePtr + 1] ELSE buffer[q]
    OBVIOUS
  <2>1. q \in 0 .. L - 1
    BY <1>10
  <2>2. CASE q < excess
    <3>1. buffer'[q] = tail[q + 1] /\ q + 1 \in 1 .. excess /\ first + (q + 1) = first + q + 1
      BY <1>2, <1>4, <1>9, <2>1, <2>2
    <3> QED
      BY <1>7, <2>2, <3>1
  <2>3. CASE ~ (q < excess)
    <3>1. buffer'[q] = once[q]
      BY <1>2, <1>4, <1>9, <2>1, <2>3
    <3>2. writePtr <= q /\ q < writePtr + first => head[q - writePtr + 1] = text[q - writePtr + 1]
      BY <1>2, <1>3, <1>4, <1>6, <2>1
    <3> QED
      BY <1>8, <2>3, <3>1, <3>2
  <2> QED
    BY <2>2, <2>3
<1>12. RingOK'
  <2>1. writePtr' \in 0 .. L
    BY <1>1, <1>2, <1>3, <1>4 DEF excess, over, first
  <2>2. isWrapped' \in BOOLEAN
    BY <1>1
  <2> QED
    BY <1>9, <2>1, <2>2 DEF RingOK
<1>13. ASSUME writePtr + k <= L
       PROVE  /\ writePtr' = writePtr + k /\ isWrapped' = isWrapped
              /\ \A q \in Places : buffer'[q] =
                     IF writePtr <= q /\ q < writePtr + k THEN text[q - writePtr + 1] ELSE buffer[q]
  <2>1. excess = 0 /\ first = k
    BY <1>2, <1>3, <1>13 DEF excess, over, first
  <2>2. isWrapped' = isWrapped
    BY <1>1, <1>3, <2>1
  <2>3. writePtr' = writePtr + k
    BY <1>1, <2>1
  <2> QED
    BY <1>10, <1>11, <2>1, <2>2, <2>3
<1>14. ASSUME writePtr + k > L
       PROVE  /\ writePtr' = writePtr + k - L /\ isWrapped'
              /\ \A q \in Places : buffer'[q] =
                     IF writePtr <= q THEN text[q - writePtr + 1]
                     ELSE IF q < writePtr + k - L THEN text[L - writePtr + q + 1]
                     ELSE buffer[q]
  <2>1. excess = writePtr + k - L /\ first = L - writePtr /\ excess > 0
    BY <1>2, <1>3, <1>14 DEF excess, over, first
  <2>2. isWrapped'
    BY <1>1, <2>1
  <2>3. writePtr' = writePtr + k - L
    BY <1>1, <2>1
  <2>4. \A q \in Places : writePtr <= q => ~ (q < excess) /\ q < writePtr + first
    BY <1>2, <1>3, <1>4, <1>10, <2>1
  <2> QED
    BY <1>10, <1>11, <2>1, <2>2, <2>3, <2>4
<1> QED
  BY <1>12, <1>13, <1>14


(* The end of a text that the log keeps.                                   *)
LEMMA LastOfFacts ==
    ASSUME NEW p \in Seq(Symbols)
    PROVE  KeepsTheTail!LastOf(p) = Clamped(p)
<1>1. SYSLOG_LENGTH \in Nat /\ Len(p) \in Nat
  BY SyslogAssumption
<1>2. Len(p) <= SYSLOG_LENGTH <=> ~ (Len(p) > SYSLOG_LENGTH)
  BY <1>1
<1> QED
  BY <1>2 DEF KeepsTheTail!LastOf, Clamped

(* A write appends to the flattened log and drops what is too much of it.  *)
LEMMA KernelLogAppends ==
    ASSUME RingOK, NEW portion \in Portions, KernelLog(portion)
    PROVE  RingOK' /\ FlattenLogs' = KeepsTheTail!LastOf(FlattenLogs \o portion)
<1> DEFINE text == Clamped(portion)
           k == Len(text)
           n == Len(portion)
           w == writePtr
           m == FlatLength(w, isWrapped)
           old == FlattenLogs
           all == old \o portion
           new == FlattenLogs'
           N == FlatLength(w', isWrapped')
<1>1. /\ L \in Nat \ {0} /\ portion \in Seq(Symbols) /\ n \in Nat
      /\ w \in 0 .. L /\ buffer \in [Places -> Symbols] /\ isWrapped \in BOOLEAN
  BY SyslogAssumption, PortionType DEF L, RingOK
<1>2. /\ text \in Seq(Symbols) /\ k = (IF n > L THEN L ELSE n)
      /\ \A i \in 1 .. k : text[i] = portion[n - k + i]
  BY <1>1, ClampedFacts
<1>3. /\ RingOK'
      /\ w + k <= L =>
             /\ w' = w + k /\ isWrapped' = isWrapped
             /\ \A q \in Places : buffer'[q] = IF w <= q /\ q < w + k THEN text[q - w + 1] ELSE buffer[q]
      /\ w + k > L =>
             /\ w' = w + k - L /\ isWrapped'
             /\ \A q \in Places : buffer'[q] = IF w <= q THEN text[q - w + 1]
                                               ELSE IF q < w + k - L THEN text[L - w + q + 1] ELSE buffer[q]
  BY KernelLogFacts
<1>4. /\ old \in Seq(Symbols) /\ Len(old) = m
      /\ \A i \in 1 .. m : old[i] = buffer[FlatPlace(w, isWrapped, i)]
  BY <1>1, FlatFacts, FlattenIsFlat
<1>5. /\ new \in Seq(Symbols) /\ Len(new) = N
      /\ \A i \in 1 .. N : new[i] = buffer'[FlatPlace(w', isWrapped', i)]
  <2>1. buffer' \in [Places -> Symbols] /\ w' \in 0 .. L /\ isWrapped' \in BOOLEAN
    BY <1>3 DEF RingOK
  <2>2. /\ FlatOf(buffer', w', isWrapped') \in Seq(Symbols)
        /\ Len(FlatOf(buffer', w', isWrapped')) = FlatLength(w', isWrapped')
        /\ \A i \in 1 .. FlatLength(w', isWrapped') :
               FlatOf(buffer', w', isWrapped')[i] = buffer'[FlatPlace(w', isWrapped', i)]
    BY <2>1, FlatFacts
  <2> QED
    BY <2>2, FlattenIsFlat
<1> HIDE DEF text, k, n, old, new
<1>6. /\ all \in Seq(Symbols) /\ Len(all) = m + n
      /\ \A i \in 1 .. m + n : all[i] = IF i <= m THEN old[i] ELSE portion[i - m]
  <2>1. /\ all \in Seq(Symbols) /\ Len(all) = Len(old) + Len(portion)
        /\ \A i \in 1 .. Len(old) + Len(portion) : all[i] = IF i <= Len(old) THEN old[i] ELSE portion[i - Len(old)]
    BY <1>1, <1>4, ConcatProperties
  <2>2. Len(old) = m /\ Len(portion) = n
    BY <1>4 DEF n
  <2> HIDE DEF all, m
  <2> QED
    BY <2>1, <2>2
<1> HIDE DEF all
<1>7. /\ Clamped(all) \in Seq(Symbols) /\ Len(Clamped(all)) = (IF m + n > L THEN L ELSE m + n)
      /\ \A i \in 1 .. Len(Clamped(all)) : Clamped(all)[i] = all[m + n - Len(Clamped(all)) + i]
  <2>1. /\ Clamped(all) \in Seq(Symbols) /\ Len(Clamped(all)) = (IF Len(all) > L THEN L ELSE Len(all))
        /\ \A i \in 1 .. Len(Clamped(all)) : Clamped(all)[i] = all[Len(all) - Len(Clamped(all)) + i]
    BY <1>6, ClampedFacts
  <2>2. PICK s \in Nat : s = m + n /\ Len(all) = s
    BY <1>6
  <2>3. PICK c : c = Clamped(all)
    OBVIOUS
  <2>4. /\ c \in Seq(Symbols) /\ Len(c) = (IF s > L THEN L ELSE s)
        /\ \A i \in 1 .. Len(c) : c[i] = all[s - Len(c) + i]
    BY <2>1, <2>2, <2>3
  <2> HIDE DEF m
  <2>5. m \in Nat /\ n \in Nat
    BY <1>1 DEF m, FlatLength
  <2>6. Len(c) = IF m + n > L THEN L ELSE m + n
    BY <2>2, <2>4, <2>5
  <2>7. ASSUME NEW i \in 1 .. Len(c) PROVE c[i] = all[m + n - Len(c) + i]
    <3>1. m + n - Len(c) + i = s - Len(c) + i
      BY <2>2, <2>5
    <3> QED
      BY <2>4, <3>1
  <2> QED
    BY <2>3, <2>4, <2>6, <2>7
<1>8. m \in 0 .. L /\ (isWrapped => m = L) /\ (~ isWrapped => m = w) /\ k \in 0 .. L /\ k <= n
  BY <1>1, <1>2 DEF FlatLength
<1>9. Places = 0 .. L - 1
  BY DEF Places, L
<1>10. N = Len(Clamped(all)) /\ N \in 0 .. L
  <2>1. CASE w + k <= L
    <3>1. N = IF isWrapped THEN L ELSE w + k
      BY <1>3, <2>1 DEF FlatLength
    <3> HIDE DEF N, m
    <3>2. Len(Clamped(all)) = IF isWrapped THEN L ELSE w + k
      BY <1>1, <1>2, <1>7, <1>8, <2>1
    <3> QED
      BY <1>1, <1>8, <2>1, <3>1, <3>2
  <2>2. CASE w + k > L
    <3>1. N = L
      BY <1>3, <2>2 DEF FlatLength
    <3> HIDE DEF N, m
    <3>2. Len(Clamped(all)) = L
      BY <1>1, <1>2, <1>7, <1>8, <2>2
    <3> QED
      BY <1>1, <3>1, <3>2
  <2> QED
    BY <1>1, <1>8, <2>1, <2>2
<1>11. ASSUME NEW i \in 1 .. N PROVE new[i] = Clamped(all)[i]
  <2> DEFINE j == m + n - N + i
             q == FlatPlace(w', isWrapped', i)
  <2>1. Clamped(all)[i] = all[j] /\ new[i] = buffer'[q]
    BY <1>5, <1>7, <1>10, <1>11
  <2>2. j \in 1 .. m + n
    BY <1>1, <1>7, <1>8, <1>10, <1>11
  <2>3. all[j] = IF j <= m THEN old[j] ELSE portion[j - m]
    BY <1>6, <2>2
  <2>4. CASE w + k <= L
    <3>1. w' = w + k /\ isWrapped' = isWrapped
      BY <1>3, <2>4
    <3>2. isWrapped => N = L /\ (m + n > L => N = L)
      BY <1>7, <1>8, <1>10, <3>1 DEF FlatLength
    <3>3. q \in Places
      BY <1>1, <1>8, <1>9, <1>11, <3>1 DEF FlatPlace, FlatLength
    <3>4. buffer'[q] = IF w <= q /\ q < w + k THEN text[q - w + 1] ELSE buffer[q]
      BY <1>3, <2>4, <3>3
    <3>5. CASE j <= m
      <4>1. ~ (w <= q /\ q < w + k) /\ q = FlatPlace(w, isWrapped, j)
        <5>1. n = k
          BY <1>1, <1>2, <1>8, <1>11, <2>2, <2>4, <3>1, <3>5 DEF FlatLength
        <5>2. CASE isWrapped
          <6>1. j = k + i /\ i \in 1 .. L /\ m = L
            BY <1>1, <1>8, <1>11, <3>1, <5>1, <5>2 DEF FlatLength
          <6>2. q = IF i <= L - (w + k) THEN w + k + i - 1 ELSE i - (L - (w + k)) - 1
            BY <3>1, <5>2 DEF FlatPlace
          <6>3. FlatPlace(w, isWrapped, j) = IF j <= L - w THEN w + j - 1 ELSE j - (L - w) - 1
            BY <5>2 DEF FlatPlace
          <6>4. j <= m
            BY <3>5
          <6> HIDE DEF q, j, m
          <6> QED
            BY <1>1, <1>8, <2>4, <6>1, <6>2, <6>3, <6>4
        <5>3. CASE ~ isWrapped
          <6>1. j = i /\ m = w
            BY <1>1, <1>8, <1>11, <3>1, <5>1, <5>3 DEF FlatLength
          <6>2. q = i - 1 /\ FlatPlace(w, isWrapped, j) = j - 1
            BY <3>1, <5>3 DEF FlatPlace
          <6>3. j <= m
            BY <3>5
          <6> HIDE DEF q, j, m
          <6> QED
            BY <1>1, <1>8, <2>2, <2>4, <6>1, <6>2, <6>3
        <5> QED
          BY <5>2, <5>3
      <4> QED
        BY <1>4, <2>1, <2>2, <2>3, <3>4, <3>5, <4>1
    <3>6. CASE j > m
      <4>1. w <= q /\ q < w + k /\ q - w + 1 \in 1 .. k /\ n - k + (q - w + 1) = j - m
        BY <1>1, <1>2, <1>8, <1>11, <2>2, <2>4, <3>1, <3>6 DEF FlatPlace, FlatLength
      <4>2. text[q - w + 1] = portion[n - k + (q - w + 1)]
        BY <1>2, <4>1
      <4>3. buffer'[q] = portion[j - m]
        BY <3>4, <4>1, <4>2
      <4>4. ~ (j <= m)
        BY <1>8, <2>2, <3>6
      <4> HIDE DEF q, j, m
      <4> QED
        BY <2>1, <2>3, <4>3, <4>4
    <3> QED
      BY <1>8, <2>2, <3>5, <3>6
  <2>5. CASE w + k > L
    <3>1. w' = w + k - L /\ isWrapped' /\ N = L
      BY <1>3, <2>5 DEF FlatLength
    <3>2. q \in Places
      BY <1>1, <1>8, <1>9, <1>11, <3>1 DEF FlatPlace, FlatLength
    <3>3. buffer'[q] = IF w <= q THEN text[q - w + 1]
                       ELSE IF q < w + k - L THEN text[L - w + q + 1] ELSE buffer[q]
      BY <1>3, <2>5, <3>2
    <3>4. CASE j <= m
      <4>1. ~ (w <= q) /\ ~ (q < w + k - L) /\ q = FlatPlace(w, isWrapped, j)
        <5>1. n = k /\ j = m + k - L + i /\ i \in 1 .. L
          <6>1. i \in 1 .. L /\ j = m + n - L + i
            BY <1>11, <3>1
          <6>2. j <= m
            BY <3>4
          <6> HIDE DEF j, m
          <6> QED
            BY <1>1, <1>2, <1>8, <6>1, <6>2
        <5>2. q = w + k - L + i - 1 - (IF i <= L - (w + k - L) THEN 0 ELSE L)
          BY <1>1, <1>8, <3>1, <5>1 DEF FlatPlace
        <5>3. j <= m
          BY <3>4
        <5> HIDE DEF q, j
        <5>4. CASE isWrapped
          <6>1. m = L
            BY <1>8, <5>4
          <6>2. i <= L - k /\ q = w + k - L + i - 1 /\ w + k - L <= q /\ q < w
            BY <1>1, <1>8, <2>5, <5>1, <5>2, <5>3, <6>1
          <6>3. FlatPlace(w, isWrapped, j) = j - (L - w) - 1
            <7>1. ~ (j <= L - w)
              BY <1>1, <1>8, <2>5, <5>1, <6>1
            <7> QED
              BY <5>4, <7>1 DEF FlatPlace
          <6>4. q = j - (L - w) - 1
            BY <1>1, <1>8, <5>1, <6>1, <6>2
          <6> QED
            BY <1>1, <1>8, <6>2, <6>3, <6>4
        <5>5. CASE ~ isWrapped
          BY <1>1, <1>8, <2>5, <5>1, <5>2, <5>3, <5>5 DEF FlatPlace
        <5> QED
          BY <5>4, <5>5
      <4> QED
        BY <1>4, <2>1, <2>2, <2>3, <3>3, <3>4, <4>1
    <3>5. CASE j > m
      <4>1. CASE w <= q
        <5>1. q - w + 1 \in 1 .. k /\ n - k + (q - w + 1) = j - m
          <6>1. i \in 1 .. L /\ j = m + n - L + i
            BY <1>11, <3>1
          <6>2. q = w + k - L + i - 1 - (IF i <= L - (w + k - L) THEN 0 ELSE L)
            BY <1>1, <1>8, <3>1, <6>1 DEF FlatPlace
          <6>3. ~ (j <= m) /\ w <= q
            BY <1>8, <2>2, <3>5, <4>1
          <6> HIDE DEF q, j, m
          <6>4. i > L - k
            BY <1>1, <1>2, <1>8, <6>1, <6>3
          <6>5. q = w + k - L + i - 1
            BY <1>1, <1>2, <1>8, <2>5, <6>1, <6>2, <6>3, <6>4
          <6>6. q - w + 1 = k - L + i /\ j - m = n - L + i
            BY <1>1, <1>8, <6>1, <6>5
          <6> QED
            BY <1>1, <1>8, <6>1, <6>4, <6>6
        <5>2. text[q - w + 1] = portion[n - k + (q - w + 1)]
          BY <1>2, <5>1
        <5>3. buffer'[q] = portion[j - m]
          BY <3>3, <4>1, <5>1, <5>2
        <5>4. ~ (j <= m)
          BY <1>8, <2>2, <3>5
        <5> HIDE DEF q, j, m
        <5> QED
          BY <2>1, <2>3, <5>3, <5>4
      <4>2. CASE ~ (w <= q)
        <5>1. q < w + k - L /\ L - w + q + 1 \in 1 .. k /\ n - k + (L - w + q + 1) = j - m
          <6>1. i \in 1 .. L /\ j = m + n - L + i
            BY <1>11, <3>1
          <6>2. q = w + k - L + i - 1 - (IF i <= L - (w + k - L) THEN 0 ELSE L)
            BY <1>1, <1>8, <3>1, <6>1 DEF FlatPlace
          <6>3. ~ (j <= m) /\ ~ (w <= q)
            BY <1>8, <2>2, <3>5, <4>2
          <6> HIDE DEF q, j, m
          <6>4. i > L - k
            BY <1>1, <1>2, <1>8, <6>1, <6>3
          <6>5. i > L - (w + k - L) /\ q = w + k - L + i - 1 - L
            BY <1>1, <1>2, <1>8, <6>1, <6>2, <6>3, <6>4
          <6> QED
            BY <1>1, <1>2, <1>8, <6>1, <6>4, <6>5
        <5>2. text[L - w + q + 1] = portion[n - k + (L - w + q + 1)]
          BY <1>2, <5>1
        <5>3. buffer'[q] = portion[j - m]
          BY <3>3, <4>2, <5>1, <5>2
        <5>4. ~ (j <= m)
          BY <1>8, <2>2, <3>5
        <5> HIDE DEF q, j, m
        <5> QED
          BY <2>1, <2>3, <5>3, <5>4
      <4> QED
        BY <4>1, <4>2
    <3> QED
      BY <1>8, <2>2, <3>4, <3>5
  <2> QED
    BY <1>1, <1>8, <2>4, <2>5
<1>12. new = Clamped(all)
  BY <1>5, <1>7, <1>10, <1>11, SeqEqual
<1> QED
  BY <1>3, <1>6, <1>12, LastOfFacts DEF new, all, old


-----------------------------------------------------------------------------
(* The ring implements the tail of the log.                                *)

LEMMA ViewKeepsLog ==
    ASSUME OpenSyslogs \/ DownArrow \/ UpArrow \/ EscapeKey \/ UNCHANGED vars
    PROVE  UNCHANGED <<buffer, writePtr, isWrapped>>
BY DEF OpenSyslogs, DownArrow, UpArrow, EscapeKey, logVars, vars

LEMMA SameLog ==
    ASSUME UNCHANGED <<buffer, writePtr, isWrapped>>
    PROVE  FlattenLogs' = FlattenLogs /\ (RingOK => RingOK')
BY DEF FlattenLogs, Stretch, RingOK

LEMMA InitRing == Init => RingOK /\ FlattenLogs = <<>>
<1> SUFFICES ASSUME Init PROVE RingOK /\ FlattenLogs = <<>>
  OBVIOUS
<1>1. buffer \in [Places -> Symbols] /\ writePtr = 0 /\ isWrapped = FALSE /\ 0 \in 0 .. L
  <2>1. 0 \in 0 .. L
    BY SyslogAssumption DEF L
  <2>2. buffer \in [Places -> Symbols]
    BY DEF Init, Symbols
  <2> QED
    BY <2>1, <2>2 DEF Init
<1>2. RingOK
  BY <1>1 DEF RingOK
<1>3. FlattenLogs = FlatOf(buffer, 0, FALSE) /\ FlatLength(0, FALSE) = 0
  BY <1>1, FlattenIsFlat DEF FlatLength
<1>4. FlattenLogs \in Seq(Symbols) /\ Len(FlattenLogs) = 0
  BY <1>1, <1>3, FlatFacts
<1> QED
  BY <1>2, <1>4, EmptySeq

LEMMA StepKeepsTail ==
    ASSUME RingOK, [Next]_vars
    PROVE  RingOK' /\ [KeepsTheTail!Log]_FlattenLogs
<1>1. CASE \E portion \in Portions : KernelLog(portion)
  BY <1>1, KernelLogAppends DEF KeepsTheTail!Log
<1>2. CASE OpenSyslogs \/ DownArrow \/ UpArrow \/ EscapeKey \/ UNCHANGED vars
  BY <1>2, ViewKeepsLog, SameLog
<1> QED
  BY <1>1, <1>2 DEF Next

(* The ring is a full array of characters with its end inside it.          *)
THEOREM AlwaysRingOK == Spec => []RingOK
<1>1. Init => RingOK
  BY InitRing
<1>2. RingOK /\ [Next]_vars => RingOK'
  BY StepKeepsTail
<1> QED
  BY <1>1, <1>2, PTL DEF Spec

(* kernel_log() and flatten_logs() keep the last SYSLOG_LENGTH characters  *)
(* of everything logged, in order, for portions of every length written    *)
(* at every place of the ring, and the viewer never changes them.          *)
THEOREM AlwaysLogTail == Spec => IsLogTail
<1>1. Init => KeepsTheTail!LogInit
  BY InitRing DEF KeepsTheTail!LogInit
<1>2. RingOK /\ [Next]_vars => [KeepsTheTail!Log]_FlattenLogs
  BY StepKeepsTail
<1> QED
  BY <1>1, <1>2, AlwaysRingOK, PTL DEF Spec, IsLogTail, KeepsTheTail!LogSpec


-----------------------------------------------------------------------------
(* The places of a text, and what fits.                                    *)

LEMMA ScreenSizes == /\ Width \in Nat \ {0} /\ Height \in Nat /\ Height >= 2 /\ TabSize \in Nat \ {0}
                     /\ MAX_SCREENSPACE \in Nat /\ Width <= MAX_SCREENSPACE /\ TabSize <= MAX_SCREENSPACE
                     /\ MAX_SCREENSPACE <= Width * Height /\ Width * Height \in Nat
<1>1. Width \in Nat \ {0} /\ Height \in Nat /\ Height >= 2 /\ TabSize \in Nat \ {0} /\ TabSize <= Width * (Height - 1)
  BY ScreenAssumption, SyslogAssumption
<1>2. Width * (Height - 1) \in Nat /\ Width * Height \in Nat /\ Width * Height = Width * (Height - 1) + Width
  BY <1>1
<1>3. Width * (Height - 1) = Width * (Height - 2) + Width /\ Width * (Height - 2) \in Nat
  BY <1>1
<1> QED
  BY <1>1, <1>2, <1>3 DEF MAX_SCREENSPACE

LEMMA AdvanceFacts ==
    ASSUME NEW p \in Nat, NEW ch
    PROVE  /\ Advance(p, ch) \in Nat
           /\ Advance(p, Return) = p
           /\ Advance(0, ch) <= MAX_SCREENSPACE
<1>1. p % Width \in 0 .. Width - 1 /\ 0 % Width = 0
  BY ScreenSizes
<1>2. p + Width - (p % Width) \in Nat /\ p + TabSize \in Nat /\ 1 <= MAX_SCREENSPACE /\ 0 + Width - (0 % Width) = Width
  BY <1>1, ScreenSizes
<1> QED
  BY <1>2, ScreenSizes DEF Advance, Return, NewLine, Tab

LEMMA PlacesFacts ==
    ASSUME NEW text \in Seq(Symbols), NEW p \in Nat
    PROVE  /\ PlacesAfter(text, p) \in [0 .. Len(text) -> Nat]
           /\ PlacesAfter(text, p)[0] = p
           /\ \A i \in 1 .. Len(text) :
                  PlacesAfter(text, p)[i] = Advance(PlacesAfter(text, p)[i - 1], text[i])
<1>1. PICK N \in Nat : N = Len(text)
  OBVIOUS
<1>2. PICK step : step = [i \in 1 .. N |-> [q \in Nat |-> Advance(q, text[i])]]
  OBVIOUS
<1>3. step \in [1 .. N -> [Nat -> Nat]]
  BY <1>2, AdvanceFacts
<1>4. PICK f \in [0 .. N -> Nat] : Follows(f, N, p, step)
  BY <1>1, <1>3, RecursionExists
<1>5. \A i \in 1 .. N : f[i] = Advance(f[i - 1], text[i])
  <2> TAKE i \in 1 .. N
  <2>1. f[i] = step[i][f[i - 1]] /\ f[i - 1] \in Nat
    BY <1>4 DEF Follows
  <2> QED
    BY <1>2, <2>1
<1>6. f[0] = p
  BY <1>4 DEF Follows
<1>7. f = [i \in 0 .. N |-> IF i = 0 THEN p ELSE Advance(f[i - 1], text[i])]
  BY <1>4, <1>5, <1>6
<1>8. PICK g : /\ g = PlacesAfter(text, p)
               /\ g = [i \in 0 .. N |-> IF i = 0 THEN p ELSE Advance(g[i - 1], text[i])]
  <2>1. PlacesAfter(text, p) = CHOOSE h : h = [i \in 0 .. N |-> IF i = 0 THEN p ELSE Advance(h[i - 1], text[i])]
    BY <1>1 DEF PlacesAfter
  <2>2. \E h : h = [i \in 0 .. N |-> IF i = 0 THEN p ELSE Advance(h[i - 1], text[i])]
    BY <1>7
  <2> QED
    BY <2>1, <2>2
<1>9. g[0] = p /\ \A i \in 1 .. N : g[i] = Advance(g[i - 1], text[i])
  BY <1>1, <1>8
<1>10. \A i \in 0 .. N : g[i] \in Nat
  <2> DEFINE S == {i \in 0 .. N : g[i] \in Nat}
  <2>1. 0 \in S
    BY <1>1, <1>9
  <2>2. \A i \in 0 .. N - 1 : i \in S => i + 1 \in S
    <3> TAKE i \in 0 .. N - 1
    <3> HAVE i \in S
    <3>1. i + 1 \in 1 .. N /\ (i + 1) - 1 = i /\ g[i] \in Nat
      BY <1>1
    <3>2. g[i + 1] = Advance(g[i], text[i + 1])
      BY <1>9, <3>1
    <3>3. g[i + 1] \in Nat /\ i + 1 \in 0 .. N
      BY <3>1, <3>2, AdvanceFacts
    <3> QED
      BY <3>3
  <2> HIDE DEF S
  <2>3. \A i \in 0 .. N : i \in S
    BY <1>1, <2>1, <2>2, IntervalInduction
  <2> QED
    BY <2>3 DEF S
<1>11. g \in [0 .. N -> Nat]
  BY <1>8, <1>10
<1> QED
  BY <1>1, <1>8, <1>9, <1>11

(* A page: what calc_fit_substring() lets through from the top of the      *)
(* screen.  The first character always fits.                               *)
PageFit(text) == FitSubstring(text, 0, MAX_SCREENSPACE)

LEMMA FitFacts ==
    ASSUME NEW text \in Seq(Symbols)
    PROVE  /\ PageFit(text) \in 0 .. Len(text)
           /\ \A i \in 1 .. PageFit(text) :
                  text[i] = Return \/ PlacesAfter(text, 0)[i] <= MAX_SCREENSPACE
           /\ PageFit(text) = 0 => Len(text) = 0
<1> DEFINE P == PlacesAfter(text, 0)
           TooLong == {i \in 1 .. Len(text) : text[i] # Return /\ P[i] > MAX_SCREENSPACE}
<1>1. PICK N \in Nat : N = Len(text)
  OBVIOUS
<1>2. P \in [0 .. N -> Nat] /\ P[0] = 0 /\ \A i \in 1 .. N : P[i] = Advance(P[i - 1], text[i])
  BY <1>1, PlacesFacts
<1>3. PageFit(text) = IF TooLong = {} THEN N ELSE Min(TooLong) - 1
  <2>1. 0 + (IF MAX_SCREENSPACE > Width * Height - 0 THEN Width * Height - 0 ELSE MAX_SCREENSPACE)
            = MAX_SCREENSPACE
    BY ScreenSizes
  <2> QED
    BY <1>1, <2>1 DEF PageFit, FitSubstring
<1>4. 1 \notin TooLong
  <2> SUFFICES ASSUME 1 \in TooLong PROVE FALSE
    OBVIOUS
  <2>1. 1 \in 1 .. N /\ P[1] > MAX_SCREENSPACE
    BY <1>1
  <2>2. P[1] = Advance(0, text[1])
    BY <1>2, <2>1
  <2>3. Advance(0, text[1]) <= MAX_SCREENSPACE /\ Advance(0, text[1]) \in Nat
    BY AdvanceFacts
  <2> QED
    BY <2>1, <2>2, <2>3, ScreenSizes
<1>5. CASE TooLong = {}
  <2>1. PageFit(text) = N
    BY <1>3, <1>5
  <2>2. \A i \in 1 .. N : text[i] = Return \/ P[i] <= MAX_SCREENSPACE
    BY <1>1, <1>2, <1>5, ScreenSizes
  <2> QED
    BY <1>1, <2>1, <2>2
<1>6. CASE TooLong # {}
  <2>1. PICK m \in TooLong : \A i \in TooLong : m <= i
    <3>1. TooLong \subseteq Nat
      BY <1>1
    <3> HIDE DEF TooLong
    <3> QED
      BY <1>6, <3>1, LeastNumber
  <2>2. Min(TooLong) \in TooLong /\ \A i \in TooLong : Min(TooLong) <= i
    <3> HIDE DEF TooLong
    <3> QED
      BY <2>1 DEF Min
  <2>3. Min(TooLong) \in 2 .. N
    BY <1>1, <1>4, <2>2
  <2>4. \A i \in 1 .. Min(TooLong) - 1 : text[i] = Return \/ P[i] <= MAX_SCREENSPACE
    <3> TAKE i \in 1 .. Min(TooLong) - 1
    <3>1. i \in 1 .. N /\ i \notin TooLong
      BY <2>2, <2>3
    <3> QED
      BY <1>1, <1>2, <3>1, ScreenSizes
  <2>5. PageFit(text) = Min(TooLong) - 1
    BY <1>3, <1>6
  <2> HIDE DEF TooLong, P
  <2>6. PageFit(text) \in 1 .. N /\ PageFit(text) # 0
    BY <2>3, <2>5
  <2> QED
    BY <1>1, <2>4, <2>5, <2>6 DEF P
<1> QED
  BY <1>5, <1>6

-----------------------------------------------------------------------------
(* Printing, on every screen and for every text.                           *)

LEMMA ClearedFacts == Cleared \in Screens(Symbols) /\ Cleared.gone = 0 /\ Place(Cleared) = 0
<1>1. 0 \in Rows /\ 0 \in 0 .. Width /\ Blank \in Symbols
  BY ScreenSizes DEF Rows, Symbols, Characters
<1>2. Cleared \in Screens(Symbols)
  BY <1>1 DEF Cleared, Screens, BlankRow
<1>3. Cleared.gone = 0 /\ Cleared.x = 0 /\ Cleared.y = 0
  BY DEF Cleared
<1> QED
  BY <1>2, <1>3, ScreenSizes DEF Place

(* A cursor at most one row below the last is scrolled back.               *)
LEMMA ScrollFacts ==
    ASSUME NEW s, NEW cell \in [Rows -> [Columns -> Symbols]], NEW x \in 0 .. Width,
           NEW y \in 0 .. Height, NEW gone \in Nat,
           s = [cell |-> cell, x |-> x, y |-> y, gone |-> gone]
    PROVE  /\ UpdateScroll(s) \in Screens(Symbols)
           /\ UpdateScroll(s).x = x
           /\ y < Height => UpdateScroll(s) = s
<1>1. CASE y < Height
  <2>1. y \in Rows
    BY <1>1, ScreenSizes DEF Rows
  <2>2. s \in Screens(Symbols)
    BY <2>1 DEF Screens
  <2> QED
    BY <1>1, <2>2 DEF UpdateScroll
<1>2. CASE ~ (y < Height)
  <2> DEFINE up == [r \in Rows |-> IF r = Height - 1 THEN BlankRow ELSE s.cell[r + 1]]
  <2>1. BlankRow \in [Columns -> Symbols]
    BY DEF BlankRow, Symbols, Characters
  <2>2. up \in [Rows -> [Columns -> Symbols]]
    <3>1. ASSUME NEW r \in Rows PROVE up[r] \in [Columns -> Symbols]
      <4>1. CASE r = Height - 1
        BY <2>1, <4>1
      <4>2. CASE r # Height - 1
        <5>1. r + 1 \in Rows
          BY <4>2, ScreenSizes DEF Rows
        <5> QED
          BY <4>2, <5>1
      <4> QED
        BY <4>1, <4>2
    <3> QED
      BY <3>1
  <2>3. UpdateScroll(s) = [cell |-> up, x |-> x, y |-> Height - 1, gone |-> gone + 1]
    BY <1>2 DEF UpdateScroll
  <2>4. Height - 1 \in Rows /\ gone + 1 \in Nat
    BY ScreenSizes DEF Rows
  <2> HIDE DEF up
  <2> QED
    BY <1>2, <2>2, <2>3, <2>4 DEF Screens
<1> QED
  BY <1>1, <1>2


LEMMA ScreenFields ==
    ASSUME NEW s \in Screens(Symbols)
    PROVE  /\ s.cell \in [Rows -> [Columns -> Symbols]] /\ s.x \in 0 .. Width
           /\ s.y \in 0 .. Height - 1 /\ s.y \in Nat /\ s.gone \in Nat
           /\ Place(s) \in Nat
           /\ s = [cell |-> s.cell, x |-> s.x, y |-> s.y, gone |-> s.gone]
<1>1. /\ s.cell \in [Rows -> [Columns -> Symbols]] /\ s.x \in 0 .. Width
      /\ s.y \in 0 .. Height - 1 /\ s.gone \in Nat
      /\ s = [cell |-> s.cell, x |-> s.x, y |-> s.y, gone |-> s.gone]
  BY DEF Screens, Rows
<1>2. s.y \in Nat /\ s.x \in Nat
  BY <1>1, ScreenSizes
<1>3. s.y * Width \in Nat
  BY <1>2, ScreenSizes
<1> QED
  BY <1>1, <1>2, <1>3 DEF Place

(* A place before the last row is in a row before the last.                *)
LEMMA RowOfPlace ==
    ASSUME NEW y \in Nat, y * Width <= MAX_SCREENSPACE
    PROVE  y <= Height - 1
<1> SUFFICES ASSUME y >= Height PROVE FALSE
  BY ScreenSizes
<1>1. PICK d \in Nat : y = Height - 1 + 1 + d
  <2>1. y - Height \in Nat /\ y = Height - 1 + 1 + (y - Height)
    BY ScreenSizes
  <2> QED
    BY <2>1
<1>2. y * Width = (Height - 1) * Width + Width + d * Width /\ d * Width \in Nat
  BY <1>1, ScreenSizes
<1>3. (Height - 1) * Width = Width * (Height - 1) /\ MAX_SCREENSPACE = Width * (Height - 1)
  BY ScreenSizes DEF MAX_SCREENSPACE
<1> QED
  BY <1>2, <1>3, ScreenSizes

LEMMA PutcFacts ==
    ASSUME NEW s \in Screens(Symbols), NEW ch \in Symbols
    PROVE  /\ PutcCore(s, ch) \in Screens(Symbols)
           /\ Place(s) + 1 <= MAX_SCREENSPACE =>
                  PutcCore(s, ch).gone = s.gone /\ Place(PutcCore(s, ch)) = Place(s) + 1
<1> DEFINE wide == s.x >= Width
           u == IF wide THEN [s EXCEPT !.x = 0, !.y = @ + 1] ELSE s
           t == UpdateScroll(u)
<1>1. /\ s.cell \in [Rows -> [Columns -> Symbols]] /\ s.x \in 0 .. Width
      /\ s.y \in 0 .. Height - 1 /\ s.y \in Nat /\ s.gone \in Nat
      /\ s = [cell |-> s.cell, x |-> s.x, y |-> s.y, gone |-> s.gone]
  BY ScreenFields
<1>2. PICK x, y : /\ x = (IF wide THEN 0 ELSE s.x)
                  /\ y = (IF wide THEN s.y + 1 ELSE s.y)
  OBVIOUS
<1>3. x \in 0 .. Width - 1 /\ y \in 0 .. Height /\ x \in 0 .. Width
  BY <1>1, <1>2, ScreenSizes
<1>4. u = [cell |-> s.cell, x |-> x, y |-> y, gone |-> s.gone]
  <2>1. CASE wide
    BY <1>1, <1>2, <2>1
  <2>2. CASE ~ wide
    BY <1>1, <1>2, <2>2
  <2> QED
    BY <2>1, <2>2
<1>5. y * Width + x = Place(s)
  <2>1. CASE wide
    <3>1. s.x = Width /\ x = 0 /\ y = s.y + 1
      BY <1>1, <1>2, <2>1, ScreenSizes
    <3>2. (s.y + 1) * Width = s.y * Width + Width
      BY <1>1, ScreenSizes
    <3> QED
      BY <1>1, <3>1, <3>2, ScreenSizes DEF Place
  <2>2. CASE ~ wide
    BY <1>2, <2>2 DEF Place
  <2> QED
    BY <2>1, <2>2
<1> HIDE DEF u
<1>6. t \in Screens(Symbols) /\ t.x = x /\ (y < Height => t = u)
  BY <1>1, <1>3, <1>4, ScrollFacts
<1> HIDE DEF t
<1>7. PutcCore(s, ch) = [t EXCEPT !.cell[t.y][t.x] = ch, !.x = @ + 1]
  BY DEF PutcCore, t, u
<1>8. /\ t.cell \in [Rows -> [Columns -> Symbols]] /\ t.y \in Rows /\ t.x \in Columns
      /\ t.x + 1 \in 0 .. Width
  BY <1>3, <1>6, ScreenSizes DEF Screens, Columns
<1> DEFINE cell == [t.cell EXCEPT ![t.y][t.x] = ch]
<1>9. PutcCore(s, ch) \in Screens(Symbols)
  <2>1. cell \in [Rows -> [Columns -> Symbols]]
    <3>1. t.cell[t.y] \in [Columns -> Symbols]
      BY <1>8
    <3>2. [t.cell[t.y] EXCEPT ![t.x] = ch] \in [Columns -> Symbols]
      BY <1>8, <3>1
    <3>3. cell = [t.cell EXCEPT ![t.y] = [t.cell[t.y] EXCEPT ![t.x] = ch]]
      OBVIOUS
    <3> QED
      BY <1>8, <3>2, <3>3
  <2>2. t = [cell |-> t.cell, x |-> t.x, y |-> t.y, gone |-> t.gone] /\ t.gone \in Nat
    BY <1>6 DEF Screens
  <2>3. PutcCore(s, ch) = [cell |-> cell, x |-> t.x + 1, y |-> t.y, gone |-> t.gone]
    BY <1>7, <2>2
  <2> HIDE DEF cell
  <2> QED
    BY <1>8, <2>1, <2>2, <2>3 DEF Screens
<1>10. PutcCore(s, ch).x = t.x + 1 /\ PutcCore(s, ch).y = t.y /\ PutcCore(s, ch).gone = t.gone
  BY <1>6, <1>7 DEF Screens
<1>11. ASSUME Place(s) + 1 <= MAX_SCREENSPACE
       PROVE  PutcCore(s, ch).gone = s.gone /\ Place(PutcCore(s, ch)) = Place(s) + 1
  <2>1. y \in Nat /\ y * Width \in Nat /\ x \in Nat
    BY <1>3, ScreenSizes
  <2>2. y * Width <= MAX_SCREENSPACE
    BY <1>5, <1>11, <2>1, ScreenSizes
  <2>3. y <= Height - 1
    BY <2>1, <2>2, RowOfPlace
  <2>4. t = u
    BY <1>3, <1>6, <2>3, ScreenSizes
  <2>5. t.y = y /\ t.gone = s.gone
    BY <1>4, <2>4
  <2>6. Place(PutcCore(s, ch)) = y * Width + (x + 1)
    BY <1>6, <1>10, <2>5 DEF Place
  <2> QED
    BY <1>5, <1>10, <2>1, <2>5, <2>6
<1> QED
  BY <1>9, <1>11

LEMMA BlanksFacts ==
    ASSUME NEW s \in Screens(Symbols), NEW n \in Nat
    PROVE  /\ Blanks(s, n) \in Screens(Symbols)
           /\ Place(s) + n <= MAX_SCREENSPACE =>
                  Blanks(s, n).gone = s.gone /\ Place(Blanks(s, n)) = Place(s) + n
<1> DEFINE V == Screens(Symbols)
<1>0. Blank \in Symbols
  BY DEF Symbols, Characters
<1>1. PICK step : step = [i \in 1 .. n |-> [q \in V |-> PutcCore(q, Blank)]]
  OBVIOUS
<1>2. step \in [1 .. n -> [V -> V]]
  BY <1>0, <1>1, PutcFacts
<1> HIDE DEF V
<1>3. PICK f \in [0 .. n -> V] : Follows(f, n, s, step)
  BY <1>2, RecursionExists DEF V
<1>4. \A i \in 1 .. n : f[i] = PutcCore(f[i - 1], Blank)
  <2> TAKE i \in 1 .. n
  <2>1. f[i] = step[i][f[i - 1]] /\ f[i - 1] \in V
    BY <1>3 DEF Follows
  <2> QED
    BY <1>1, <2>1
<1>5. f[0] = s
  BY <1>3 DEF Follows
<1>6. f = [i \in 0 .. n |-> IF i = 0 THEN s ELSE PutcCore(f[i - 1], Blank)]
  BY <1>3, <1>4, <1>5
<1>7. PICK g : /\ g[n] = Blanks(s, n)
               /\ g = [i \in 0 .. n |-> IF i = 0 THEN s ELSE PutcCore(g[i - 1], Blank)]
  BY <1>6 DEF Blanks
<1>8. g[0] = s /\ \A i \in 1 .. n : g[i] = PutcCore(g[i - 1], Blank)
  BY <1>7
<1> DEFINE S == {i \in 0 .. n : /\ g[i] \in V
                                /\ Place(s) + i <= MAX_SCREENSPACE =>
                                       g[i].gone = s.gone /\ Place(g[i]) = Place(s) + i}
<1>9. Place(s) \in Nat
  BY ScreenFields
<1>10. 0 \in S
  BY <1>8, <1>9 DEF V
<1>11. \A i \in 0 .. n - 1 : i \in S => i + 1 \in S
  <2> TAKE i \in 0 .. n - 1
  <2> HAVE i \in S
  <2>1. i \in 0 .. n /\ i + 1 \in 1 .. n /\ i + 1 \in 0 .. n /\ (i + 1) - 1 = i /\ g[i] \in V
    OBVIOUS
  <2>2. g[i + 1] = PutcCore(g[i], Blank)
    BY <1>8, <2>1
  <2>3. g[i + 1] \in V
    BY <1>0, <2>1, <2>2, PutcFacts DEF V
  <2>4. ASSUME Place(s) + (i + 1) <= MAX_SCREENSPACE
        PROVE  g[i + 1].gone = s.gone /\ Place(g[i + 1]) = Place(s) + (i + 1)
    <3>1. Place(s) + i <= MAX_SCREENSPACE
      BY <1>9, <2>1, <2>4, ScreenSizes
    <3>2. g[i].gone = s.gone /\ Place(g[i]) = Place(s) + i
      BY <3>1
    <3>3. Place(g[i]) + 1 <= MAX_SCREENSPACE
      BY <1>9, <2>1, <2>4, <3>2, ScreenSizes
    <3>4. g[i + 1].gone = g[i].gone /\ Place(g[i + 1]) = Place(g[i]) + 1
      BY <1>0, <2>1, <2>2, <3>3, PutcFacts DEF V
    <3> QED
      BY <1>9, <2>1, <3>2, <3>4
  <2> QED
    BY <2>1, <2>3, <2>4
<1> HIDE DEF S
<1>12. n \in S
  <2>1. \A i \in 0 .. n : i \in S
    BY <1>10, <1>11, IntervalInduction
  <2> QED
    BY <2>1
<1> QED
  BY <1>7, <1>12 DEF S, V


(* A line feed from a place up to p goes no further than                   *)
(* calc_fit_substring() says, wherever in its row the cursor stands.       *)
LEMMA NewRowFacts ==
    ASSUME NEW y \in Nat, NEW x \in Nat, NEW p \in Nat, y * Width + x <= p
    PROVE  (y + 1) * Width <= p + Width - (p % Width)
<1>1. PICK k \in Nat, r \in 0 .. Width - 1 : p = Width * k + r /\ r = p % Width
  <2>1. p = Width * (p \div Width) + (p % Width) /\ p \div Width \in Nat /\ p % Width \in 0 .. Width - 1
    BY ScreenSizes
  <2> QED
    BY <2>1
<1>2. y <= k
  <2> SUFFICES ASSUME y >= k + 1 PROVE FALSE
    BY <1>1
  <2>1. PICK d \in Nat : y = k + 1 + d
    <3>1. y - (k + 1) \in Nat /\ y = k + 1 + (y - (k + 1))
      BY <1>1
    <3> QED
      BY <3>1
  <2>2. y * Width = Width * k + Width + d * Width /\ d * Width \in Nat /\ Width * k \in Nat
    BY <1>1, <2>1, ScreenSizes
  <2> QED
    BY <1>1, <2>2, ScreenSizes
<1>3. PICK e \in Nat : k = y + e
  <2>1. k - y \in Nat /\ k = y + (k - y)
    BY <1>1, <1>2
  <2> QED
    BY <2>1
<1>4. Width * k = y * Width + e * Width /\ e * Width \in Nat /\ y * Width \in Nat
  BY <1>3, ScreenSizes
<1>5. (y + 1) * Width = y * Width + Width
  BY ScreenSizes
<1>6. p - (p % Width) = Width * k /\ Width * k \in Nat /\ p % Width \in Nat
  BY <1>1, <1>4
<1>7. p + Width - (p % Width) = Width * k + Width
  BY <1>6, ScreenSizes
<1> QED
  BY <1>4, <1>5, <1>7, ScreenSizes

LEMMA PrintCharFacts ==
    ASSUME NEW s \in Screens(Symbols), NEW ch \in Symbols
    PROVE  /\ PrintChar(s, ch) \in Screens(Symbols)
           /\ \A p \in Nat :
                  Place(s) <= p /\ Advance(p, ch) <= MAX_SCREENSPACE =>
                      PrintChar(s, ch).gone = s.gone /\ Place(PrintChar(s, ch)) <= Advance(p, ch)
<1>1. /\ s.cell \in [Rows -> [Columns -> Symbols]] /\ s.x \in 0 .. Width
      /\ s.y \in 0 .. Height - 1 /\ s.y \in Nat /\ s.gone \in Nat /\ Place(s) \in Nat
      /\ s = [cell |-> s.cell, x |-> s.x, y |-> s.y, gone |-> s.gone]
  BY ScreenFields
<1>2. CASE ch = Return
  <2>1. PrintChar(s, ch) = s /\ \A p \in Nat : Advance(p, ch) = p
    BY <1>2 DEF PrintChar, Advance, Return, NewLine, Tab
  <2> QED
    BY <2>1
<1>3. CASE ch = NewLine
  <2> DEFINE u == [s EXCEPT !.x = 0, !.y = @ + 1]
  <2>1. ch # Return
    BY <1>3 DEF NewLine, Return
  <2>2. PrintChar(s, ch) = UpdateScroll(u)
    BY <1>3, <2>1 DEF PrintChar, Return, NewLine, Tab
  <2>3. u = [cell |-> s.cell, x |-> 0, y |-> s.y + 1, gone |-> s.gone]
    <3>1. PICK c, a, b, d : s = [cell |-> c, x |-> a, y |-> b, gone |-> d]
      BY <1>1
    <3>2. s.cell = c /\ s.y = b /\ s.gone = d
      BY <3>1
    <3>3. u = [cell |-> c, x |-> 0, y |-> b + 1, gone |-> d]
      <4>1. PICK v : v = [s EXCEPT !.x = 0]
        OBVIOUS
      <4>2. PICK up : up = b + 1
        OBVIOUS
      <4>3. u = [v EXCEPT !.y = up]
        BY <3>2, <4>1, <4>2
      <4>4. v = [cell |-> c, x |-> 0, y |-> b, gone |-> d]
        BY <3>1, <4>1
      <4> HIDE DEF u
      <4>5. u = [cell |-> c, x |-> 0, y |-> up, gone |-> d]
        BY <4>3, <4>4
      <4> QED
        BY <4>2, <4>5
    <3> HIDE DEF u
    <3> QED
      BY <3>2, <3>3
  <2>4. 0 \in 0 .. Width /\ s.y + 1 \in 0 .. Height /\ s.y + 1 \in Nat
    BY <1>1, ScreenSizes
  <2> HIDE DEF u
  <2>5. UpdateScroll(u) \in Screens(Symbols) /\ (s.y + 1 < Height => UpdateScroll(u) = u)
    BY <1>1, <2>3, <2>4, ScrollFacts
  <2>6. ASSUME NEW p \in Nat, Place(s) <= p, Advance(p, ch) <= MAX_SCREENSPACE
        PROVE  PrintChar(s, ch).gone = s.gone /\ Place(PrintChar(s, ch)) <= Advance(p, ch)
    <3>1. Advance(p, ch) = p + Width - (p % Width) /\ Advance(p, ch) \in Nat
      BY <1>3, <2>1, AdvanceFacts DEF Advance, Return, NewLine, Tab
    <3>2. s.y * Width + s.x <= p /\ s.x \in Nat
      BY <1>1, <2>6, ScreenSizes DEF Place
    <3>3. (s.y + 1) * Width <= Advance(p, ch) /\ (s.y + 1) * Width \in Nat
      <4>1. (s.y + 1) * Width <= p + Width - (p % Width)
        BY <1>1, <3>2, NewRowFacts
      <4>2. (s.y + 1) * Width \in Nat
        BY <2>4, ScreenSizes
      <4> QED
        BY <3>1, <4>1, <4>2
    <3>4. (s.y + 1) * Width <= MAX_SCREENSPACE
      BY <2>6, <3>1, <3>3, ScreenSizes
    <3>5. s.y + 1 < Height
      <4>1. s.y + 1 <= Height - 1
        BY <2>4, <3>4, RowOfPlace
      <4> QED
        BY <2>4, <4>1, ScreenSizes
    <3>6. PrintChar(s, ch) = [cell |-> s.cell, x |-> 0, y |-> s.y + 1, gone |-> s.gone]
      BY <2>2, <2>3, <2>5, <3>5
    <3>7. PrintChar(s, ch).gone = s.gone /\ Place(PrintChar(s, ch)) = (s.y + 1) * Width + 0
      BY <3>6 DEF Place
    <3> QED
      BY <3>3, <3>7
  <2> QED
    BY <2>2, <2>5, <2>6
<1>4. CASE ch = Tab
  <2>1. ch # Return /\ ch # NewLine
    BY <1>4 DEF NewLine, Return, Tab
  <2>2. PrintChar(s, ch) = Blanks(s, TabSize) /\ \A p \in Nat : Advance(p, ch) = p + TabSize
    BY <1>4, <2>1 DEF PrintChar, Advance
  <2>3. /\ Blanks(s, TabSize) \in Screens(Symbols)
        /\ Place(s) + TabSize <= MAX_SCREENSPACE =>
               Blanks(s, TabSize).gone = s.gone /\ Place(Blanks(s, TabSize)) = Place(s) + TabSize
    BY BlanksFacts, ScreenSizes
  <2>4. ASSUME NEW p \in Nat, Place(s) <= p, Advance(p, ch) <= MAX_SCREENSPACE
        PROVE  Place(s) + TabSize <= MAX_SCREENSPACE /\ Place(s) + TabSize <= Advance(p, ch)
    BY <1>1, <2>2, <2>4, ScreenSizes
  <2> QED
    BY <2>2, <2>3, <2>4
<1>5. CASE ch \notin {Return, NewLine, Tab}
  <2>1. PrintChar(s, ch) = PutcCore(s, ch) /\ \A p \in Nat : Advance(p, ch) = p + 1
    BY <1>5 DEF PrintChar, Advance
  <2>2. ASSUME NEW p \in Nat, Place(s) <= p, Advance(p, ch) <= MAX_SCREENSPACE
        PROVE  Place(s) + 1 <= MAX_SCREENSPACE /\ Place(s) + 1 <= Advance(p, ch)
    BY <1>1, <2>1, <2>2, ScreenSizes
  <2> QED
    BY <2>1, <2>2, PutcFacts
<1> QED
  BY <1>2, <1>3, <1>4, <1>5

(* Printing a text on a cleared screen keeps its first row as long as its  *)
(* characters are counted to fit a page.                                   *)
LEMMA PrintingFacts ==
    ASSUME NEW text \in Seq(Symbols), NEW p \in [0 .. Len(text) -> Nat], p[0] = 0,
           \A i \in 1 .. Len(text) : p[i] = Advance(p[i - 1], text[i]),
           \A i \in 1 .. Len(text) : text[i] = Return \/ p[i] <= MAX_SCREENSPACE
    PROVE  PrintText(Cleared, text) \in Screens(Symbols) /\ PrintText(Cleared, text).gone = 0
<1> DEFINE V == Screens(Symbols)
<1>1. PICK N \in Nat : N = Len(text)
  OBVIOUS
<1>2. \A i \in 1 .. N : text[i] \in Symbols
  BY <1>1, ElementOfSeq
<1>3. PICK step : step = [i \in 1 .. N |-> [q \in V |-> PrintChar(q, text[i])]]
  OBVIOUS
<1>4. step \in [1 .. N -> [V -> V]]
  BY <1>2, <1>3, PrintCharFacts
<1>5. Cleared \in V /\ Cleared.gone = 0 /\ Place(Cleared) = 0
  BY ClearedFacts
<1> HIDE DEF V
<1>6. PICK f \in [0 .. N -> V] : Follows(f, N, Cleared, step)
  BY <1>4, <1>5, RecursionExists
<1>7. \A i \in 1 .. N : f[i] = PrintChar(f[i - 1], text[i])
  <2> TAKE i \in 1 .. N
  <2>1. f[i] = step[i][f[i - 1]] /\ f[i - 1] \in V
    BY <1>6 DEF Follows
  <2> QED
    BY <1>3, <2>1
<1>8. f[0] = Cleared
  BY <1>6 DEF Follows
<1>9. f = [i \in 0 .. N |-> IF i = 0 THEN Cleared ELSE PrintChar(f[i - 1], text[i])]
  BY <1>6, <1>7, <1>8
<1>10. PICK g : /\ g = Printing(Cleared, text)
                /\ g = [i \in 0 .. N |-> IF i = 0 THEN Cleared ELSE PrintChar(g[i - 1], text[i])]
  <2>1. Printing(Cleared, text) = CHOOSE h : h = [i \in 0 .. N |-> IF i = 0 THEN Cleared ELSE PrintChar(h[i - 1], text[i])]
    BY <1>1 DEF Printing
  <2>2. \E h : h = [i \in 0 .. N |-> IF i = 0 THEN Cleared ELSE PrintChar(h[i - 1], text[i])]
    BY <1>9
  <2> QED
    BY <2>1, <2>2
<1>11. g[0] = Cleared /\ \A i \in 1 .. N : g[i] = PrintChar(g[i - 1], text[i])
  BY <1>1, <1>10
<1> DEFINE S == {i \in 0 .. N : /\ g[i] \in V /\ g[i].gone = 0
                                /\ p[i] <= MAX_SCREENSPACE /\ Place(g[i]) <= p[i]}
<1>12. 0 \in S
  BY <1>1, <1>5, <1>11, ScreenSizes
<1>13. \A i \in 0 .. N - 1 : i \in S => i + 1 \in S
  <2> TAKE i \in 0 .. N - 1
  <2> HAVE i \in S
  <2>1. i \in 0 .. N /\ i + 1 \in 1 .. N /\ i + 1 \in 0 .. N /\ (i + 1) - 1 = i /\ g[i] \in V
    BY <1>1
  <2>2. g[i + 1] = PrintChar(g[i], text[i + 1]) /\ text[i + 1] \in Symbols
    BY <1>2, <1>11, <2>1
  <2>3. p[i + 1] = Advance(p[i], text[i + 1]) /\ p[i] \in Nat /\ p[i + 1] \in Nat
    BY <1>1, <2>1
  <2>4. p[i + 1] <= MAX_SCREENSPACE
    <3>1. CASE text[i + 1] = Return
      <4>1. p[i + 1] = p[i]
        BY <2>3, <3>1, AdvanceFacts
      <4> QED
        BY <4>1
    <3>2. CASE text[i + 1] # Return
      BY <1>1, <2>1, <3>2
    <3> QED
      BY <3>1, <3>2
  <2>5. Place(g[i]) <= p[i] /\ g[i].gone = 0
    OBVIOUS
  <2>6. g[i + 1] \in V /\ g[i + 1].gone = 0 /\ Place(g[i + 1]) <= p[i + 1]
    BY <2>1, <2>2, <2>3, <2>4, <2>5, PrintCharFacts DEF V
  <2> QED
    BY <2>1, <2>4, <2>6
<1> HIDE DEF S
<1>14. N \in S
  <2>1. \A i \in 0 .. N : i \in S
    BY <1>1, <1>12, <1>13, IntervalInduction
  <2> QED
    BY <1>1, <2>1
<1> QED
  BY <1>1, <1>10, <1>14 DEF S, V, PrintText


-----------------------------------------------------------------------------
(* The pages of a log, and where they start.                               *)

RestOf(log, from) == SubSeq(log, from + 1, Len(log))
PageLengthOf(log, from) == PageFit(RestOf(log, from))
PageStartsOf(log, index) ==
    LET begins[i \in 0 .. index] ==
            IF i = 0 THEN 0 ELSE begins[i - 1] + PageLengthOf(log, begins[i - 1])
    IN  begins
PageStartOf(log, index) == PageStartsOf(log, index)[index]

LEMMA PagesOfLog ==
    /\ \A from : PageLength(from) = PageLengthOf(FlattenLogs, from)
    /\ \A index : PageStart(index) = PageStartOf(FlattenLogs, index)
    /\ \A from : PageLength(from)' = PageLengthOf(FlattenLogs', from)
    /\ \A index : PageStart(index)' = PageStartOf(FlattenLogs', index)
BY DEF PageLength, PageLengthOf, RestOf, PageFit, PageStart, PageStarts, PageStartOf, PageStartsOf

LEMMA RestFacts ==
    ASSUME NEW log \in Seq(Symbols), NEW from \in Nat
    PROVE  /\ RestOf(log, from) \in Seq(Symbols)
           /\ Len(RestOf(log, from)) = IF from + 1 <= Len(log) THEN Len(log) - from ELSE 0
           /\ \A i \in 1 .. Len(log) - from : RestOf(log, from)[i] = log[from + i]
<1>1. PICK N \in Nat : N = Len(log)
  OBVIOUS
<1>2. \A i \in 1 .. N : log[i] \in Symbols
  BY <1>1, ElementOfSeq
<1>3. from + 1 \in Int /\ \A i \in from + 1 .. N : log[i] \in Symbols
  BY <1>1, <1>2
<1>4. /\ SubSeq(log, from + 1, N) \in Seq(Symbols)
      /\ Len(SubSeq(log, from + 1, N)) = IF from + 1 <= N THEN N - (from + 1) + 1 ELSE 0
      /\ \A i \in 1 .. N - (from + 1) + 1 : SubSeq(log, from + 1, N)[i] = log[from + 1 + i - 1]
  <2>1. from + 1 \in Int /\ N \in Int /\ \A i \in from + 1 .. N : log[i] \in Symbols
    BY <1>1, <1>3
  <2> QED
    BY <2>1, SubSeqProperties
<1>5. N - (from + 1) + 1 = N - from /\ \A i \in 1 .. N - from : from + 1 + i - 1 = from + i
  BY <1>1
<1> QED
  BY <1>1, <1>4, <1>5 DEF RestOf

LEMMA PageLengthFacts ==
    ASSUME NEW log \in Seq(Symbols), NEW from \in Nat
    PROVE  /\ PageLengthOf(log, from) \in Nat
           /\ from <= Len(log) => from + PageLengthOf(log, from) <= Len(log)
           /\ from < Len(log) => PageLengthOf(log, from) > 0
<1>1. PICK N \in Nat : N = Len(log)
  OBVIOUS
<1>2. PICK M \in Nat : M = Len(RestOf(log, from)) /\ M = IF from + 1 <= N THEN N - from ELSE 0
  <2>1. RestOf(log, from) \in Seq(Symbols)
    BY RestFacts
  <2>2. Len(RestOf(log, from)) \in Nat
    BY <2>1
  <2>3. Len(RestOf(log, from)) = IF from + 1 <= N THEN N - from ELSE 0
    BY <1>1, RestFacts
  <2> QED
    BY <2>2, <2>3
<1>3. PageLengthOf(log, from) \in 0 .. M /\ (PageLengthOf(log, from) = 0 => M = 0)
  BY <1>2, RestFacts, FitFacts DEF PageLengthOf
<1> QED
  BY <1>1, <1>2, <1>3

(* A page printed on a cleared screen is still there, all of it.           *)
LEMMA PageIsWhole ==
    ASSUME NEW log \in Seq(Symbols), NEW from \in Nat, from <= Len(log)
    PROVE  PrintText(Cleared, SubSeq(log, from + 1, from + PageLengthOf(log, from))).gone = 0
<1> DEFINE rest == RestOf(log, from)
           text == SubSeq(log, from + 1, from + PageLengthOf(log, from))
           places == PlacesAfter(rest, 0)
<1>1. PICK N \in Nat : N = Len(log)
  OBVIOUS
<1>2. PICK k \in Nat : k = PageLengthOf(log, from) /\ from + k <= N
  BY <1>1, PageLengthFacts
<1>3. rest \in Seq(Symbols) /\ Len(rest) = N - from /\ \A i \in 1 .. N - from : rest[i] = log[from + i]
  <2>1. from <= N /\ (IF from + 1 <= N THEN N - from ELSE 0) = N - from
    BY <1>1
  <2> QED
    BY <1>1, <2>1, RestFacts
<1>4. text \in Seq(Symbols) /\ Len(text) = k /\ \A i \in 1 .. k : text[i] = log[from + i]
  <2>1. \A i \in 1 .. N : log[i] \in Symbols
    BY <1>1, ElementOfSeq
  <2>2. from + 1 \in Int /\ from + k \in Int /\ \A i \in from + 1 .. from + k : log[i] \in Symbols
    BY <1>2, <2>1
  <2>3. /\ SubSeq(log, from + 1, from + k) \in Seq(Symbols)
        /\ Len(SubSeq(log, from + 1, from + k))
               = IF from + 1 <= from + k THEN from + k - (from + 1) + 1 ELSE 0
        /\ \A i \in 1 .. from + k - (from + 1) + 1 :
               SubSeq(log, from + 1, from + k)[i] = log[from + 1 + i - 1]
    BY <2>2, SubSeqProperties
  <2>4. /\ from + k - (from + 1) + 1 = k /\ \A i \in 1 .. k : from + 1 + i - 1 = from + i
        /\ (IF from + 1 <= from + k THEN k ELSE 0) = k
    BY <1>2
  <2>5. text = SubSeq(log, from + 1, from + k)
    BY <1>2
  <2> HIDE DEF text
  <2> QED
    BY <2>3, <2>4, <2>5
<1>5. \A i \in 1 .. k : i \in 1 .. N - from /\ rest[i] = text[i]
  <2> HIDE DEF rest, text
  <2> TAKE i \in 1 .. k
  <2>1. i \in 1 .. N - from
    BY <1>1, <1>2
  <2> QED
    BY <1>3, <1>4, <2>1
<1>6. /\ places \in [0 .. N - from -> Nat] /\ places[0] = 0
      /\ \A i \in 1 .. N - from : places[i] = Advance(places[i - 1], rest[i])
  <2>1. 0 \in Nat
    OBVIOUS
  <2>2. /\ places \in [0 .. Len(rest) -> Nat] /\ places[0] = 0
        /\ \A i \in 1 .. Len(rest) : places[i] = Advance(places[i - 1], rest[i])
    <3> HIDE DEF rest
    <3> QED
      BY <1>3, <2>1, PlacesFacts
  <2> HIDE DEF rest, places
  <2> QED
    BY <1>3, <2>2
<1>7. \A i \in 1 .. k : rest[i] = Return \/ places[i] <= MAX_SCREENSPACE
  BY <1>2, <1>3, FitFacts DEF PageLengthOf
<1> HIDE DEF rest, text, places
<1>8. PICK p : p = [i \in 0 .. k |-> places[i]]
  OBVIOUS
<1>9. /\ p \in [0 .. k -> Nat] /\ p[0] = 0
      /\ \A i \in 1 .. k : p[i] = places[i] /\ p[i - 1] = places[i - 1]
  BY <1>1, <1>2, <1>6, <1>8
<1>10. \A i \in 1 .. k : p[i] = Advance(p[i - 1], text[i])
  BY <1>5, <1>6, <1>9
<1>11. \A i \in 1 .. k : text[i] = Return \/ p[i] <= MAX_SCREENSPACE
  BY <1>5, <1>7, <1>9
<1>12. PrintText(Cleared, text).gone = 0
  BY <1>4, <1>9, <1>10, <1>11, PrintingFacts
<1> QED
  BY <1>12 DEF text


LEMMA PageStartsFacts ==
    ASSUME NEW log \in Seq(Symbols), NEW n \in Nat
    PROVE  /\ PageStartsOf(log, n)[0] = 0
           /\ \A i \in 0 .. n : PageStartsOf(log, n)[i] \in Nat
           /\ \A i \in 1 .. n : PageStartsOf(log, n)[i]
                  = PageStartsOf(log, n)[i - 1] + PageLengthOf(log, PageStartsOf(log, n)[i - 1])
<1>1. PICK step : step = [i \in 1 .. n |-> [q \in Nat |-> q + PageLengthOf(log, q)]]
  OBVIOUS
<1>2. step \in [1 .. n -> [Nat -> Nat]]
  <2>1. \A q \in Nat : q + PageLengthOf(log, q) \in Nat
    BY PageLengthFacts
  <2> QED
    BY <1>1, <2>1
<1>3. PICK f \in [0 .. n -> Nat] : Follows(f, n, 0, step)
  BY <1>2, RecursionExists
<1>4. \A i \in 1 .. n : f[i] = f[i - 1] + PageLengthOf(log, f[i - 1])
  <2> TAKE i \in 1 .. n
  <2>1. f[i] = step[i][f[i - 1]] /\ f[i - 1] \in Nat
    BY <1>3 DEF Follows
  <2> QED
    BY <1>1, <2>1
<1>5. f[0] = 0
  BY <1>3 DEF Follows
<1>6. f = [i \in 0 .. n |-> IF i = 0 THEN 0 ELSE f[i - 1] + PageLengthOf(log, f[i - 1])]
  BY <1>3, <1>4, <1>5
<1>7. PICK g : /\ g = PageStartsOf(log, n)
               /\ g = [i \in 0 .. n |-> IF i = 0 THEN 0 ELSE g[i - 1] + PageLengthOf(log, g[i - 1])]
  <2>1. PageStartsOf(log, n) = CHOOSE h : h = [i \in 0 .. n |-> IF i = 0 THEN 0 ELSE h[i - 1] + PageLengthOf(log, h[i - 1])]
    BY DEF PageStartsOf
  <2>2. \E h : h = [i \in 0 .. n |-> IF i = 0 THEN 0 ELSE h[i - 1] + PageLengthOf(log, h[i - 1])]
    BY <1>6
  <2> QED
    BY <2>1, <2>2
<1>8. g[0] = 0 /\ \A i \in 1 .. n : g[i] = g[i - 1] + PageLengthOf(log, g[i - 1])
  <2>1. 0 \in 0 .. n /\ \A i \in 1 .. n : i \in 0 .. n /\ i # 0
    OBVIOUS
  <2>2. \A i \in 0 .. n : g[i] = IF i = 0 THEN 0 ELSE g[i - 1] + PageLengthOf(log, g[i - 1])
    BY <1>7, Zenon
  <2> QED
    BY <2>1, <2>2
<1> DEFINE S == {i \in 0 .. n : g[i] \in Nat}
<1>9. 0 \in S
  BY <1>8
<1>10. \A i \in 0 .. n - 1 : i \in S => i + 1 \in S
  <2> TAKE i \in 0 .. n - 1
  <2> HAVE i \in S
  <2>1. i + 1 \in 1 .. n /\ i + 1 \in 0 .. n /\ (i + 1) - 1 = i /\ g[i] \in Nat
    OBVIOUS
  <2>2. g[i + 1] = g[i] + PageLengthOf(log, g[i])
    BY <1>8, <2>1
  <2>3. PageLengthOf(log, g[i]) \in Nat
    BY <2>1, PageLengthFacts
  <2>4. g[i + 1] \in Nat
    BY <2>1, <2>2, <2>3
  <2> QED
    BY <2>1, <2>4
<1> HIDE DEF S
<1>11. \A i \in 0 .. n : i \in S
  BY <1>9, <1>10, IntervalInduction
<1> QED
  BY <1>7, <1>8, <1>11 DEF S

(* Each page starts where the one before it ends.                          *)
LEMMA PageStartFacts ==
    ASSUME NEW log \in Seq(Symbols), NEW n \in Nat
    PROVE  /\ PageStartOf(log, 0) = 0
           /\ PageStartOf(log, n) \in Nat
           /\ PageStartOf(log, n + 1) = PageStartOf(log, n) + PageLengthOf(log, PageStartOf(log, n))
<1>1. n + 1 \in Nat /\ n \in 0 .. n /\ n + 1 \in 1 .. n + 1 /\ (n + 1) - 1 = n /\ 0 \in Nat
  OBVIOUS
<1>2. PICK f : f = PageStartsOf(log, n)
  OBVIOUS
<1>3. PICK g : g = PageStartsOf(log, n + 1)
  OBVIOUS
<1>4. /\ f[0] = 0 /\ \A i \in 0 .. n : f[i] \in Nat
      /\ \A i \in 1 .. n : f[i] = f[i - 1] + PageLengthOf(log, f[i - 1])
  BY <1>2, PageStartsFacts
<1>5. g[0] = 0 /\ \A i \in 1 .. n + 1 : g[i] = g[i - 1] + PageLengthOf(log, g[i - 1])
  BY <1>1, <1>3, PageStartsFacts
<1> DEFINE S == {i \in 0 .. n : g[i] = f[i]}
<1>6. 0 \in S
  BY <1>4, <1>5
<1>7. \A i \in 0 .. n - 1 : i \in S => i + 1 \in S
  <2> TAKE i \in 0 .. n - 1
  <2> HAVE i \in S
  <2>1. /\ i + 1 \in 1 .. n /\ i + 1 \in 1 .. n + 1 /\ i + 1 \in 0 .. n /\ (i + 1) - 1 = i
        /\ g[i] = f[i]
    OBVIOUS
  <2>2. f[i + 1] = f[i] + PageLengthOf(log, f[i])
    BY <1>4, <2>1
  <2>3. g[i + 1] = g[i] + PageLengthOf(log, g[i])
    BY <1>5, <2>1
  <2>4. g[i + 1] = f[i + 1]
    BY <2>1, <2>2, <2>3
  <2> QED
    BY <2>1, <2>4
<1> HIDE DEF S
<1>8. n \in S
  BY <1>1, <1>6, <1>7, IntervalInduction
<1>9. g[n] = f[n]
  BY <1>8 DEF S
<1>10. g[n + 1] = g[n] + PageLengthOf(log, g[n])
  BY <1>1, <1>5
<1>11. PageStartOf(log, 0) = 0
  BY <1>1, PageStartsFacts DEF PageStartOf
<1>12. f[n] \in Nat
  BY <1>1, <1>4
<1> QED
  BY <1>2, <1>3, <1>9, <1>10, <1>11, <1>12 DEF PageStartOf

-----------------------------------------------------------------------------
(* The viewer.                                                             *)

(* The open page is page pageIndex of the log as it is, it starts inside   *)
(* the log, and its printing has scrolled nothing away.                    *)
PageOK == /\ pageIndex \in Nat
          /\ offset = PageStart(pageIndex)
          /\ chunk = PageLength(offset)
          /\ offset <= Len(FlattenLogs)
          /\ offset = Len(FlattenLogs) => Len(FlattenLogs) = 0
          /\ morePages <=> offset + chunk < Len(FlattenLogs)

ViewInv == (viewing => PageOK) /\ screen.gone = 0


LEMMA LogOfRing == ASSUME RingOK
                   PROVE  /\ FlattenLogs \in Seq(Symbols)
                          /\ Len(FlattenLogs) = IF isWrapped THEN SYSLOG_LENGTH ELSE writePtr
BY FlatFacts, FlattenIsFlat DEF RingOK, FlatLength, L

LEMMA RenderFacts ==
    ASSUME RingOK, UNCHANGED logVars, NEW i \in Nat, Render(i), pageIndex' = i,
           PageStart(i) <= Len(FlattenLogs),
           PageStart(i) = Len(FlattenLogs) => Len(FlattenLogs) = 0
    PROVE  PageOK' /\ screen'.gone = 0
<1>1. PICK log : log = FlattenLogs /\ log = FlattenLogs' /\ log \in Seq(Symbols)
  <2>1. FlattenLogs' = FlattenLogs
    BY SameLog DEF logVars
  <2> QED
    BY <2>1, LogOfRing
<1>2. PICK from : from = PageStart(i) /\ from = PageStartOf(log, i) /\ from \in Nat
  <2>1. PageStart(i) = PageStartOf(log, i) /\ PageStartOf(log, i) \in Nat
    BY <1>1, PagesOfLog, PageStartFacts
  <2> QED
    BY <2>1
<1>3. PICK k : k = PageLength(from) /\ k = PageLengthOf(log, from)
  BY <1>1, PagesOfLog
<1>4. from <= Len(log) /\ (from = Len(log) => Len(log) = 0)
  BY <1>1, <1>2
<1>5. /\ offset' = from /\ chunk' = k
      /\ screen' = PrintText(Cleared, SubSeq(log, from + 1, from + k))
  BY <1>1, <1>2, <1>3 DEF Render
<1>6. morePages' <=> from + k < Len(log)
  <2>1. morePages' = (from + k < IF isWrapped THEN SYSLOG_LENGTH ELSE writePtr)
    BY <1>2, <1>3 DEF Render
  <2>2. Len(log) = IF isWrapped THEN SYSLOG_LENGTH ELSE writePtr
    BY <1>1, LogOfRing
  <2> QED
    BY <2>1, <2>2
<1>7. screen'.gone = 0
  BY <1>1, <1>2, <1>3, <1>4, <1>5, PageIsWhole
<1>8. offset' = PageStart(pageIndex)'
  <2>1. PageStart(pageIndex)' = PageStartOf(log, i)
    BY <1>1, PagesOfLog
  <2> QED
    BY <1>2, <1>5, <2>1
<1>9. chunk' = PageLength(offset)'
  <2>1. PageLength(offset)' = PageLengthOf(log, from)
    BY <1>1, <1>5, PagesOfLog
  <2> QED
    BY <1>3, <1>5, <2>1
<1> QED
  BY <1>1, <1>4, <1>5, <1>6, <1>7, <1>8, <1>9 DEF PageOK

(* Where the open page, and its neighbours, begin and end.                 *)
LEMMA PageFacts ==
    ASSUME RingOK, PageOK
    PROVE  /\ pageIndex \in Nat /\ offset \in Nat /\ chunk \in Nat /\ Len(FlattenLogs) \in Nat
           /\ offset + chunk <= Len(FlattenLogs)
           /\ offset < Len(FlattenLogs) => chunk > 0
           /\ PageStart(pageIndex + 1) = offset + chunk
           /\ pageIndex > 0 => /\ PageStart(pageIndex - 1) \in Nat
                               /\ PageLength(PageStart(pageIndex - 1)) \in Nat
                               /\ offset = PageStart(pageIndex - 1) + PageLength(PageStart(pageIndex - 1))
<1>1. PICK log \in Seq(Symbols) : log = FlattenLogs
  BY LogOfRing
<1>2. PICK n \in Nat : n = pageIndex
  BY DEF PageOK
<1>3. offset = PageStartOf(log, n) /\ offset \in Nat
  BY <1>1, <1>2, PagesOfLog, PageStartFacts DEF PageOK
<1>4. chunk = PageLengthOf(log, offset)
  BY <1>1, PagesOfLog DEF PageOK
<1>5. /\ chunk \in Nat /\ offset + chunk <= Len(log) /\ (offset < Len(log) => chunk > 0)
  BY <1>1, <1>3, <1>4, PageLengthFacts DEF PageOK
<1>6. PageStart(n + 1) = offset + chunk
  BY <1>1, <1>3, <1>4, PagesOfLog, PageStartFacts
<1>7. ASSUME n > 0
      PROVE  /\ PageStart(n - 1) \in Nat /\ PageLength(PageStart(n - 1)) \in Nat
             /\ offset = PageStart(n - 1) + PageLength(PageStart(n - 1))
  <2>1. PICK m \in Nat : m = n - 1 /\ m + 1 = n
    BY <1>7
  <2>2. PICK from : from = PageStartOf(log, m) /\ from = PageStart(m) /\ from \in Nat
    BY <1>1, PagesOfLog, PageStartFacts
  <2>3. PageStartOf(log, n) = from + PageLengthOf(log, from)
    BY <2>1, <2>2, PageStartFacts
  <2>4. PageLength(from) = PageLengthOf(log, from) /\ PageLengthOf(log, from) \in Nat
    BY <1>1, <2>2, PagesOfLog, PageLengthFacts
  <2> QED
    BY <1>3, <2>1, <2>2, <2>3, <2>4
<1> QED
  BY <1>1, <1>2, <1>3, <1>5, <1>6, <1>7


LEMMA OpenKeeps == ASSUME RingOK, OpenSyslogs PROVE PageOK' /\ screen'.gone = 0
<1>1. PICK log \in Seq(Symbols) : log = FlattenLogs
  BY LogOfRing
<1>2. PageStart(0) = 0
  <2>1. 0 \in Nat
    OBVIOUS
  <2> QED
    BY <1>1, <2>1, PagesOfLog, PageStartFacts
<1>3. PageStart(0) <= Len(FlattenLogs) /\ (PageStart(0) = Len(FlattenLogs) => Len(FlattenLogs) = 0)
  BY <1>1, <1>2
<1>4. Render(0) /\ pageIndex' = 0 /\ UNCHANGED logVars /\ 0 \in Nat
  BY DEF OpenSyslogs
<1> QED
  BY <1>3, <1>4, RenderFacts

LEMMA DownKeeps ==
    ASSUME RingOK, ViewInv, DownArrow
    PROVE  PageOK' /\ screen'.gone = 0 /\ offset' = offset + chunk
<1>1. /\ PageOK /\ morePages /\ Render(pageIndex + 1) /\ UNCHANGED logVars
      /\ pageIndex' = pageIndex + 1
  BY DEF DownArrow, ViewInv
<1>2. /\ pageIndex \in Nat /\ offset \in Nat /\ chunk \in Nat /\ Len(FlattenLogs) \in Nat
      /\ PageStart(pageIndex + 1) = offset + chunk
  BY <1>1, PageFacts
<1>3. offset + chunk < Len(FlattenLogs)
  BY <1>1 DEF PageOK
<1>4. PICK i \in Nat : i = pageIndex + 1
  BY <1>2
<1>5. PageStart(i) <= Len(FlattenLogs) /\ PageStart(i) # Len(FlattenLogs)
  BY <1>2, <1>3, <1>4
<1>6. Render(i) /\ pageIndex' = i
  BY <1>1, <1>4
<1>7. offset' = PageStart(i)
  BY <1>6 DEF Render
<1> QED
  BY <1>1, <1>2, <1>4, <1>5, <1>6, <1>7, RenderFacts

LEMMA UpKeeps ==
    ASSUME RingOK, ViewInv, viewing, UpArrow
    PROVE  PageOK' /\ screen'.gone = 0 /\ offset = offset' + chunk'
<1>1. /\ PageOK /\ pageIndex > 0 /\ Render(pageIndex - 1) /\ UNCHANGED logVars
      /\ pageIndex' = pageIndex - 1
  BY DEF UpArrow, ViewInv
<1>2. /\ pageIndex \in Nat /\ offset \in Nat /\ Len(FlattenLogs) \in Nat
      /\ PageStart(pageIndex - 1) \in Nat /\ PageLength(PageStart(pageIndex - 1)) \in Nat
      /\ offset = PageStart(pageIndex - 1) + PageLength(PageStart(pageIndex - 1))
  BY <1>1, PageFacts
<1>3. offset <= Len(FlattenLogs) /\ (offset = Len(FlattenLogs) => Len(FlattenLogs) = 0)
  BY <1>1 DEF PageOK
<1>4. PICK i \in Nat : i = pageIndex - 1
  BY <1>1, <1>2
<1>5. PageStart(i) <= Len(FlattenLogs) /\ (PageStart(i) = Len(FlattenLogs) => Len(FlattenLogs) = 0)
  BY <1>2, <1>3, <1>4
<1>6. Render(i) /\ pageIndex' = i
  BY <1>1, <1>4
<1>7. offset' = PageStart(i) /\ chunk' = PageLength(PageStart(i))
  BY <1>6 DEF Render
<1> QED
  BY <1>1, <1>2, <1>4, <1>5, <1>6, <1>7, RenderFacts

LEMMA SameView ==
    ASSUME UNCHANGED <<logVars, viewVars>>
    PROVE  PageOK' <=> PageOK
<1>1. PICK log : log = FlattenLogs /\ log = FlattenLogs'
  BY SameLog DEF logVars
<1>2. PICK i, from : i = pageIndex /\ i = pageIndex' /\ from = offset /\ from = offset'
  BY DEF viewVars
<1>3. PageStart(pageIndex) = PageStartOf(log, i) /\ PageStart(pageIndex)' = PageStartOf(log, i)
  BY <1>1, <1>2, PagesOfLog
<1>4. PageLength(offset) = PageLengthOf(log, from) /\ PageLength(offset)' = PageLengthOf(log, from)
  BY <1>1, <1>2, PagesOfLog
<1>5. chunk' = chunk /\ (morePages' <=> morePages)
  BY DEF viewVars
<1> QED
  BY <1>1, <1>2, <1>3, <1>4, <1>5 DEF PageOK

(* Nothing is logged while the viewer is open; the other steps either show *)
(* a page anew or leave everything as it was.                              *)
LEMMA StepKeepsView == ASSUME RingOK, ViewInv, [Next]_vars PROVE ViewInv'
<1>1. ASSUME NEW portion \in Portions, KernelLog(portion) PROVE ViewInv'
  BY <1>1 DEF KernelLog, viewVars, ViewInv
<1>2. CASE OpenSyslogs
  BY <1>2, OpenKeeps DEF ViewInv
<1>3. CASE DownArrow
  BY <1>3, DownKeeps DEF ViewInv
<1>4. CASE UpArrow
  <2>1. viewing
    BY <1>4 DEF UpArrow
  <2> QED
    BY <1>4, <2>1, UpKeeps DEF ViewInv
<1>5. CASE EscapeKey
  BY <1>5 DEF EscapeKey, ViewInv, Cleared
<1>6. CASE UNCHANGED vars
  <2>1. UNCHANGED <<logVars, viewVars>> /\ (viewing' <=> viewing) /\ screen' = screen
    BY <1>6 DEF vars, logVars, viewVars
  <2> QED
    BY <2>1, SameView DEF ViewInv
<1> QED
  BY <1>1, <1>2, <1>3, <1>4, <1>5, <1>6 DEF Next

(* The open page is always the one its number stands for, in the log as it *)
(* is now.                                                                 *)
THEOREM AlwaysViewInv == Spec => [](RingOK /\ ViewInv)
<1>1. Init => RingOK /\ ViewInv
  BY InitRing DEF Init, ViewInv, Cleared
<1>2. RingOK /\ ViewInv /\ [Next]_vars => (RingOK /\ ViewInv)'
  BY StepKeepsTail, StepKeepsView
<1> QED
  BY <1>1, <1>2, PTL DEF Spec

(* The viewer ends exactly with the log, shows something on every page,    *)
(* and loses no row of a page to scrolling.                                *)
THEOREM AlwaysPagesAreWhole == Spec => []PagesAreWhole
<1>1. RingOK /\ ViewInv => PagesAreWhole
  <2> SUFFICES ASSUME RingOK, ViewInv PROVE PagesAreWhole
    OBVIOUS
  <2>1. ASSUME viewing
        PROVE  /\ morePages <=> offset + chunk # Len(FlattenLogs)
               /\ chunk = 0 => Len(FlattenLogs) = 0
    <3>1. PageOK
      BY <2>1 DEF ViewInv
    <3>2. /\ offset \in Nat /\ chunk \in Nat /\ Len(FlattenLogs) \in Nat
          /\ offset + chunk <= Len(FlattenLogs)
          /\ offset < Len(FlattenLogs) => chunk > 0
      BY <3>1, PageFacts
    <3>3. /\ offset <= Len(FlattenLogs) /\ (offset = Len(FlattenLogs) => Len(FlattenLogs) = 0)
          /\ morePages <=> offset + chunk < Len(FlattenLogs)
      BY <3>1 DEF PageOK
    <3>4. offset + chunk < Len(FlattenLogs) <=> offset + chunk # Len(FlattenLogs)
      BY <3>2
    <3>5. chunk = 0 => Len(FlattenLogs) = 0
      BY <3>2, <3>3
    <3> QED
      BY <3>3, <3>4, <3>5
  <2>2. screen.gone = 0
    BY DEF ViewInv
  <2> QED
    BY <2>1, <2>2 DEF PagesAreWhole
<1> QED
  BY <1>1, AlwaysViewInv, PTL

(* Each page continues where its neighbour ends.                           *)
THEOREM AlwaysPagesAdjoin == Spec => PagesAdjoin
<1> DEFINE Adjoin == \/ offset' = offset + chunk
                     \/ offset = offset' + chunk'
<1>1. ASSUME RingOK, ViewInv, [Next]_vars
      PROVE  [viewing /\ viewing' => Adjoin]_vars
  <2> SUFFICES ASSUME viewing, viewing', ~ UNCHANGED vars PROVE Adjoin
    OBVIOUS
  <2>1. CASE DownArrow
    BY <1>1, <2>1, DownKeeps
  <2>2. CASE UpArrow
    BY <1>1, <2>2, UpKeeps
  <2>3. ~ OpenSyslogs /\ ~ EscapeKey /\ \A portion \in Portions : ~ KernelLog(portion)
    BY DEF OpenSyslogs, EscapeKey, KernelLog
  <2> QED
    BY <1>1, <2>1, <2>2, <2>3 DEF Next
<1>2. RingOK /\ ViewInv /\ [Next]_vars => [viewing /\ viewing' => Adjoin]_vars
  BY <1>1
<1> QED
  BY <1>2, AlwaysViewInv, PTL DEF Spec, PagesAdjoin



-----------------------------------------------------------------------------
(* The console.  A tape holds everything that has been written, the rows   *)
(* scrolled away included; a screen shows the end of a tape.               *)

Inks == Characters \cup {Escape}
Typed == Glyphs \cup {Tab, Escape}
Tapes == [Nat -> Inks]

Painted(f, s) ==
    /\ \A r \in Rows, c \in Columns : s.cell[r][c] = f[(s.gone + r) * Width + c]
    /\ \A q \in Nat : q >= (s.gone + Height) * Width => f[q] = Blank

(* Nothing stands on the tape from a place on.                             *)
Bare(f, p) == \A q \in Nat : q >= p => f[q] = Blank

(* If t has scrolled since s, its cursor is in the last row.               *)
Rolls(s, t) == t.gone = s.gone \/ PlaceInAll(t) >= t.gone * Width + Width * (Height - 1)

LEMMA Sizes == Width \in Nat /\ Width >= 1 /\ Height \in Nat /\ Height >= 2 /\ TabSize \in Nat /\ TabSize >= 1
BY ScreenAssumption

LEMMA Parts ==
    ASSUME NEW p \in Nat
    PROVE  p \div Width \in Nat /\ p % Width \in Columns /\ p = (p \div Width) * Width + (p % Width)
<1>1. p \div Width \in Nat /\ p % Width \in 0 .. Width - 1 /\ p = Width * (p \div Width) + (p % Width)
  BY Sizes
<1>2. Width * (p \div Width) = (p \div Width) * Width
  BY <1>1, Sizes
<1> QED
  BY <1>1, <1>2 DEF Columns

LEMMA RowOrder ==
    ASSUME NEW r1 \in Nat, NEW r2 \in Nat, r1 < r2, NEW c \in Columns
    PROVE  r1 * Width + c < r2 * Width
<1>1. PICK d \in Nat : r2 = r1 + 1 + d
  <2>1. r2 - (r1 + 1) \in Nat /\ r2 = r1 + 1 + (r2 - (r1 + 1))
    OBVIOUS
  <2> QED
    BY <2>1
<1>2. r2 * Width = r1 * Width + Width + d * Width /\ d * Width \in Nat /\ r1 * Width \in Nat
  BY <1>1, Sizes
<1> QED
  BY <1>2, Sizes DEF Columns

LEMMA OnePlace ==
    ASSUME NEW r1 \in Nat, NEW r2 \in Nat, NEW c1 \in Columns, NEW c2 \in Columns,
           r1 * Width + c1 = r2 * Width + c2
    PROVE  r1 = r2 /\ c1 = c2
<1>0. r1 * Width \in Nat /\ r2 * Width \in Nat /\ c1 \in Nat /\ c2 \in Nat
  BY Sizes DEF Columns
<1>1. ~ (r1 < r2)
  <2> SUFFICES ASSUME r1 < r2 PROVE FALSE
    OBVIOUS
  <2>1. r1 * Width + c1 < r2 * Width
    BY RowOrder
  <2> QED
    BY <1>0, <2>1
<1>2. ~ (r2 < r1)
  <2> SUFFICES ASSUME r2 < r1 PROVE FALSE
    OBVIOUS
  <2>1. r2 * Width + c2 < r1 * Width
    BY RowOrder
  <2> QED
    BY <1>0, <2>1
<1>3. r1 = r2
  BY <1>1, <1>2
<1> QED
  BY <1>0, <1>3

LEMMA InkFields ==
    ASSUME NEW s \in Screens(Inks)
    PROVE  /\ s.cell \in [Rows -> [Columns -> Inks]] /\ s.x \in 0 .. Width /\ s.x \in Nat
           /\ s.y \in 0 .. Height - 1 /\ s.y \in Rows /\ s.y \in Nat /\ s.gone \in Nat
           /\ Place(s) \in Nat /\ PlaceInAll(s) \in Nat
           /\ Place(s) = s.y * Width + s.x /\ PlaceInAll(s) = s.gone * Width + Place(s)
           /\ PlaceInAll(s) = (s.gone + s.y) * Width + s.x
           /\ s.gone * Width \in Nat /\ s.y * Width \in Nat
           /\ s = [cell |-> s.cell, x |-> s.x, y |-> s.y, gone |-> s.gone]
<1>1. /\ s.cell \in [Rows -> [Columns -> Inks]] /\ s.x \in 0 .. Width
      /\ s.y \in 0 .. Height - 1 /\ s.gone \in Nat
      /\ s = [cell |-> s.cell, x |-> s.x, y |-> s.y, gone |-> s.gone]
  BY DEF Screens, Rows
<1>2. s.y \in Nat /\ s.x \in Nat /\ s.y \in Rows
  BY <1>1, Sizes DEF Rows
<1>3. s.y * Width \in Nat /\ s.gone * Width \in Nat /\ (s.gone + s.y) * Width = s.gone * Width + s.y * Width
  BY <1>1, <1>2, Sizes
<1>4. Place(s) = s.y * Width + s.x /\ PlaceInAll(s) = s.gone * Width + Place(s)
  BY DEF Place, PlaceInAll
<1>5. Place(s) \in Nat
  BY <1>2, <1>3, <1>4
<1>6. PlaceInAll(s) \in Nat
  BY <1>3, <1>4, <1>5
<1>7. PlaceInAll(s) = (s.gone + s.y) * Width + s.x
  BY <1>2, <1>3, <1>4
<1> QED
  BY <1>1, <1>2, <1>3, <1>4, <1>5, <1>6, <1>7


(* Scrolling shows the next row of the tape, and no other.                 *)
LEMMA ScrollOnTape ==
    ASSUME NEW cell \in [Rows -> [Columns -> Inks]], NEW x \in 0 .. Width,
           NEW y \in 0 .. Height, NEW gone \in Nat, NEW f \in Tapes, NEW s,
           s = [cell |-> cell, x |-> x, y |-> y, gone |-> gone], Painted(f, s)
    PROVE  /\ UpdateScroll(s) \in Screens(Inks)
           /\ UpdateScroll(s).x = x
           /\ Painted(f, UpdateScroll(s))
           /\ UpdateScroll(s).gone + UpdateScroll(s).y = gone + y
           /\ y < Height => UpdateScroll(s) = s
           /\ UpdateScroll(s).gone = gone \/ UpdateScroll(s).y = Height - 1
<1>1. CASE y < Height
  <2>1. y \in Rows
    BY <1>1, Sizes DEF Rows
  <2>2. s \in Screens(Inks)
    BY <2>1 DEF Screens
  <2>3. UpdateScroll(s) = s
    BY <1>1 DEF UpdateScroll
  <2> QED
    BY <2>2, <2>3
<1>2. CASE ~ (y < Height)
  <2> DEFINE up == [r \in Rows |-> IF r = Height - 1 THEN BlankRow ELSE s.cell[r + 1]]
  <2>1. BlankRow \in [Columns -> Inks]
    BY DEF BlankRow, Inks, Characters
  <2>2. up \in [Rows -> [Columns -> Inks]]
    <3>1. ASSUME NEW r \in Rows PROVE up[r] \in [Columns -> Inks]
      <4>1. CASE r = Height - 1
        BY <2>1, <4>1
      <4>2. CASE r # Height - 1
        <5>1. r + 1 \in Rows
          BY <4>2, Sizes DEF Rows
        <5> QED
          BY <4>2, <5>1
      <4> QED
        BY <4>1, <4>2
    <3> QED
      BY <3>1
  <2>3. UpdateScroll(s) = [cell |-> up, x |-> x, y |-> Height - 1, gone |-> gone + 1]
    BY <1>2 DEF UpdateScroll
  <2>4. Height - 1 \in Rows /\ gone + 1 \in Nat /\ y = Height
    BY <1>2, Sizes DEF Rows
  <2>5. PICK t : t = UpdateScroll(s)
    OBVIOUS
  <2>6. t.cell = up /\ t.x = x /\ t.y = Height - 1 /\ t.gone = gone + 1
    BY <2>3, <2>5
  <2>7. Painted(f, t)
    <3>1. \A r \in Rows, c \in Columns : cell[r][c] = f[(gone + r) * Width + c]
      BY DEF Painted
    <3>2. \A q \in Nat : q >= (gone + Height) * Width => f[q] = Blank
      BY DEF Painted
    <3>3. ASSUME NEW r \in Rows, NEW c \in Columns PROVE t.cell[r][c] = f[(t.gone + r) * Width + c]
      <4>1. CASE r = Height - 1
        <5>1. t.cell[r][c] = Blank
          BY <2>6, <4>1 DEF BlankRow
        <5>2. (gone + 1) + r = gone + Height
          BY <4>1, Sizes
        <5>3. (gone + Height) * Width \in Nat /\ c \in Nat
          BY Sizes DEF Columns
        <5>4. (gone + Height) * Width + c \in Nat /\ (gone + Height) * Width + c >= (gone + Height) * Width
          BY <5>3
        <5>5. f[(gone + Height) * Width + c] = Blank
          BY <3>2, <5>4
        <5> QED
          BY <2>6, <5>1, <5>2, <5>5
      <4>2. CASE r # Height - 1
        <5>1. r + 1 \in Rows /\ (gone + 1) + r = gone + (r + 1)
          BY <4>2, Sizes DEF Rows
        <5>2. t.cell[r][c] = cell[r + 1][c]
          BY <2>6, <4>2
        <5> QED
          BY <2>6, <3>1, <5>1, <5>2
      <4> QED
        BY <4>1, <4>2
    <3>4. ASSUME NEW q \in Nat, q >= (t.gone + Height) * Width PROVE f[q] = Blank
      <4>1. ((gone + 1) + Height) * Width = (gone + Height) * Width + Width
        BY Sizes
      <4>2. (gone + Height) * Width \in Nat
        BY Sizes
      <4>3. q >= (gone + Height) * Width + Width
        BY <2>6, <3>4, <4>1
      <4>4. q >= (gone + Height) * Width
        BY <4>2, <4>3, Sizes
      <4> QED
        BY <3>2, <4>4
    <3> QED
      BY <3>3, <3>4 DEF Painted
  <2>8. t \in Screens(Inks)
    <3> HIDE DEF up
    <3> QED
      BY <2>2, <2>3, <2>4, <2>5 DEF Screens
  <2>9. t.gone + t.y = gone + y
    BY <2>4, <2>6, Sizes
  <2> HIDE DEF up
  <2> QED
    BY <1>2, <2>5, <2>6, <2>7, <2>8, <2>9
<1> QED
  BY <1>1, <1>2

(* A character goes to the tape where the cursor stands.                   *)
LEMMA PutcOnTape ==
    ASSUME NEW s \in Screens(Inks), NEW ch \in Inks, NEW f \in Tapes, Painted(f, s)
    PROVE  /\ PutcCore(s, ch) \in Screens(Inks)
           /\ [f EXCEPT ![PlaceInAll(s)] = ch] \in Tapes
           /\ Painted([f EXCEPT ![PlaceInAll(s)] = ch], PutcCore(s, ch))
           /\ PlaceInAll(PutcCore(s, ch)) = PlaceInAll(s) + 1
           /\ Rolls(s, PutcCore(s, ch))
           /\ s.x < Width => PutcCore(s, ch).gone = s.gone
<1> DEFINE wide == s.x >= Width
           u == IF wide THEN [s EXCEPT !.x = 0, !.y = @ + 1] ELSE s
           t == UpdateScroll(u)
           v == PutcCore(s, ch)
<1>1. /\ s.cell \in [Rows -> [Columns -> Inks]] /\ s.x \in 0 .. Width /\ s.x \in Nat
      /\ s.y \in 0 .. Height - 1 /\ s.y \in Rows /\ s.y \in Nat /\ s.gone \in Nat
      /\ Place(s) \in Nat /\ PlaceInAll(s) \in Nat
      /\ PlaceInAll(s) = (s.gone + s.y) * Width + s.x
      /\ s = [cell |-> s.cell, x |-> s.x, y |-> s.y, gone |-> s.gone]
  BY InkFields
<1>2. PICK x, y : /\ x = (IF wide THEN 0 ELSE s.x)
                  /\ y = (IF wide THEN s.y + 1 ELSE s.y)
  OBVIOUS
<1>3. x \in 0 .. Width - 1 /\ y \in 0 .. Height /\ x \in 0 .. Width /\ y \in Nat /\ x \in Nat /\ x \in Columns
  BY <1>1, <1>2, Sizes DEF Columns
<1>4. u = [cell |-> s.cell, x |-> x, y |-> y, gone |-> s.gone]
  <2>1. CASE wide
    BY <1>1, <1>2, <2>1
  <2>2. CASE ~ wide
    BY <1>1, <1>2, <2>2
  <2> QED
    BY <2>1, <2>2
<1>5. (s.gone + y) * Width + x = PlaceInAll(s)
  <2>1. CASE wide
    <3>0. x = 0 /\ y = s.y + 1
      BY <1>2, <2>1
    <3>1. s.x = Width
      BY <1>1, <2>1, Sizes
    <3>2. (s.gone + (s.y + 1)) * Width = (s.gone + s.y) * Width + Width
      BY <1>1, Sizes
    <3>3. (s.gone + s.y) * Width \in Nat
      BY <1>1, Sizes
    <3> QED
      BY <1>1, <3>0, <3>1, <3>2, <3>3, Sizes
  <2>2. CASE ~ wide
    BY <1>1, <1>2, <2>2
  <2> QED
    BY <2>1, <2>2
<1>6. Painted(f, u)
  <2>1. u.cell = s.cell /\ u.gone = s.gone
    BY <1>4
  <2> QED
    BY <2>1 DEF Painted
<1> HIDE DEF u
<1>7. /\ t \in Screens(Inks) /\ t.x = x /\ Painted(f, t) /\ t.gone + t.y = s.gone + y
      /\ y < Height => t = u
      /\ t.gone = s.gone \/ t.y = Height - 1
  BY <1>1, <1>3, <1>4, <1>6, ScrollOnTape
<1> HIDE DEF t
<1>8. /\ t.cell \in [Rows -> [Columns -> Inks]] /\ t.y \in Rows /\ t.y \in Nat /\ t.gone \in Nat
      /\ t = [cell |-> t.cell, x |-> t.x, y |-> t.y, gone |-> t.gone]
  BY <1>7, InkFields
<1>9. v = [t EXCEPT !.cell[t.y][t.x] = ch, !.x = @ + 1]
  BY DEF PutcCore, t, u
<1> HIDE DEF v
<1> DEFINE cell == [t.cell EXCEPT ![t.y][t.x] = ch]
<1>10. cell \in [Rows -> [Columns -> Inks]]
  <2>1. t.cell[t.y] \in [Columns -> Inks]
    BY <1>8
  <2>2. [t.cell[t.y] EXCEPT ![t.x] = ch] \in [Columns -> Inks]
    BY <1>3, <1>7, <2>1
  <2>3. cell = [t.cell EXCEPT ![t.y] = [t.cell[t.y] EXCEPT ![t.x] = ch]]
    OBVIOUS
  <2> QED
    BY <1>8, <2>2, <2>3
<1>11. \A r \in Rows, c \in Columns : cell[r][c] = IF r = t.y /\ c = x THEN ch ELSE t.cell[r][c]
  <2> TAKE r \in Rows, c \in Columns
  <2>1. cell = [t.cell EXCEPT ![t.y] = [t.cell[t.y] EXCEPT ![x] = ch]]
    BY <1>7
  <2>2. t.cell[t.y] \in [Columns -> Inks] /\ t.cell[r] \in [Columns -> Inks]
    BY <1>8
  <2> HIDE DEF cell
  <2>3. cell[r] = IF r = t.y THEN [t.cell[t.y] EXCEPT ![x] = ch] ELSE t.cell[r]
    BY <1>8, <2>1
  <2>4. [t.cell[t.y] EXCEPT ![x] = ch][c] = IF c = x THEN ch ELSE t.cell[t.y][c]
    BY <1>3, <2>2
  <2> QED
    BY <2>3, <2>4
<1>12. v = [cell |-> cell, x |-> x + 1, y |-> t.y, gone |-> t.gone]
  BY <1>7, <1>8, <1>9
<1> HIDE DEF cell
<1>13. v.cell = cell /\ v.x = x + 1 /\ v.y = t.y /\ v.gone = t.gone
  BY <1>12
<1>14. v \in Screens(Inks)
  <2>1. x + 1 \in 0 .. Width
    BY <1>3, Sizes
  <2> QED
    BY <1>8, <1>10, <1>12, <2>1 DEF Screens
<1>15. (t.gone + t.y) * Width + x = PlaceInAll(s)
  BY <1>5, <1>7
<1>16. PlaceInAll(v) = PlaceInAll(s) + 1
  <2>1. PlaceInAll(v) = (t.gone + t.y) * Width + (x + 1)
    BY <1>13, <1>14, InkFields
  <2>2. (t.gone + t.y) * Width \in Nat
    BY <1>8, Sizes
  <2> QED
    BY <1>3, <1>15, <2>1, <2>2
<1>17. PICK g : g = [f EXCEPT ![PlaceInAll(s)] = ch]
  OBVIOUS
<1>18. /\ g \in Tapes /\ g[PlaceInAll(s)] = ch
       /\ \A q \in Nat : q # PlaceInAll(s) => g[q] = f[q]
  BY <1>1, <1>17 DEF Tapes
<1>19. Painted(g, v)
  <2>1. ASSUME NEW r \in Rows, NEW c \in Columns PROVE v.cell[r][c] = g[(v.gone + r) * Width + c]
    <3>1. t.cell[r][c] = f[(t.gone + r) * Width + c]
      BY <1>7 DEF Painted
    <3>2. t.gone + r \in Nat /\ t.gone + t.y \in Nat /\ r \in Nat
      BY <1>8, Sizes DEF Rows
    <3>3. (t.gone + r) * Width + c \in Nat
      <4>1. (t.gone + r) * Width \in Nat /\ c \in Nat
        BY <3>2, Sizes DEF Columns
      <4> QED
        BY <4>1
    <3>4. CASE r = t.y /\ c = x
      BY <1>11, <1>13, <1>15, <1>18, <3>4
    <3>5. CASE ~ (r = t.y /\ c = x)
      <4>1. (t.gone + r) * Width + c # PlaceInAll(s)
        <5> SUFFICES ASSUME (t.gone + r) * Width + c = (t.gone + t.y) * Width + x PROVE FALSE
          BY <1>15
        <5>1. t.gone + r = t.gone + t.y /\ c = x
          BY <1>3, <3>2, OnePlace
        <5>2. r = t.y
          BY <1>8, <3>2, <5>1
        <5> QED
          BY <3>5, <5>1, <5>2
      <4>2. cell[r][c] = t.cell[r][c]
        BY <1>11, <3>5
      <4> QED
        BY <1>13, <1>18, <3>1, <3>3, <4>1, <4>2
    <3> QED
      BY <3>4, <3>5
  <2>2. ASSUME NEW q \in Nat, q >= (v.gone + Height) * Width PROVE g[q] = Blank
    <3>1. f[q] = Blank
      BY <1>7, <1>13, <2>2 DEF Painted
    <3>2. PlaceInAll(s) < (t.gone + Height) * Width
      <4>1. t.gone + t.y \in Nat /\ t.gone + Height \in Nat /\ t.gone + t.y < t.gone + Height
        BY <1>8, Sizes DEF Rows
      <4> QED
        BY <1>3, <1>15, <4>1, RowOrder
    <3>3. (t.gone + Height) * Width \in Nat
      BY <1>8, Sizes
    <3>4. q # PlaceInAll(s)
      BY <1>1, <1>13, <2>2, <3>2, <3>3
    <3> QED
      BY <1>18, <3>1, <3>4
  <2> QED
    BY <2>1, <2>2 DEF Painted
<1>20. Rolls(s, v)
  <2>1. CASE t.gone = s.gone
    BY <1>13, <2>1 DEF Rolls
  <2>2. CASE t.y = Height - 1
    <3>1. PlaceInAll(v) = (v.gone + v.y) * Width + v.x /\ v.x \in Nat
      BY <1>14, InkFields
    <3>2. (v.gone + v.y) * Width = v.gone * Width + Width * (Height - 1)
      BY <1>8, <1>13, <2>2, Sizes
    <3>3. v.gone * Width \in Nat /\ Width * (Height - 1) \in Nat
      BY <1>8, <1>13, Sizes
    <3> QED
      BY <3>1, <3>2, <3>3 DEF Rolls
  <2> QED
    BY <1>7, <2>1, <2>2
<1>21. ASSUME s.x < Width PROVE v.gone = s.gone
  <2>1. ~ wide
    BY <1>1, <1>21, Sizes
  <2>2. y = s.y /\ y < Height
    BY <1>1, <1>2, <2>1, Sizes
  <2>3. u.gone = s.gone
    BY <1>4
  <2> QED
    BY <1>7, <1>13, <2>2, <2>3
<1> QED
  BY <1>14, <1>16, <1>17, <1>18, <1>19, <1>20, <1>21 DEF v


LEMMA RollsOn ==
    ASSUME NEW s \in Screens(Inks), NEW t \in Screens(Inks), NEW v \in Screens(Inks),
           Rolls(s, t), Rolls(t, v), PlaceInAll(t) <= PlaceInAll(v)
    PROVE  Rolls(s, v)
<1>1. PICK p \in Nat, q \in Nat : p = PlaceInAll(t) /\ q = PlaceInAll(v) /\ p <= q
  BY InkFields
<1>2. CASE v.gone = t.gone
  <2>1. CASE t.gone = s.gone
    BY <1>2, <2>1 DEF Rolls
  <2>2. CASE t.gone # s.gone
    <3>1. t.gone * Width + Width * (Height - 1) \in Nat
      <4>1. t.gone * Width \in Nat /\ Width * (Height - 1) \in Nat
        BY InkFields, Sizes
      <4> QED
        BY <4>1
    <3>2. p >= t.gone * Width + Width * (Height - 1)
      BY <1>1, <2>2 DEF Rolls
    <3>3. q >= t.gone * Width + Width * (Height - 1)
      BY <1>1, <3>1, <3>2
    <3> QED
      BY <1>1, <1>2, <3>3 DEF Rolls
  <2> QED
    BY <2>1, <2>2
<1>3. CASE v.gone # t.gone
  BY <1>3 DEF Rolls
<1> QED
  BY <1>2, <1>3

LEMMA BlankOnTape ==
    ASSUME NEW s \in Screens(Inks), NEW f \in Tapes, Painted(f, s), NEW p \in Nat, Bare(f, p),
           p <= PlaceInAll(s)
    PROVE  /\ PutcCore(s, Blank) \in Screens(Inks)
           /\ Painted(f, PutcCore(s, Blank))
           /\ PlaceInAll(PutcCore(s, Blank)) = PlaceInAll(s) + 1
           /\ Rolls(s, PutcCore(s, Blank))
<1>1. PlaceInAll(s) \in Nat
  BY InkFields
<1>2. f[PlaceInAll(s)] = Blank
  BY <1>1 DEF Bare
<1>3. [f EXCEPT ![PlaceInAll(s)] = Blank] = f
  BY <1>1, <1>2 DEF Tapes
<1>4. Blank \in Inks
  BY DEF Inks, Characters
<1>5. /\ PutcCore(s, Blank) \in Screens(Inks)
      /\ Painted([f EXCEPT ![PlaceInAll(s)] = Blank], PutcCore(s, Blank))
      /\ PlaceInAll(PutcCore(s, Blank)) = PlaceInAll(s) + 1
      /\ Rolls(s, PutcCore(s, Blank))
  BY <1>4, PutcOnTape
<1> QED
  BY <1>3, <1>5

LEMMA BlanksOnTape ==
    ASSUME NEW s \in Screens(Inks), NEW f \in Tapes, Painted(f, s), Bare(f, PlaceInAll(s)), NEW n \in Nat
    PROVE  /\ Blanks(s, n) \in Screens(Inks)
           /\ Painted(f, Blanks(s, n))
           /\ PlaceInAll(Blanks(s, n)) = PlaceInAll(s) + n
           /\ Rolls(s, Blanks(s, n))
<1> DEFINE V == {q \in Screens(Inks) : Painted(f, q) /\ PlaceInAll(s) <= PlaceInAll(q)}
<1>0. PlaceInAll(s) \in Nat
  BY InkFields
<1>1. ASSUME NEW q \in V
      PROVE  /\ PutcCore(q, Blank) \in V
             /\ PlaceInAll(PutcCore(q, Blank)) = PlaceInAll(q) + 1
             /\ Rolls(q, PutcCore(q, Blank))
  <2>1. q \in Screens(Inks) /\ Painted(f, q) /\ PlaceInAll(s) <= PlaceInAll(q)
    OBVIOUS
  <2>2. /\ PutcCore(q, Blank) \in Screens(Inks)
        /\ Painted(f, PutcCore(q, Blank))
        /\ PlaceInAll(PutcCore(q, Blank)) = PlaceInAll(q) + 1
        /\ Rolls(q, PutcCore(q, Blank))
    BY <1>0, <2>1, BlankOnTape
  <2>3. PlaceInAll(q) \in Nat
    BY <2>1, InkFields
  <2>4. PlaceInAll(s) <= PlaceInAll(PutcCore(q, Blank))
    BY <1>0, <2>1, <2>2, <2>3
  <2> QED
    BY <2>2, <2>4
<1>2. PICK step : step = [i \in 1 .. n |-> [q \in V |-> PutcCore(q, Blank)]]
  OBVIOUS
<1>3. s \in V
  BY <1>0
<1>4. \A q \in V : q \in Screens(Inks) /\ Painted(f, q)
  OBVIOUS
<1> HIDE DEF V
<1>5. step \in [1 .. n -> [V -> V]]
  BY <1>1, <1>2
<1>6. PICK g \in [0 .. n -> V] : Follows(g, n, s, step)
  BY <1>3, <1>5, RecursionExists
<1>7. \A i \in 1 .. n : g[i] = PutcCore(g[i - 1], Blank)
  <2> TAKE i \in 1 .. n
  <2>1. g[i] = step[i][g[i - 1]] /\ g[i - 1] \in V
    BY <1>6 DEF Follows
  <2> QED
    BY <1>2, <2>1
<1>8. g[0] = s
  BY <1>6 DEF Follows
<1>9. g = [i \in 0 .. n |-> IF i = 0 THEN s ELSE PutcCore(g[i - 1], Blank)]
  BY <1>6, <1>7, <1>8
<1>10. PICK h : /\ h[n] = Blanks(s, n)
                /\ h = [i \in 0 .. n |-> IF i = 0 THEN s ELSE PutcCore(h[i - 1], Blank)]
  BY <1>9 DEF Blanks
<1>11. h[0] = s /\ \A i \in 1 .. n : h[i] = PutcCore(h[i - 1], Blank)
  BY <1>10
<1> DEFINE S == {i \in 0 .. n : h[i] \in V /\ PlaceInAll(h[i]) = PlaceInAll(s) + i /\ Rolls(s, h[i])}
<1>12. 0 \in S
  <2>1. Rolls(s, s)
    BY DEF Rolls
  <2> QED
    BY <1>0, <1>3, <1>11, <2>1
<1>13. \A i \in 0 .. n - 1 : i \in S => i + 1 \in S
  <2> TAKE i \in 0 .. n - 1
  <2> HAVE i \in S
  <2>1. /\ i \in 0 .. n /\ i + 1 \in 1 .. n /\ i + 1 \in 0 .. n /\ (i + 1) - 1 = i
        /\ h[i] \in V /\ PlaceInAll(h[i]) = PlaceInAll(s) + i /\ Rolls(s, h[i])
    OBVIOUS
  <2>2. h[i + 1] = PutcCore(h[i], Blank)
    BY <1>11, <2>1
  <2>3. h[i + 1] \in V /\ PlaceInAll(h[i + 1]) = PlaceInAll(h[i]) + 1 /\ Rolls(h[i], h[i + 1])
    BY <1>1, <2>1, <2>2
  <2>4. PlaceInAll(h[i + 1]) = PlaceInAll(s) + (i + 1) /\ PlaceInAll(h[i]) <= PlaceInAll(h[i + 1])
    BY <1>0, <2>1, <2>3
  <2>5. Rolls(s, h[i + 1])
    BY <1>4, <2>1, <2>3, <2>4, RollsOn
  <2> QED
    BY <2>1, <2>3, <2>4, <2>5
<1> HIDE DEF S
<1>14. n \in S
  <2>1. \A i \in 0 .. n : i \in S
    BY <1>12, <1>13, IntervalInduction
  <2> QED
    BY <2>1
<1> QED
  BY <1>4, <1>10, <1>14 DEF S

-----------------------------------------------------------------------------
(* What a key leaves on the tape, and a text.                              *)

LEMMA CellsFacts ==
    ASSUME NEW ch \in Inks
    PROVE  /\ Cells(ch) \in Seq(Inks) /\ Len(Cells(ch)) \in 1 .. TabSize
           /\ ch = Tab => Len(Cells(ch)) = TabSize /\ \A i \in 1 .. TabSize : Cells(ch)[i] = Blank
           /\ ch # Tab => Len(Cells(ch)) = 1 /\ Cells(ch)[1] = ch
<1>1. CASE ch = Tab
  <2>1. Blank \in Inks
    BY DEF Inks, Characters
  <2>2. PICK w : w = [i \in 1 .. TabSize |-> Blank]
    OBVIOUS
  <2>3. w \in Seq(Inks) /\ Len(w) = TabSize /\ \A i \in 1 .. TabSize : w[i] = Blank
    BY <2>1, <2>2, Sizes
  <2>4. Cells(ch) = w
    BY <1>1, <2>2 DEF Cells
  <2> QED
    BY <1>1, <2>3, <2>4, Sizes
<1>2. CASE ch # Tab
  <2>1. Cells(ch) = <<ch>>
    BY <1>2 DEF Cells
  <2> QED
    BY <1>2, <2>1, Sizes
<1> QED
  BY <1>1, <1>2

LEMMA CharOnTape ==
    ASSUME NEW s \in Screens(Inks), NEW ch \in Inks, ch \notin {NewLine, Return},
           NEW f \in Tapes, Painted(f, s), Bare(f, PlaceInAll(s))
    PROVE  \E g \in Tapes :
               /\ PrintChar(s, ch) \in Screens(Inks)
               /\ Painted(g, PrintChar(s, ch))
               /\ PlaceInAll(PrintChar(s, ch)) = PlaceInAll(s) + Len(Cells(ch))
               /\ Bare(g, PlaceInAll(PrintChar(s, ch)))
               /\ Rolls(s, PrintChar(s, ch))
               /\ \A q \in Nat : q < PlaceInAll(s) => g[q] = f[q]
               /\ \A i \in 1 .. Len(Cells(ch)) : g[PlaceInAll(s) + i - 1] = Cells(ch)[i]
<1>1. PICK p \in Nat : p = PlaceInAll(s)
  BY InkFields
<1>2. CASE ch = Tab
  <2>1. PrintChar(s, ch) = Blanks(s, TabSize)
    BY <1>2 DEF PrintChar
  <2>2. PICK t : t = PrintChar(s, ch)
    OBVIOUS
  <2>3. t \in Screens(Inks) /\ Painted(f, t) /\ PlaceInAll(t) = p + TabSize /\ Rolls(s, t)
    BY <1>1, <2>1, <2>2, BlanksOnTape, Sizes
  <2>4. Len(Cells(ch)) = TabSize /\ \A i \in 1 .. TabSize : Cells(ch)[i] = Blank
    BY <1>2, CellsFacts
  <2>5. \A q \in Nat : q >= p => f[q] = Blank
    BY <1>1 DEF Bare
  <2>6. Bare(f, p + TabSize)
    BY <2>5, Sizes DEF Bare
  <2>7. \A i \in 1 .. TabSize : f[p + i - 1] = Blank
    <3> TAKE i \in 1 .. TabSize
    <3>1. p + i - 1 \in Nat /\ p + i - 1 >= p
      BY Sizes
    <3> QED
      BY <2>5, <3>1
  <2> QED
    BY <1>1, <2>2, <2>3, <2>4, <2>6, <2>7
<1>3. CASE ch # Tab
  <2>1. PrintChar(s, ch) = PutcCore(s, ch)
    BY <1>3 DEF PrintChar
  <2>2. PICK t, g : t = PrintChar(s, ch) /\ g = [f EXCEPT ![p] = ch]
    OBVIOUS
  <2>3. t \in Screens(Inks) /\ g \in Tapes /\ Painted(g, t) /\ PlaceInAll(t) = p + 1 /\ Rolls(s, t)
    BY <1>1, <2>1, <2>2, PutcOnTape
  <2>4. g[p] = ch /\ \A q \in Nat : q # p => g[q] = f[q]
    BY <2>2 DEF Tapes
  <2>5. Len(Cells(ch)) = 1 /\ Cells(ch)[1] = ch
    BY <1>3, CellsFacts
  <2>6. Bare(g, p + 1)
    <3> SUFFICES ASSUME NEW q \in Nat, q >= p + 1 PROVE g[q] = Blank
      BY DEF Bare
    <3>1. q # p /\ q >= p
      OBVIOUS
    <3>2. f[q] = Blank
      BY <1>1, <3>1 DEF Bare
    <3> QED
      BY <2>4, <3>1, <3>2
  <2>7. \A q \in Nat : q < p => g[q] = f[q]
    BY <2>4
  <2>8. \A i \in 1 .. 1 : g[p + i - 1] = Cells(ch)[i]
    BY <2>4, <2>5
  <2>9. PlaceInAll(t) = p + Len(Cells(ch)) /\ Bare(g, PlaceInAll(t))
    BY <2>3, <2>5, <2>6
  <2>10. \A i \in 1 .. Len(Cells(ch)) : g[p + i - 1] = Cells(ch)[i]
    BY <2>5, <2>8
  <2>11. t = PrintChar(s, ch)
    BY <2>2
  <2> HIDE DEF Inks, Tapes
  <2> QED
    BY <1>1, <2>3, <2>7, <2>9, <2>10, <2>11
<1> QED
  BY <1>2, <1>3


(* Screens with nothing behind the cursor.                                 *)
CleanScreens == {s \in Screens(Inks) : \E f \in Tapes : Painted(f, s) /\ Bare(f, PlaceInAll(s))}

LEMMA BareOn ==
    ASSUME NEW f \in Tapes, NEW p \in Nat, NEW q \in Nat, p <= q, Bare(f, p)
    PROVE  Bare(f, q)
BY DEF Bare

LEMMA NewLineIsClean ==
    ASSUME NEW s \in CleanScreens
    PROVE  PrintChar(s, NewLine) \in CleanScreens
<1>1. PICK f \in Tapes : s \in Screens(Inks) /\ Painted(f, s) /\ Bare(f, PlaceInAll(s))
  BY DEF CleanScreens
<1>2. /\ s.cell \in [Rows -> [Columns -> Inks]] /\ s.x \in 0 .. Width /\ s.x \in Nat
      /\ s.y \in 0 .. Height - 1 /\ s.y \in Nat /\ s.gone \in Nat /\ PlaceInAll(s) \in Nat
      /\ PlaceInAll(s) = (s.gone + s.y) * Width + s.x
      /\ s = [cell |-> s.cell, x |-> s.x, y |-> s.y, gone |-> s.gone]
  BY <1>1, InkFields
<1>3. PICK c, a, b, d : s = [cell |-> c, x |-> a, y |-> b, gone |-> d]
  BY <1>2
<1>4. s.cell = c /\ s.x = a /\ s.y = b /\ s.gone = d
  BY <1>3
<1>5. PICK u : u = [s EXCEPT !.x = 0, !.y = @ + 1]
  OBVIOUS
<1>6. PICK down : down = b + 1
  OBVIOUS
<1>7. u = [cell |-> c, x |-> 0, y |-> down, gone |-> d]
  <2>1. u = [s EXCEPT !.x = 0, !.y = down]
    BY <1>4, <1>5, <1>6
  <2> QED
    BY <1>3, <2>1
<1>8. Painted(f, u)
  <2>1. u.cell = s.cell /\ u.gone = s.gone
    BY <1>4, <1>7
  <2> QED
    BY <1>1, <2>1 DEF Painted
<1>9. 0 \in 0 .. Width /\ down \in 0 .. Height
  BY <1>2, <1>4, <1>6, Sizes
<1>10. PICK t : t = UpdateScroll(u)
  OBVIOUS
<1>11. t \in Screens(Inks) /\ t.x = 0 /\ Painted(f, t) /\ t.gone + t.y = d + down
  BY <1>2, <1>4, <1>7, <1>8, <1>9, <1>10, ScrollOnTape
<1>12. PrintChar(s, NewLine) = t
  <2>1. NewLine # Return /\ NewLine # Tab
    BY DEF NewLine, Return, Tab
  <2>2. PrintChar(s, NewLine) = UpdateScroll([s EXCEPT !.x = 0, !.y = @ + 1])
    BY <2>1 DEF PrintChar
  <2> QED
    BY <1>5, <1>10, <2>2
<1>13. PlaceInAll(t) >= PlaceInAll(s) /\ PlaceInAll(t) \in Nat
  <2>1. PlaceInAll(t) = (t.gone + t.y) * Width + t.x /\ PlaceInAll(t) \in Nat
    BY <1>11, InkFields
  <2>2. (s.gone + (s.y + 1)) * Width = (s.gone + s.y) * Width + Width /\ (s.gone + s.y) * Width \in Nat
    BY <1>2, Sizes
  <2>3. t.gone + t.y = s.gone + (s.y + 1)
    BY <1>4, <1>6, <1>11
  <2> QED
    BY <1>2, <1>11, <2>1, <2>2, <2>3, Sizes
<1>14. Bare(f, PlaceInAll(t))
  BY <1>1, <1>2, <1>13, BareOn
<1> QED
  BY <1>11, <1>12, <1>14 DEF CleanScreens

LEMMA PrintCharIsClean ==
    ASSUME NEW s \in CleanScreens, NEW ch \in Inks
    PROVE  PrintChar(s, ch) \in CleanScreens
<1>1. PICK f \in Tapes : s \in Screens(Inks) /\ Painted(f, s) /\ Bare(f, PlaceInAll(s))
  BY DEF CleanScreens
<1>2. CASE ch = Return
  <2>1. PrintChar(s, ch) = s
    BY <1>2 DEF PrintChar, NewLine, Return, Tab
  <2> QED
    BY <2>1
<1>3. CASE ch = NewLine
  BY <1>3, NewLineIsClean
<1>4. CASE ch \notin {NewLine, Return}
  <2>1. PICK g \in Tapes :
            /\ PrintChar(s, ch) \in Screens(Inks)
            /\ Painted(g, PrintChar(s, ch))
            /\ Bare(g, PlaceInAll(PrintChar(s, ch)))
    BY <1>1, <1>4, CharOnTape
  <2> QED
    BY <2>1 DEF CleanScreens
<1> QED
  BY <1>2, <1>3, <1>4

LEMMA PrintTextIsClean ==
    ASSUME NEW s \in CleanScreens, NEW text \in Seq(Inks)
    PROVE  PrintText(s, text) \in CleanScreens
<1>1. PICK N \in Nat : N = Len(text)
  OBVIOUS
<1>2. \A i \in 1 .. N : text[i] \in Inks
  BY <1>1, ElementOfSeq
<1>3. PICK step : step = [i \in 1 .. N |-> [q \in CleanScreens |-> PrintChar(q, text[i])]]
  OBVIOUS
<1>4. step \in [1 .. N -> [CleanScreens -> CleanScreens]]
  BY <1>2, <1>3, PrintCharIsClean
<1>5. PICK g \in [0 .. N -> CleanScreens] : Follows(g, N, s, step)
  BY <1>4, RecursionExists
<1>6. g[0] = s /\ \A i \in 1 .. N : g[i] = PrintChar(g[i - 1], text[i])
  <2>1. ASSUME NEW i \in 1 .. N PROVE g[i] = PrintChar(g[i - 1], text[i])
    <3>1. g[i] = step[i][g[i - 1]] /\ g[i - 1] \in CleanScreens
      BY <1>5 DEF Follows
    <3> QED
      BY <1>3, <3>1
  <2> QED
    BY <1>5, <2>1 DEF Follows
<1>7. g = [i \in 0 .. N |-> IF i = 0 THEN s ELSE PrintChar(g[i - 1], text[i])]
  BY <1>5, <1>6
<1>8. PICK h : /\ h = Printing(s, text)
               /\ h = [i \in 0 .. N |-> IF i = 0 THEN s ELSE PrintChar(h[i - 1], text[i])]
  <2>1. Printing(s, text) = CHOOSE k : k = [i \in 0 .. N |-> IF i = 0 THEN s ELSE PrintChar(k[i - 1], text[i])]
    BY <1>1 DEF Printing
  <2>2. \E k : k = [i \in 0 .. N |-> IF i = 0 THEN s ELSE PrintChar(k[i - 1], text[i])]
    BY <1>7
  <2> QED
    BY <2>1, <2>2
<1>9. h[0] = s /\ \A i \in 1 .. N : h[i] = PrintChar(h[i - 1], text[i])
  BY <1>1, <1>8
<1>10. \A i \in 1 .. N : h[i - 1] = g[i - 1] => h[i] = g[i]
  BY <1>6, <1>9
<1>11. h[N] = g[N]
  <2>1. h[0] = g[0]
    BY <1>6, <1>9
  <2>2. \A n \in 1 .. N : h[n - 1] = g[n - 1] => h[n] = g[n]
    BY <1>10
  <2> QED
    BY <2>1, <2>2, Alike
<1>12. g[N] \in CleanScreens /\ PrintText(s, text) = h[N]
  BY <1>1, <1>5, <1>8 DEF PrintText
<1> QED
  BY <1>11, <1>12

LEMMA PrintKey == ASSUME NEW s, NEW ch PROVE PrintText(s, <<ch>>) = PrintChar(s, ch)
<1>1. PICK g : g = [i \in 0 .. 1 |-> IF i = 0 THEN s ELSE PrintChar(s, ch)]
  OBVIOUS
<1>2. PICK text : text = <<ch>>
  OBVIOUS
<1>3. Len(text) = 1 /\ text[1] = ch
  BY <1>2
<1>4. g = [i \in 0 .. 1 |-> IF i = 0 THEN s ELSE PrintChar(g[i - 1], text[i])]
  BY <1>1, <1>3
<1>5. PICK h : /\ h = Printing(s, text)
               /\ h = [i \in 0 .. 1 |-> IF i = 0 THEN s ELSE PrintChar(h[i - 1], text[i])]
  <2>1. Printing(s, text) = CHOOSE k : k = [i \in 0 .. 1 |-> IF i = 0 THEN s ELSE PrintChar(k[i - 1], text[i])]
    BY <1>3 DEF Printing
  <2>2. \E k : k = [i \in 0 .. 1 |-> IF i = 0 THEN s ELSE PrintChar(k[i - 1], text[i])]
    BY <1>4
  <2> QED
    BY <2>1, <2>2
<1>6. h[0] = s /\ h[1] = PrintChar(s, ch)
  <2>1. h[0] = s
    BY <1>5
  <2>2. h[1] = PrintChar(h[0], ch)
    BY <1>3, <1>5
  <2> QED
    BY <2>1, <2>2
<1>7. PrintText(s, text) = h[1]
  BY <1>3, <1>5 DEF PrintText
<1> QED
  BY <1>2, <1>6, <1>7


-----------------------------------------------------------------------------
(* What an input takes on the screen.                                      *)

ShownOf(line) == FlattenSeq([i \in DOMAIN line |-> Cells(line[i])])

LEMMA TypedInks == Typed \subseteq Inks /\ Typed \cap {NewLine, Return} = {}
<1>1. Typed \subseteq Inks
  BY DEF Typed, Inks, Characters
<1>2. Tab \notin {NewLine, Return} /\ Escape \notin {NewLine, Return}
  BY DEF Tab, Escape, NewLine, Return
<1>3. Glyphs \cap {NewLine, Return} = {}
  BY ConsoleAssumption
<1> QED
  BY <1>1, <1>2, <1>3 DEF Typed

LEMMA CellsOfLine ==
    ASSUME NEW line \in Seq(Typed)
    PROVE  \E ws \in Seq(Seq(Inks)) : /\ ShownOf(line) = FlattenSeq(ws) /\ Len(ws) = Len(line)
                                      /\ \A i \in 1 .. Len(line) : ws[i] = Cells(line[i])
<1>1. PICK n \in Nat : n = Len(line) /\ DOMAIN line = 1 .. n
  OBVIOUS
<1>2. PICK ws : ws = [i \in 1 .. n |-> Cells(line[i])]
  OBVIOUS
<1>3. \A i \in 1 .. n : Cells(line[i]) \in Seq(Inks)
  <2> TAKE i \in 1 .. n
  <2>1. line[i] \in Inks
    BY <1>1, ElementOfSeq, TypedInks
  <2> QED
    BY <2>1, CellsFacts
<1>4. ws \in [1 .. n -> Seq(Inks)]
  BY <1>2, <1>3
<1>5. ws \in Seq(Seq(Inks)) /\ Len(ws) = n
  BY <1>4
<1>6. ShownOf(line) = FlattenSeq(ws)
  BY <1>1, <1>2 DEF ShownOf
<1> QED
  BY <1>1, <1>2, <1>5, <1>6

LEMMA ShownInks == ASSUME NEW line \in Seq(Typed) PROVE ShownOf(line) \in Seq(Inks)
<1>1. PICK ws \in Seq(Seq(Inks)) : ShownOf(line) = FlattenSeq(ws)
  BY CellsOfLine
<1>2. PICK g \in [0 .. Len(ws) -> Seq(Inks)] : g[Len(ws)] = FlattenSeq(ws)
  BY FlattenFacts
<1>3. Len(ws) \in 0 .. Len(ws)
  OBVIOUS
<1> QED
  BY <1>1, <1>2, <1>3

LEMMA ShownNothing == ShownOf(<<>>) = <<>>
<1>1. PICK none : none = <<>>
  OBVIOUS
<1>2. none \in Seq(Typed) /\ Len(none) = 0
  BY <1>1
<1>3. PICK ws \in Seq(Seq(Inks)) : ShownOf(none) = FlattenSeq(ws) /\ Len(ws) = 0
  BY <1>2, CellsOfLine
<1>4. PICK g \in [0 .. Len(ws) -> Seq(Inks)] : g[0] = <<>> /\ g[Len(ws)] = FlattenSeq(ws)
  BY FlattenFacts
<1> QED
  BY <1>1, <1>3, <1>4

LEMMA ShownAppend ==
    ASSUME NEW line \in Seq(Typed), NEW key \in Typed
    PROVE  ShownOf(Append(line, key)) = ShownOf(line) \o Cells(key)
<1>1. PICK n \in Nat : n = Len(line)
  OBVIOUS
<1>2. /\ Append(line, key) \in Seq(Typed) /\ Len(Append(line, key)) = Len(line) + 1
      /\ \A i \in 1 .. Len(line) : Append(line, key)[i] = line[i]
      /\ Append(line, key)[Len(line) + 1] = key
  BY AppendProperties
<1>3. PICK more \in Seq(Typed) :
          /\ more = Append(line, key) /\ Len(more) = n + 1 /\ more[n + 1] = key
          /\ \A i \in 1 .. n : more[i] = line[i]
  BY <1>1, <1>2
<1>4. PICK ws \in Seq(Seq(Inks)) : /\ ShownOf(line) = FlattenSeq(ws) /\ Len(ws) = n
                                   /\ \A i \in 1 .. n : ws[i] = Cells(line[i])
  BY <1>1, CellsOfLine
<1>5. PICK vs \in Seq(Seq(Inks)) : /\ ShownOf(more) = FlattenSeq(vs) /\ Len(vs) = n + 1
                                   /\ \A i \in 1 .. n + 1 : vs[i] = Cells(more[i])
  BY <1>3, CellsOfLine
<1>6. PICK g \in [0 .. Len(ws) -> Seq(Inks)] :
          /\ g[0] = <<>> /\ g[Len(ws)] = FlattenSeq(ws)
          /\ \A i \in 1 .. Len(ws) : g[i] = g[i - 1] \o ws[i]
  BY FlattenFacts
<1>7. PICK h \in [0 .. Len(vs) -> Seq(Inks)] :
          /\ h[0] = <<>> /\ h[Len(vs)] = FlattenSeq(vs)
          /\ \A i \in 1 .. Len(vs) : h[i] = h[i - 1] \o vs[i]
  BY FlattenFacts
<1>8. h[n] = g[n]
  <2>1. h[0] = g[0]
    BY <1>6, <1>7
  <2>2. \A i \in 1 .. n : h[i - 1] = g[i - 1] => h[i] = g[i]
    <3> TAKE i \in 1 .. n
    <3> HAVE h[i - 1] = g[i - 1]
    <3>1. i \in 1 .. n + 1
      OBVIOUS
    <3>2. vs[i] = ws[i]
      BY <1>3, <1>4, <1>5, <3>1
    <3>3. h[i] = h[i - 1] \o vs[i] /\ g[i] = g[i - 1] \o ws[i]
      BY <1>4, <1>5, <1>6, <1>7, <3>1
    <3> QED
      BY <3>2, <3>3
  <2> QED
    BY <2>1, <2>2, Alike
<1>9. h[n + 1] = h[n] \o vs[n + 1] /\ vs[n + 1] = Cells(key)
  <2>1. n + 1 \in 1 .. n + 1 /\ (n + 1) - 1 = n
    OBVIOUS
  <2>2. h[n + 1] = h[(n + 1) - 1] \o vs[n + 1]
    BY <1>5, <1>7, <2>1
  <2>3. vs[n + 1] = Cells(key)
    BY <1>3, <1>5, <2>1
  <2> QED
    BY <2>1, <2>2, <2>3
<1>10. ShownOf(line) = g[n] /\ ShownOf(more) = h[n + 1]
  BY <1>4, <1>5, <1>6, <1>7
<1> QED
  BY <1>3, <1>8, <1>9, <1>10

LEMMA ShownLength ==
    ASSUME NEW line \in Seq(Typed)
    PROVE  Len(ShownOf(line)) \in Nat /\ Len(ShownOf(line)) <= Len(line) * TabSize
<1> DEFINE S == {s \in Seq(Typed) : Len(ShownOf(s)) <= Len(s) * TabSize}
<1>1. <<>> \in S
  <2>1. PICK none : none = <<>>
    OBVIOUS
  <2>2. none \in Seq(Typed) /\ Len(none) = 0 /\ ShownOf(none) = none
    BY <2>1, ShownNothing
  <2>3. 0 <= 0 * TabSize
    BY Sizes
  <2>4. none \in S
    BY <2>2, <2>3
  <2> QED
    BY <2>1, <2>4
<1>2. \A s \in Seq(Typed) : \A a \in Typed : s \in S => Append(s, a) \in S
  <2> TAKE s \in Seq(Typed)
  <2> TAKE a \in Typed
  <2> HAVE s \in S
  <2>1. ShownOf(Append(s, a)) = ShownOf(s) \o Cells(a)
    BY ShownAppend
  <2>2. ShownOf(s) \in Seq(Inks) /\ Cells(a) \in Seq(Inks) /\ Len(Cells(a)) \in 1 .. TabSize
    BY ShownInks, CellsFacts, TypedInks
  <2>3. Len(ShownOf(s) \o Cells(a)) = Len(ShownOf(s)) + Len(Cells(a))
    BY <2>2, ConcatProperties
  <2>4. Append(s, a) \in Seq(Typed) /\ Len(Append(s, a)) = Len(s) + 1
    BY AppendProperties
  <2>5. PICK m \in Nat, k \in Nat, n \in Nat, j \in Nat :
            /\ m = Len(ShownOf(s)) /\ k = Len(Cells(a)) /\ n = Len(s) /\ j = n * TabSize
            /\ k <= TabSize /\ m <= j
    <3>1. Len(s) \in Nat /\ Len(ShownOf(s)) \in Nat /\ Len(Cells(a)) \in Nat /\ Len(Cells(a)) <= TabSize
      BY <2>2, Sizes
    <3>2. Len(s) * TabSize \in Nat
      BY <3>1, Sizes
    <3>3. Len(ShownOf(s)) <= Len(s) * TabSize
      OBVIOUS
    <3> HIDE DEF S
    <3> QED
      BY <3>1, <3>2, <3>3
  <2>6. (n + 1) * TabSize = j + TabSize
    BY <2>5, Sizes
  <2>7. m + k <= (n + 1) * TabSize
    BY <2>5, <2>6, Sizes
  <2>8. Len(ShownOf(Append(s, a))) = m + k /\ Len(Append(s, a)) = n + 1
    BY <2>1, <2>3, <2>4, <2>5
  <2> QED
    BY <2>4, <2>7, <2>8
<1> HIDE DEF S
<1>3. \A s \in Seq(Typed) : s \in S
  BY <1>1, <1>2, SequenceInduction
<1>4. Len(ShownOf(line)) \in Nat
  BY ShownInks
<1> QED
  BY <1>3, <1>4 DEF S


-----------------------------------------------------------------------------
(* Stepping back, and erasing.                                             *)

LEMMA SameCells ==
    ASSUME NEW f \in Tapes, NEW s, NEW t, Painted(f, s), t.cell = s.cell, t.gone = s.gone
    PROVE  Painted(f, t)
BY DEF Painted

LEMMA StepBackFacts ==
    ASSUME NEW s \in Screens(Inks), Place(s) >= 1
    PROVE  /\ StepBack(s) \in Screens(Inks)
           /\ StepBack(s).cell = s.cell /\ StepBack(s).gone = s.gone /\ StepBack(s).x < Width
           /\ Place(StepBack(s)) = Place(s) - 1
           /\ PlaceInAll(StepBack(s)) = PlaceInAll(s) - 1
<1>1. /\ s.cell \in [Rows -> [Columns -> Inks]] /\ s.x \in 0 .. Width /\ s.x \in Nat
      /\ s.y \in 0 .. Height - 1 /\ s.y \in Nat /\ s.gone \in Nat
      /\ Place(s) \in Nat /\ PlaceInAll(s) \in Nat
      /\ Place(s) = s.y * Width + s.x /\ PlaceInAll(s) = s.gone * Width + Place(s)
      /\ s.gone * Width \in Nat /\ s.y * Width \in Nat
      /\ s = [cell |-> s.cell, x |-> s.x, y |-> s.y, gone |-> s.gone]
  BY InkFields
<1>2. PICK x, y : /\ x = (IF s.x = 0 THEN Width - 1 ELSE s.x - 1)
                  /\ y = (IF s.x = 0 THEN s.y - 1 ELSE s.y)
  OBVIOUS
<1>3. PICK t : t = StepBack(s)
  OBVIOUS
<1>4. t = [cell |-> s.cell, x |-> x, y |-> y, gone |-> s.gone]
  <2>1. PICK c, a, b, d : s = [cell |-> c, x |-> a, y |-> b, gone |-> d]
    BY <1>1
  <2>2. s.cell = c /\ s.x = a /\ s.y = b /\ s.gone = d
    BY <2>1
  <2>3. CASE s.x = 0
    <3>1. t = [s EXCEPT !.x = x, !.y = y]
      BY <1>2, <1>3, <2>3 DEF StepBack
    <3> QED
      BY <2>1, <2>2, <3>1
  <2>4. CASE s.x # 0
    <3>1. t = [s EXCEPT !.x = x] /\ y = s.y
      BY <1>2, <1>3, <2>4 DEF StepBack
    <3> QED
      BY <2>1, <2>2, <3>1
  <2> QED
    BY <2>3, <2>4
<1>5. /\ x \in 0 .. Width /\ x < Width /\ y \in Rows /\ x \in Nat
      /\ y * Width + x = Place(s) - 1
  <2>1. CASE s.x = 0
    <3>1. x = Width - 1 /\ y = s.y - 1
      BY <1>2, <2>1
    <3>2. s.y # 0
      <4> SUFFICES ASSUME s.y = 0 PROVE FALSE
        OBVIOUS
      <4>1. s.y * Width = 0
        BY Sizes
      <4> QED
        BY <1>1, <2>1, <4>1
    <3>3. s.y - 1 \in Nat /\ (s.y - 1) * Width = s.y * Width - Width
      BY <1>1, <3>2, Sizes
    <3>4. y \in Rows
      <4>1. s.y - 1 \in 0 .. Height - 1
        BY <1>1, <3>2, Sizes
      <4> QED
        BY <3>1, <4>1 DEF Rows
    <3> QED
      BY <1>1, <2>1, <3>1, <3>3, <3>4, Sizes
  <2>2. CASE s.x # 0
    <3>1. x = s.x - 1 /\ y = s.y
      BY <1>2, <2>2
    <3>2. y \in Rows
      BY <1>1, <3>1 DEF Rows
    <3> QED
      BY <1>1, <2>2, <3>1, <3>2, Sizes
  <2> QED
    BY <2>1, <2>2
<1>6. t \in Screens(Inks)
  BY <1>1, <1>4, <1>5 DEF Screens
<1>7. t.cell = s.cell /\ t.gone = s.gone /\ t.x = x /\ t.y = y
  BY <1>4
<1>8. Place(t) = Place(s) - 1
  BY <1>5, <1>7 DEF Place
<1>9. PlaceInAll(t) = PlaceInAll(s) - 1
  <2>1. PlaceInAll(t) = t.gone * Width + Place(t)
    BY DEF PlaceInAll
  <2>2. PlaceInAll(t) = s.gone * Width + (Place(s) - 1)
    BY <1>7, <1>8, <2>1
  <2> QED
    BY <1>1, <2>2
<1> QED
  BY <1>3, <1>5, <1>6, <1>7, <1>8, <1>9

LEMMA StepsBackFacts ==
    ASSUME NEW s \in Screens(Inks), NEW n \in Nat, Place(s) >= n
    PROVE  /\ StepsBack(s, n) \in Screens(Inks)
           /\ StepsBack(s, n).cell = s.cell /\ StepsBack(s, n).gone = s.gone
           /\ PlaceInAll(StepsBack(s, n)) = PlaceInAll(s) - n
<1> DEFINE V == [cell : [Rows -> [Columns -> Inks]], x : Int, y : Int, gone : Nat]
<1>1. \A q \in V : StepBack(q) \in V
  <2> TAKE q \in V
  <2>1. CASE q.x = 0
    <3>1. StepBack(q) = [q EXCEPT !.x = Width - 1, !.y = q.y - 1]
      BY <2>1 DEF StepBack
    <3>2. Width - 1 \in Int /\ q.y - 1 \in Int
      BY Sizes
    <3> QED
      BY <3>1, <3>2
  <2>2. CASE q.x # 0
    <3>1. StepBack(q) = [q EXCEPT !.x = q.x - 1]
      BY <2>2 DEF StepBack
    <3>2. q.x - 1 \in Int
      OBVIOUS
    <3> QED
      BY <3>1, <3>2
  <2> QED
    BY <2>1, <2>2
<1>2. PICK step : step = [i \in 1 .. n |-> [q \in V |-> StepBack(q)]]
  OBVIOUS
<1>3. s \in V
  BY Sizes DEF Screens, Rows
<1>4. Place(s) \in Nat /\ PlaceInAll(s) \in Nat
  BY InkFields
<1> HIDE DEF V
<1>5. step \in [1 .. n -> [V -> V]]
  BY <1>1, <1>2
<1>6. PICK g \in [0 .. n -> V] : Follows(g, n, s, step)
  BY <1>3, <1>5, RecursionExists
<1>7. g[0] = s /\ \A i \in 1 .. n : g[i] = StepBack(g[i - 1])
  <2>1. ASSUME NEW i \in 1 .. n PROVE g[i] = StepBack(g[i - 1])
    <3>1. g[i] = step[i][g[i - 1]] /\ g[i - 1] \in V
      BY <1>6 DEF Follows
    <3> QED
      BY <1>2, <3>1
  <2> QED
    BY <1>6, <2>1 DEF Follows
<1>8. g = [i \in 0 .. n |-> IF i = 0 THEN s ELSE StepBack(g[i - 1])]
  BY <1>6, <1>7
<1>9. PICK h : /\ h[n] = StepsBack(s, n)
               /\ h = [i \in 0 .. n |-> IF i = 0 THEN s ELSE StepBack(h[i - 1])]
  BY <1>8 DEF StepsBack
<1>10. h[0] = s /\ \A i \in 1 .. n : h[i] = StepBack(h[i - 1])
  BY <1>9
<1> DEFINE S == {i \in 0 .. n : /\ h[i] \in Screens(Inks) /\ h[i].cell = s.cell /\ h[i].gone = s.gone
                                /\ Place(h[i]) = Place(s) - i /\ PlaceInAll(h[i]) = PlaceInAll(s) - i}
<1>11. 0 \in S
  BY <1>4, <1>10
<1>12. \A i \in 0 .. n - 1 : i \in S => i + 1 \in S
  <2> TAKE i \in 0 .. n - 1
  <2> HAVE i \in S
  <2>1. /\ i \in 0 .. n /\ i + 1 \in 1 .. n /\ i + 1 \in 0 .. n /\ (i + 1) - 1 = i
        /\ h[i] \in Screens(Inks) /\ h[i].cell = s.cell /\ h[i].gone = s.gone
        /\ Place(h[i]) = Place(s) - i /\ PlaceInAll(h[i]) = PlaceInAll(s) - i
    OBVIOUS
  <2>2. h[i + 1] = StepBack(h[i])
    BY <1>10, <2>1
  <2>3. Place(h[i]) >= 1
    BY <1>4, <2>1
  <2>4. /\ h[i + 1] \in Screens(Inks) /\ h[i + 1].cell = s.cell /\ h[i + 1].gone = s.gone
        /\ Place(h[i + 1]) = Place(h[i]) - 1 /\ PlaceInAll(h[i + 1]) = PlaceInAll(h[i]) - 1
    BY <2>1, <2>2, <2>3, StepBackFacts
  <2>5. Place(h[i + 1]) = Place(s) - (i + 1) /\ PlaceInAll(h[i + 1]) = PlaceInAll(s) - (i + 1)
    BY <1>4, <2>1, <2>4
  <2> QED
    BY <2>1, <2>4, <2>5
<1> HIDE DEF S
<1>13. n \in S
  <2>1. \A i \in 0 .. n : i \in S
    BY <1>11, <1>12, IntervalInduction
  <2> QED
    BY <2>1
<1> QED
  BY <1>9, <1>13 DEF S

-----------------------------------------------------------------------------
(* A line being typed: it stands on the tape from its start to the cursor. *)

Spells(f, from, text) == \A i \in 1 .. Len(text) : f[from + i - 1] = text[i]

Echo(v, line, from) ==
    /\ v \in Screens(Inks) /\ line \in Seq(Typed) /\ Len(line) <= InputMaxChars
    /\ from \in Nat /\ v.gone * Width <= from
    /\ PlaceInAll(v) = from + Len(ShownOf(line))
    /\ \E f \in Tapes : Painted(f, v) /\ Bare(f, PlaceInAll(v)) /\ Spells(f, from, ShownOf(line))

LEMMA ShownParts ==
    ASSUME NEW line \in Seq(Typed), NEW key \in Typed
    PROVE  \E m \in Nat, k \in Nat, more \in Seq(Inks) :
               /\ m = Len(ShownOf(line)) /\ k = Len(Cells(key))
               /\ more = ShownOf(Append(line, key)) /\ Len(more) = m + k
               /\ \A i \in 1 .. m : more[i] = ShownOf(line)[i]
               /\ \A i \in m + 1 .. m + k : more[i] = Cells(key)[i - m]
<1>1. ShownOf(line) \in Seq(Inks) /\ Cells(key) \in Seq(Inks)
  BY ShownInks, CellsFacts, TypedInks
<1>2. PICK m \in Nat, k \in Nat : m = Len(ShownOf(line)) /\ k = Len(Cells(key))
  BY <1>1
<1>3. PICK more \in Seq(Inks) :
          /\ more = ShownOf(Append(line, key)) /\ Len(more) = m + k
          /\ \A i \in 1 .. m : more[i] = ShownOf(line)[i]
          /\ \A i \in m + 1 .. m + k : more[i] = Cells(key)[i - m]
  <2>1. ShownOf(Append(line, key)) = ShownOf(line) \o Cells(key)
    BY ShownAppend
  <2>2. /\ ShownOf(line) \o Cells(key) \in Seq(Inks)
        /\ Len(ShownOf(line) \o Cells(key)) = Len(ShownOf(line)) + Len(Cells(key))
        /\ \A i \in 1 .. Len(ShownOf(line)) + Len(Cells(key)) :
               (ShownOf(line) \o Cells(key))[i] =
                   IF i <= Len(ShownOf(line)) THEN ShownOf(line)[i] ELSE Cells(key)[i - Len(ShownOf(line))]
    BY <1>1, ConcatProperties
  <2>3. PICK more \in Seq(Inks) :
            /\ more = ShownOf(Append(line, key)) /\ Len(more) = m + k
            /\ \A i \in 1 .. m + k : more[i] = IF i <= m THEN ShownOf(line)[i] ELSE Cells(key)[i - m]
    BY <1>2, <2>1, <2>2
  <2>4. \A i \in 1 .. m : more[i] = ShownOf(line)[i]
    <3> TAKE i \in 1 .. m
    <3>1. i \in 1 .. m + k /\ i <= m
      OBVIOUS
    <3> QED
      BY <2>3, <3>1
  <2>5. \A i \in m + 1 .. m + k : more[i] = Cells(key)[i - m]
    <3> TAKE i \in m + 1 .. m + k
    <3>1. i \in 1 .. m + k /\ ~ (i <= m)
      OBVIOUS
    <3> QED
      BY <2>3, <3>1
  <2> QED
    BY <2>3, <2>4, <2>5
<1> QED
  BY <1>2, <1>3

LEMMA EchoTyped ==
    ASSUME NEW v, NEW line, NEW from, Echo(v, line, from), NEW key \in Typed, Len(line) < InputMaxChars
    PROVE  Echo(PrintChar(v, key), Append(line, key), from)
<1>1. /\ v \in Screens(Inks) /\ line \in Seq(Typed) /\ from \in Nat /\ v.gone * Width <= from
      /\ PlaceInAll(v) = from + Len(ShownOf(line))
  BY DEF Echo
<1>2. PICK f \in Tapes : Painted(f, v) /\ Bare(f, PlaceInAll(v)) /\ Spells(f, from, ShownOf(line))
  BY DEF Echo
<1>3. key \in Inks /\ key \notin {NewLine, Return}
  BY TypedInks
<1>4. PICK g \in Tapes :
          /\ PrintChar(v, key) \in Screens(Inks)
          /\ Painted(g, PrintChar(v, key))
          /\ PlaceInAll(PrintChar(v, key)) = PlaceInAll(v) + Len(Cells(key))
          /\ Bare(g, PlaceInAll(PrintChar(v, key)))
          /\ Rolls(v, PrintChar(v, key))
          /\ \A q \in Nat : q < PlaceInAll(v) => g[q] = f[q]
          /\ \A i \in 1 .. Len(Cells(key)) : g[PlaceInAll(v) + i - 1] = Cells(key)[i]
  BY <1>1, <1>2, <1>3, CharOnTape
<1>5. PICK t : t = PrintChar(v, key)
  OBVIOUS
<1>6. PICK m \in Nat, k \in Nat, more \in Seq(Inks) :
          /\ m = Len(ShownOf(line)) /\ k = Len(Cells(key))
          /\ more = ShownOf(Append(line, key)) /\ Len(more) = m + k
          /\ \A i \in 1 .. m : more[i] = ShownOf(line)[i]
          /\ \A i \in m + 1 .. m + k : more[i] = Cells(key)[i - m]
  BY <1>1, ShownParts
<1>7. m = Len(ShownOf(line)) /\ k = Len(Cells(key))
  BY <1>6
<1>8. /\ more = ShownOf(Append(line, key)) /\ Len(more) = m + k
      /\ \A i \in 1 .. m : more[i] = ShownOf(line)[i]
      /\ \A i \in m + 1 .. m + k : more[i] = Cells(key)[i - m]
  BY <1>6
<1>9. PlaceInAll(v) = from + m /\ PlaceInAll(t) = from + (m + k)
  BY <1>1, <1>4, <1>5, <1>7
<1>10. Spells(g, from, more)
  <2>1. ASSUME NEW i \in 1 .. m + k PROVE g[from + i - 1] = more[i]
    <3>1. CASE i <= m
      <4>1. i \in 1 .. m /\ from + i - 1 \in Nat /\ from + i - 1 < from + m
        BY <1>1, <3>1
      <4>2. f[from + i - 1] = ShownOf(line)[i]
        BY <1>2, <1>7, <4>1 DEF Spells
      <4> QED
        BY <1>4, <1>8, <1>9, <4>1, <4>2
    <3>2. CASE i > m
      <4>1. i - m \in 1 .. k /\ i \in m + 1 .. m + k /\ from + m + (i - m) - 1 = from + i - 1
        BY <1>1, <3>2
      <4>2. g[from + m + (i - m) - 1] = Cells(key)[i - m]
        BY <1>4, <1>7, <1>9, <4>1
      <4> QED
        BY <1>8, <4>1, <4>2
    <3> QED
      BY <3>1, <3>2
  <2> QED
    BY <1>8, <2>1 DEF Spells
<1>11. /\ Append(line, key) \in Seq(Typed) /\ Len(Append(line, key)) = Len(line) + 1
       /\ Len(line) \in Nat
  BY <1>1, AppendProperties
<1>12. Len(Append(line, key)) <= InputMaxChars
  BY <1>11, ConsoleAssumption
<1>13. t.gone * Width <= from
  <2>1. CASE t.gone = v.gone
    BY <1>1, <2>1
  <2>2. CASE t.gone # v.gone
    <3>1. PlaceInAll(t) >= t.gone * Width + Width * (Height - 1)
      BY <1>4, <1>5, <2>2 DEF Rolls
    <3>2. m + k <= Width * (Height - 1)
      <4>1. Len(ShownOf(Append(line, key))) <= Len(Append(line, key)) * TabSize
        BY <1>11, ShownLength
      <4>2. PICK n \in Nat, d \in Nat : n = Len(Append(line, key)) /\ InputMaxChars = n + d
        <5>1. Len(Append(line, key)) \in Nat /\ InputMaxChars - Len(Append(line, key)) \in Nat
          BY <1>11, <1>12, ConsoleAssumption
        <5>2. InputMaxChars = Len(Append(line, key)) + (InputMaxChars - Len(Append(line, key)))
          BY <5>1, ConsoleAssumption
        <5> QED
          BY <5>1, <5>2
      <4>3. InputMaxChars * TabSize = n * TabSize + d * TabSize /\ d * TabSize \in Nat /\ n * TabSize \in Nat
        BY <4>2, Sizes
      <4>4. Width * (Height - 1) \in Nat /\ InputMaxChars * TabSize <= Width * (Height - 1)
        BY Sizes, ConsoleAssumption
      <4>5. m + k <= n * TabSize
        BY <1>8, <4>1, <4>2
      <4> QED
        BY <4>3, <4>4, <4>5
    <3>3. t.gone * Width \in Nat /\ Width * (Height - 1) \in Nat
      <4>1. t \in Screens(Inks)
        BY <1>4, <1>5
      <4>2. t.gone * Width \in Nat
        BY <4>1, InkFields
      <4> QED
        BY <4>2, Sizes
    <3> QED
      BY <1>1, <1>9, <3>1, <3>2, <3>3
  <2> QED
    BY <2>1, <2>2
<1>14. t \in Screens(Inks) /\ Painted(g, t) /\ Bare(g, PlaceInAll(t))
  BY <1>4, <1>5
<1>15. Spells(g, from, ShownOf(Append(line, key))) /\ PlaceInAll(t) = from + Len(ShownOf(Append(line, key)))
  BY <1>8, <1>9, <1>10
<1>16. Echo(t, Append(line, key), from)
  BY <1>1, <1>11, <1>12, <1>13, <1>14, <1>15 DEF Echo
<1> QED
  BY <1>5, <1>16


LEMMA EchoErased ==
    ASSUME NEW v, NEW line, NEW from, Echo(v, line, from), line # <<>>
    PROVE  Echo(Erase(v, Last(line)), SubSeq(line, 1, Len(line) - 1), from)
<1>1. /\ v \in Screens(Inks) /\ line \in Seq(Typed) /\ Len(line) <= InputMaxChars
      /\ from \in Nat /\ v.gone * Width <= from
      /\ PlaceInAll(v) = from + Len(ShownOf(line))
  BY DEF Echo
<1>2. PICK f \in Tapes : Painted(f, v) /\ Bare(f, PlaceInAll(v)) /\ Spells(f, from, ShownOf(line))
  BY DEF Echo
<1>3. PICK front \in Seq(Typed), key \in Typed : line = Append(front, key)
  BY <1>1, SequenceEmptyOrAppend
<1>4. Last(line) = key /\ SubSeq(line, 1, Len(line) - 1) = front /\ Len(line) = Len(front) + 1
  <2>1. Front(line) = front /\ Last(line) = key /\ Len(line) = Len(front) + 1
    BY <1>3, FrontLast
  <2>2. Front(line) = SubSeq(line, 1, Len(line) - 1)
    BY DEF Front
  <2> QED
    BY <2>1, <2>2
<1>5. PICK m \in Nat, k \in Nat, more \in Seq(Inks) :
          /\ m = Len(ShownOf(front)) /\ k = Len(Cells(key))
          /\ more = ShownOf(line) /\ Len(more) = m + k
          /\ \A i \in 1 .. m : more[i] = ShownOf(front)[i]
          /\ \A i \in m + 1 .. m + k : more[i] = Cells(key)[i - m]
  BY <1>3, ShownParts
<1>6. PICK p \in Nat : p = PlaceInAll(v) /\ p = from + m + k
  <2>1. PICK p \in Nat : p = PlaceInAll(v)
    BY <1>1, InkFields
  <2>2. p = from + Len(more)
    BY <1>1, <1>5, <2>1
  <2>3. p = from + m + k
    BY <1>1, <1>5, <2>2
  <2> QED
    BY <2>1, <2>3
<1>7. Place(v) \in Nat /\ v.gone * Width \in Nat /\ p = v.gone * Width + Place(v)
  BY <1>1, <1>6, InkFields
<1>8. Place(v) >= k
  BY <1>1, <1>6, <1>7
<1>9. PICK t : t = Erase(v, key)
  OBVIOUS
<1>10. \A i \in 1 .. m : f[from + i - 1] = ShownOf(front)[i]
  <2> TAKE i \in 1 .. m
  <2>1. i \in 1 .. m + k
    OBVIOUS
  <2>2. f[from + i - 1] = more[i]
    BY <1>2, <1>5, <2>1 DEF Spells
  <2> QED
    BY <1>5, <2>2
<1>11. \E g \in Tapes : /\ t \in Screens(Inks) /\ t.gone = v.gone /\ PlaceInAll(t) = from + m
                        /\ Painted(g, t) /\ Bare(g, PlaceInAll(t)) /\ Spells(g, from, ShownOf(front))
  <2>1. CASE key = Tab
    <3>1. t = StepsBack(v, TabSize)
      BY <1>9, <2>1 DEF Erase
    <3>2. k = TabSize /\ \A i \in 1 .. TabSize : Cells(key)[i] = Blank
      BY <1>5, <2>1, CellsFacts, TypedInks
    <3>3. t \in Screens(Inks) /\ t.cell = v.cell /\ t.gone = v.gone /\ PlaceInAll(t) = p - k
      BY <1>1, <1>6, <1>8, <3>1, <3>2, StepsBackFacts
    <3>4. PlaceInAll(t) = from + m
      BY <1>1, <1>6, <3>3
    <3>5. Painted(f, t)
      BY <1>2, <3>3, SameCells
    <3>6. Bare(f, from + m)
      <4> SUFFICES ASSUME NEW q \in Nat, q >= from + m PROVE f[q] = Blank
        BY DEF Bare
      <4>1. CASE q >= p
        BY <1>2, <1>6, <4>1 DEF Bare
      <4>2. CASE q < p
        <5>1. PICK i \in m + 1 .. m + k : q = from + i - 1
          <6>1. q - from + 1 \in m + 1 .. m + k /\ q = from + (q - from + 1) - 1
            BY <1>1, <1>6, <4>2
          <6> QED
            BY <6>1
        <5>2. i \in 1 .. m + k /\ i - m \in 1 .. k
          OBVIOUS
        <5>3. f[from + i - 1] = more[i]
          BY <1>2, <1>5, <5>2 DEF Spells
        <5>4. more[i] = Blank
          BY <1>5, <3>2, <5>2
        <5> QED
          BY <5>1, <5>3, <5>4
      <4> QED
        BY <1>6, <4>1, <4>2
    <3>7. Spells(f, from, ShownOf(front))
      BY <1>5, <1>10 DEF Spells
    <3> QED
      BY <3>3, <3>4, <3>5, <3>6, <3>7
  <2>2. CASE key # Tab
    <3>1. k = 1
      BY <1>5, <2>2, CellsFacts, TypedInks
    <3>2. PICK a, b : a = StepBack(v) /\ b = PutcCore(a, Blank)
      OBVIOUS
    <3>3. t = StepBack(b)
      BY <1>9, <2>2, <3>2 DEF Erase
    <3>4. a \in Screens(Inks) /\ a.cell = v.cell /\ a.gone = v.gone /\ a.x < Width /\ PlaceInAll(a) = p - 1
      BY <1>1, <1>6, <1>8, <3>1, <3>2, StepBackFacts
    <3>5. Painted(f, a)
      BY <1>2, <3>4, SameCells
    <3>6. PICK n \in Nat : n = p - 1 /\ n = from + m /\ n + 1 = p
      <4>1. p - 1 = from + m /\ p - 1 \in Nat
        BY <1>1, <1>6, <3>1
      <4> QED
        BY <1>6, <4>1
    <3>7. PICK g : g = [f EXCEPT ![n] = Blank]
      OBVIOUS
    <3>8. Blank \in Inks
      BY DEF Inks, Characters
    <3>9. g \in Tapes /\ b \in Screens(Inks) /\ Painted(g, b) /\ PlaceInAll(b) = n + 1 /\ b.gone = v.gone
      BY <3>2, <3>4, <3>5, <3>6, <3>7, <3>8, PutcOnTape
    <3>10. Place(b) >= 1
      <4>1. PlaceInAll(b) = b.gone * Width + Place(b) /\ Place(b) \in Nat
        BY <3>9, InkFields
      <4>2. v.gone * Width + Place(v) = v.gone * Width + Place(b)
        BY <1>7, <3>6, <3>9, <4>1
      <4> QED
        BY <1>7, <1>8, <3>1, <4>1, <4>2
    <3>11. t \in Screens(Inks) /\ t.cell = b.cell /\ t.gone = v.gone /\ PlaceInAll(t) = n
      <4>1. t \in Screens(Inks) /\ t.cell = b.cell /\ t.gone = b.gone /\ PlaceInAll(t) = PlaceInAll(b) - 1
        BY <3>3, <3>9, <3>10, StepBackFacts
      <4> QED
        BY <3>9, <4>1
    <3>12. Painted(g, t)
      BY <3>9, <3>11, SameCells
    <3>13. g[n] = Blank /\ \A q \in Nat : q # n => g[q] = f[q]
      BY <3>7 DEF Tapes
    <3>14. Bare(g, n)
      <4> SUFFICES ASSUME NEW q \in Nat, q >= n PROVE g[q] = Blank
        BY DEF Bare
      <4>1. CASE q = n
        BY <3>13, <4>1
      <4>2. CASE q # n
        <5>1. q >= p
          BY <3>6, <4>2
        <5>2. f[q] = Blank
          BY <1>2, <1>6, <5>1 DEF Bare
        <5> QED
          BY <3>13, <4>2, <5>2
      <4> QED
        BY <4>1, <4>2
    <3>15. Spells(g, from, ShownOf(front))
      <4>1. ASSUME NEW i \in 1 .. m PROVE g[from + i - 1] = ShownOf(front)[i]
        <5>1. from + i - 1 \in Nat /\ from + i - 1 # n
          BY <1>1, <3>6
        <5> QED
          BY <1>10, <3>13, <5>1
      <4> QED
        BY <1>5, <4>1 DEF Spells
    <3>16. PlaceInAll(t) = from + m /\ Bare(g, PlaceInAll(t))
      BY <3>6, <3>11, <3>14
    <3> QED
      BY <3>9, <3>11, <3>12, <3>15, <3>16
  <2> QED
    BY <2>1, <2>2
<1>12. Len(front) \in Nat /\ Len(front) <= InputMaxChars
  BY <1>1, <1>4, ConsoleAssumption
<1>13. Echo(t, front, from)
  <2>1. t.gone * Width <= from
    BY <1>1, <1>11
  <2>2. PlaceInAll(t) = from + Len(ShownOf(front))
    BY <1>5, <1>11
  <2> QED
    BY <1>1, <1>11, <1>12, <2>1, <2>2 DEF Echo
<1> QED
  BY <1>4, <1>9, <1>13


-----------------------------------------------------------------------------
(* Screens that programs have written to as well.                          *)

DrawnScreens == {s \in Screens(Inks) : \E f \in Tapes : Painted(f, s)}

LEMMA DrawnPutc ==
    ASSUME NEW s \in DrawnScreens, NEW ch \in Inks
    PROVE  PutcCore(s, ch) \in DrawnScreens
<1>1. PICK f \in Tapes : s \in Screens(Inks) /\ Painted(f, s)
  BY DEF DrawnScreens
<1>2. /\ PutcCore(s, ch) \in Screens(Inks)
      /\ [f EXCEPT ![PlaceInAll(s)] = ch] \in Tapes
      /\ Painted([f EXCEPT ![PlaceInAll(s)] = ch], PutcCore(s, ch))
  BY <1>1, PutcOnTape
<1> QED
  BY <1>2 DEF DrawnScreens

(* Blanks one after the other, and the screens they go through.            *)
LEMMA DrawnBlanks ==
    ASSUME NEW s \in DrawnScreens, NEW n \in Nat
    PROVE  \E h : /\ h[0] = s /\ h[n] = Blanks(s, n)
                  /\ \A i \in 1 .. n : h[i] = PutcCore(h[i - 1], Blank)
                  /\ \A i \in 0 .. n : h[i] \in DrawnScreens
<1>1. PICK step : step = [i \in 1 .. n |-> [q \in DrawnScreens |-> PutcCore(q, Blank)]]
  OBVIOUS
<1>2. Blank \in Inks
  BY DEF Inks, Characters
<1>3. step \in [1 .. n -> [DrawnScreens -> DrawnScreens]]
  BY <1>1, <1>2, DrawnPutc
<1>4. PICK g \in [0 .. n -> DrawnScreens] : Follows(g, n, s, step)
  BY <1>3, RecursionExists
<1>5. \A i \in 1 .. n : g[i] = PutcCore(g[i - 1], Blank)
  <2> TAKE i \in 1 .. n
  <2>1. g[i] = step[i][g[i - 1]] /\ g[i - 1] \in DrawnScreens
    BY <1>4 DEF Follows
  <2> QED
    BY <1>1, <2>1
<1>6. g[0] = s
  BY <1>4 DEF Follows
<1>7. g = [i \in 0 .. n |-> IF i = 0 THEN s ELSE PutcCore(g[i - 1], Blank)]
  BY <1>4, <1>5, <1>6
<1>8. PICK h : /\ h[n] = Blanks(s, n)
               /\ h = [i \in 0 .. n |-> IF i = 0 THEN s ELSE PutcCore(h[i - 1], Blank)]
  BY <1>7 DEF Blanks
<1>9. h[0] = s /\ \A i \in 1 .. n : h[i] = PutcCore(h[i - 1], Blank)
  BY <1>8
<1> DEFINE S == {i \in 0 .. n : h[i] \in DrawnScreens}
<1>10. 0 \in S
  BY <1>9
<1>11. \A i \in 0 .. n - 1 : i \in S => i + 1 \in S
  <2> TAKE i \in 0 .. n - 1
  <2> HAVE i \in S
  <2>1. i + 1 \in 1 .. n /\ i + 1 \in 0 .. n /\ (i + 1) - 1 = i /\ h[i] \in DrawnScreens
    OBVIOUS
  <2>2. h[i + 1] = PutcCore(h[i], Blank)
    BY <1>9, <2>1
  <2>3. h[i + 1] \in DrawnScreens
    BY <1>2, <2>1, <2>2, DrawnPutc
  <2> QED
    BY <2>1, <2>3
<1> HIDE DEF S
<1>12. \A i \in 0 .. n : i \in S
  BY <1>10, <1>11, IntervalInduction
<1>13. \A i \in 0 .. n : h[i] \in DrawnScreens
  BY <1>12 DEF S
<1> QED
  BY <1>8, <1>9, <1>13

LEMMA DrawnChar ==
    ASSUME NEW s \in DrawnScreens, NEW ch \in Inks
    PROVE  PrintChar(s, ch) \in DrawnScreens
<1>1. CASE ch = Return
  BY <1>1 DEF PrintChar, NewLine, Return, Tab
<1>2. CASE ch = NewLine
  <2>1. PICK f \in Tapes : s \in Screens(Inks) /\ Painted(f, s)
    BY DEF DrawnScreens
  <2>2. /\ s.cell \in [Rows -> [Columns -> Inks]] /\ s.y \in 0 .. Height - 1 /\ s.gone \in Nat
        /\ s = [cell |-> s.cell, x |-> s.x, y |-> s.y, gone |-> s.gone]
    BY <2>1, InkFields
  <2>3. PICK c, a, b, d : s = [cell |-> c, x |-> a, y |-> b, gone |-> d]
    BY <2>2
  <2>4. s.cell = c /\ s.y = b /\ s.gone = d
    BY <2>3
  <2>5. PICK u, down : u = [s EXCEPT !.x = 0, !.y = down] /\ down = b + 1
    OBVIOUS
  <2>6. u = [cell |-> c, x |-> 0, y |-> down, gone |-> d]
    BY <2>3, <2>5
  <2>7. Painted(f, u)
    <3>1. u.cell = s.cell /\ u.gone = s.gone
      BY <2>4, <2>6
    <3> QED
      BY <2>1, <3>1 DEF Painted
  <2>8. 0 \in 0 .. Width /\ down \in 0 .. Height
    BY <2>2, <2>4, <2>5, Sizes
  <2>9. UpdateScroll(u) \in Screens(Inks) /\ Painted(f, UpdateScroll(u))
    BY <2>2, <2>4, <2>6, <2>7, <2>8, ScrollOnTape
  <2>10. PrintChar(s, ch) = UpdateScroll(u)
    <3>1. PrintChar(s, ch) = UpdateScroll([s EXCEPT !.x = 0, !.y = @ + 1])
      BY <1>2 DEF PrintChar, NewLine, Return, Tab
    <3> QED
      BY <2>4, <2>5, <3>1
  <2> QED
    BY <2>9, <2>10 DEF DrawnScreens
<1>3. CASE ch = Tab
  <2>1. PrintChar(s, ch) = Blanks(s, TabSize)
    BY <1>3 DEF PrintChar, NewLine, Return, Tab
  <2>2. PICK h : h[TabSize] = Blanks(s, TabSize) /\ \A i \in 0 .. TabSize : h[i] \in DrawnScreens
    BY DrawnBlanks, Sizes
  <2>3. TabSize \in 0 .. TabSize
    BY Sizes
  <2> QED
    BY <2>1, <2>2, <2>3
<1>4. CASE ch \notin {Return, NewLine, Tab}
  <2>1. PrintChar(s, ch) = PutcCore(s, ch)
    BY <1>4 DEF PrintChar
  <2> QED
    BY <2>1, DrawnPutc
<1> QED
  BY <1>1, <1>2, <1>3, <1>4

(* A text, and the screens that printing it goes through.                  *)
LEMMA DrawnText ==
    ASSUME NEW s \in DrawnScreens, NEW text \in Seq(Inks)
    PROVE  \E h : /\ h[0] = s /\ h[Len(text)] = PrintText(s, text)
                  /\ \A i \in 1 .. Len(text) : h[i] = PrintChar(h[i - 1], text[i])
                  /\ \A i \in 0 .. Len(text) : h[i] \in DrawnScreens
<1>1. PICK N \in Nat : N = Len(text)
  OBVIOUS
<1>2. \A i \in 1 .. N : text[i] \in Inks
  BY <1>1, ElementOfSeq
<1>3. PICK step : step = [i \in 1 .. N |-> [q \in DrawnScreens |-> PrintChar(q, text[i])]]
  OBVIOUS
<1>4. step \in [1 .. N -> [DrawnScreens -> DrawnScreens]]
  BY <1>2, <1>3, DrawnChar
<1>5. PICK g \in [0 .. N -> DrawnScreens] : Follows(g, N, s, step)
  BY <1>4, RecursionExists
<1>6. g[0] = s /\ \A i \in 1 .. N : g[i] = PrintChar(g[i - 1], text[i])
  <2>1. ASSUME NEW i \in 1 .. N PROVE g[i] = PrintChar(g[i - 1], text[i])
    <3>1. g[i] = step[i][g[i - 1]] /\ g[i - 1] \in DrawnScreens
      BY <1>5 DEF Follows
    <3> QED
      BY <1>3, <3>1
  <2> QED
    BY <1>5, <2>1 DEF Follows
<1>7. g = [i \in 0 .. N |-> IF i = 0 THEN s ELSE PrintChar(g[i - 1], text[i])]
  BY <1>5, <1>6
<1>8. PICK h : /\ h = Printing(s, text)
               /\ h = [i \in 0 .. N |-> IF i = 0 THEN s ELSE PrintChar(h[i - 1], text[i])]
  <2>1. Printing(s, text) = CHOOSE k : k = [i \in 0 .. N |-> IF i = 0 THEN s ELSE PrintChar(k[i - 1], text[i])]
    BY <1>1 DEF Printing
  <2>2. \E k : k = [i \in 0 .. N |-> IF i = 0 THEN s ELSE PrintChar(k[i - 1], text[i])]
    BY <1>7
  <2> QED
    BY <2>1, <2>2
<1>9. h[0] = s /\ \A i \in 1 .. N : h[i] = PrintChar(h[i - 1], text[i])
  BY <1>1, <1>8
<1> DEFINE S == {i \in 0 .. N : h[i] \in DrawnScreens}
<1>10. 0 \in S
  BY <1>9
<1>11. \A i \in 0 .. N - 1 : i \in S => i + 1 \in S
  <2> TAKE i \in 0 .. N - 1
  <2> HAVE i \in S
  <2>1. i + 1 \in 1 .. N /\ i + 1 \in 0 .. N /\ (i + 1) - 1 = i /\ h[i] \in DrawnScreens
    OBVIOUS
  <2>2. h[i + 1] = PrintChar(h[i], text[i + 1])
    BY <1>9, <2>1
  <2>3. h[i + 1] \in DrawnScreens
    BY <1>2, <2>1, <2>2, DrawnChar
  <2> QED
    BY <2>1, <2>3
<1> HIDE DEF S
<1>12. \A i \in 0 .. N : i \in S
  BY <1>10, <1>11, IntervalInduction
<1>13. \A i \in 0 .. N : h[i] \in DrawnScreens
  BY <1>12 DEF S
<1>14. h[N] = PrintText(s, text)
  BY <1>1, <1>8 DEF PrintText
<1> QED
  BY <1>1, <1>9, <1>13, <1>14

-----------------------------------------------------------------------------
(* Writing within a row.                                                   *)

RowStart(s) == (s.gone + s.y) * Width

(* From the row of the cursor on, only the cells from column lo to hi may  *)
(* hold something.                                                         *)
Spared(f, base, lo, hi) == \A q \in Nat : q >= base /\ ~ (base + lo <= q /\ q < base + hi) => f[q] = Blank
Off(s, lo, hi) == /\ s \in Screens(Inks)
                  /\ \E f \in Tapes : Painted(f, s) /\ Spared(f, RowStart(s), lo, hi)

LEMMA PutcInRow ==
    ASSUME NEW s, NEW lo \in Nat, NEW hi \in Nat, Off(s, lo, hi), s.x < Width, lo <= s.x, s.x < hi, NEW ch \in Inks
    PROVE  /\ PutcCore(s, ch).x = s.x + 1 /\ PutcCore(s, ch).y = s.y /\ PutcCore(s, ch).gone = s.gone
           /\ Off(PutcCore(s, ch), lo, hi)
           /\ ch = Blank /\ lo = s.x => Off(PutcCore(s, ch), lo + 1, hi)
<1>1. PICK f \in Tapes : s \in Screens(Inks) /\ Painted(f, s) /\ Spared(f, RowStart(s), lo, hi)
  BY DEF Off
<1>2. /\ s.x \in Nat /\ s.y \in Rows /\ s.y \in Nat /\ s.y \in 0 .. Height - 1 /\ s.gone \in Nat
      /\ PlaceInAll(s) = (s.gone + s.y) * Width + s.x
      /\ s = [cell |-> s.cell, x |-> s.x, y |-> s.y, gone |-> s.gone]
  BY <1>1, InkFields
<1>3. PICK w, a, b, d : s = [cell |-> w, x |-> a, y |-> b, gone |-> d]
  BY <1>2
<1>4. s.cell = w /\ s.x = a /\ s.y = b /\ s.gone = d
  BY <1>3
<1>5. PICK t : t = PutcCore(s, ch)
  OBVIOUS
<1>6. UpdateScroll(s) = s
  <2>1. s.y < Height
    BY <1>2, Sizes
  <2> QED
    BY <2>1 DEF UpdateScroll
<1>7. t = [s EXCEPT !.cell[s.y][s.x] = ch, !.x = @ + 1]
  <2>1. ~ (s.x >= Width)
    BY <1>2, Sizes
  <2> QED
    BY <1>5, <1>6, <2>1 DEF PutcCore
<1>8. t.x = s.x + 1 /\ t.y = s.y /\ t.gone = s.gone
  <2>1. PICK n, W : n = a + 1 /\ W = [w EXCEPT ![b][a] = ch]
    OBVIOUS
  <2>2. t = [cell |-> W, x |-> n, y |-> b, gone |-> d]
    BY <1>3, <1>4, <1>7, <2>1
  <2> QED
    BY <1>4, <2>1, <2>2
<1>9. PICK base \in Nat, n \in Nat : base = RowStart(s) /\ base = RowStart(t) /\ n = PlaceInAll(s) /\ n = base + s.x
  <2>1. RowStart(s) \in Nat /\ RowStart(s) + s.x \in Nat
    BY <1>2, Sizes DEF RowStart
  <2>2. RowStart(t) = RowStart(s) /\ PlaceInAll(s) = RowStart(s) + s.x
    BY <1>2, <1>8 DEF RowStart
  <2> QED
    BY <2>1, <2>2
<1>10. PICK g : g = [f EXCEPT ![n] = ch]
  OBVIOUS
<1>11. t \in Screens(Inks) /\ g \in Tapes /\ Painted(g, t)
  BY <1>1, <1>5, <1>9, <1>10, PutcOnTape
<1>12. g[n] = ch /\ \A q \in Nat : q # n => g[q] = f[q]
  BY <1>10 DEF Tapes
<1>13. \A q \in Nat : q >= base /\ ~ (base + lo <= q /\ q < base + hi) => f[q] = Blank
  BY <1>1, <1>9 DEF Spared
<1>14. Spared(g, base, lo, hi)
  <2> SUFFICES ASSUME NEW q \in Nat, q >= base, ~ (base + lo <= q /\ q < base + hi) PROVE g[q] = Blank
    BY DEF Spared
  <2>1. q # n
    BY <1>2, <1>9
  <2> QED
    BY <1>12, <1>13, <2>1
<1>15. ASSUME ch = Blank, lo = s.x PROVE Spared(g, base, lo + 1, hi)
  <2> SUFFICES ASSUME NEW q \in Nat, q >= base, ~ (base + (lo + 1) <= q /\ q < base + hi) PROVE g[q] = Blank
    BY DEF Spared
  <2>1. CASE q = n
    BY <1>12, <1>15, <2>1
  <2>2. CASE q # n
    <3>1. ~ (base + lo <= q /\ q < base + hi)
      BY <1>2, <1>9, <1>15, <2>2
    <3> QED
      BY <1>12, <1>13, <2>2, <3>1
  <2> QED
    BY <2>1, <2>2
<1>16. Off(t, lo, hi)
  BY <1>9, <1>11, <1>14 DEF Off
<1>17. ch = Blank /\ lo = s.x => Off(t, lo + 1, hi)
  BY <1>9, <1>11, <1>15 DEF Off
<1> QED
  BY <1>5, <1>8, <1>16, <1>17

LEMMA OffIsDrawn == ASSUME NEW s, NEW lo, NEW hi, Off(s, lo, hi) PROVE s \in DrawnScreens
BY DEF Off, DrawnScreens

(* A short text stays in the row.                                          *)
LEMMA TextInRow ==
    ASSUME NEW s, NEW hi \in Nat, Off(s, 0, hi), NEW text \in Seq(Glyphs),
           s.x + Len(text) <= Width, s.x + Len(text) <= hi
    PROVE  /\ Off(PrintText(s, text), 0, hi)
           /\ PrintText(s, text).x = s.x + Len(text)
           /\ PrintText(s, text).y = s.y /\ PrintText(s, text).gone = s.gone
<1>1. PICK N \in Nat : N = Len(text)
  OBVIOUS
<1>2. \A i \in 1 .. N : text[i] \in Glyphs
  BY <1>1, ElementOfSeq
<1>3. Glyphs \subseteq Inks /\ \A ch \in Glyphs : ch \notin {NewLine, Return, Tab}
  BY ConsoleAssumption DEF Inks, Characters
<1>4. text \in Seq(Inks)
  <2>1. text \in [1 .. N -> Inks]
    BY <1>1, <1>2, <1>3
  <2> HIDE DEF Inks
  <2> QED
    BY <2>1
<1>5. s \in DrawnScreens /\ s.x \in Nat
  <2>1. s \in Screens(Inks)
    BY DEF Off
  <2> QED
    BY <2>1, OffIsDrawn, InkFields
<1>6. PICK h : /\ h[0] = s /\ h[N] = PrintText(s, text)
               /\ \A i \in 1 .. N : h[i] = PrintChar(h[i - 1], text[i])
  BY <1>1, <1>4, <1>5, DrawnText
<1> DEFINE S == {i \in 0 .. N : Off(h[i], 0, hi) /\ h[i].x = s.x + i /\ h[i].y = s.y /\ h[i].gone = s.gone}
<1>7. 0 \in S
  BY <1>5, <1>6
<1>8. \A i \in 0 .. N - 1 : i \in S => i + 1 \in S
  <2> TAKE i \in 0 .. N - 1
  <2> HAVE i \in S
  <2>1. /\ i + 1 \in 1 .. N /\ i + 1 \in 0 .. N /\ (i + 1) - 1 = i
        /\ Off(h[i], 0, hi) /\ h[i].x = s.x + i /\ h[i].y = s.y /\ h[i].gone = s.gone
    OBVIOUS
  <2>2. h[i + 1] = PutcCore(h[i], text[i + 1]) /\ text[i + 1] \in Inks
    <3>1. h[i + 1] = PrintChar(h[i], text[i + 1]) /\ text[i + 1] \in Glyphs
      BY <1>2, <1>6, <2>1
    <3> QED
      BY <1>3, <3>1 DEF PrintChar
  <2>3. h[i].x < Width /\ 0 <= h[i].x /\ h[i].x < hi
    BY <1>1, <1>5, <2>1, Sizes
  <2>4. Off(h[i + 1], 0, hi) /\ h[i + 1].x = h[i].x + 1 /\ h[i + 1].y = h[i].y /\ h[i + 1].gone = h[i].gone
    BY <2>1, <2>2, <2>3, PutcInRow
  <2>5. h[i + 1].x = s.x + (i + 1)
    BY <1>5, <2>1, <2>4
  <2> QED
    BY <2>1, <2>4, <2>5
<1> HIDE DEF S
<1>9. N \in S
  <2>1. \A i \in 0 .. N : i \in S
    BY <1>7, <1>8, IntervalInduction
  <2> QED
    BY <2>1
<1> QED
  BY <1>1, <1>6, <1>9 DEF S

(* Blanks from the start of a row on.                                      *)
LEMMA BlanksInRow ==
    ASSUME NEW s, NEW n \in Nat, n <= Width, Off(s, 0, n), s.x = 0
    PROVE  /\ Off(Blanks(s, n), n, n)
           /\ Blanks(s, n).y = s.y /\ Blanks(s, n).gone = s.gone
<1>1. s \in DrawnScreens
  BY OffIsDrawn
<1>2. PICK h : h[0] = s /\ h[n] = Blanks(s, n) /\ \A i \in 1 .. n : h[i] = PutcCore(h[i - 1], Blank)
  BY <1>1, DrawnBlanks
<1>3. Blank \in Inks
  BY DEF Inks, Characters
<1> DEFINE S == {i \in 0 .. n : Off(h[i], i, n) /\ h[i].x = i /\ h[i].y = s.y /\ h[i].gone = s.gone}
<1>4. 0 \in S
  BY <1>2
<1>5. \A i \in 0 .. n - 1 : i \in S => i + 1 \in S
  <2> TAKE i \in 0 .. n - 1
  <2> HAVE i \in S
  <2>1. /\ i \in Nat /\ i + 1 \in 1 .. n /\ i + 1 \in 0 .. n /\ (i + 1) - 1 = i
        /\ Off(h[i], i, n) /\ h[i].x = i /\ h[i].y = s.y /\ h[i].gone = s.gone
    OBVIOUS
  <2>2. h[i + 1] = PutcCore(h[i], Blank)
    BY <1>2, <2>1
  <2>3. h[i].x < Width /\ i <= h[i].x /\ h[i].x < n
    BY <2>1, Sizes
  <2>4. Off(h[i + 1], i + 1, n) /\ h[i + 1].x = i + 1 /\ h[i + 1].y = h[i].y /\ h[i + 1].gone = h[i].gone
    BY <1>3, <2>1, <2>2, <2>3, PutcInRow
  <2> QED
    BY <2>1, <2>4
<1> HIDE DEF S
<1>6. n \in S
  <2>1. \A i \in 0 .. n : i \in S
    BY <1>4, <1>5, IntervalInduction
  <2> QED
    BY <2>1
<1> QED
  BY <1>2, <1>6 DEF S

(* The row of a clean screen, with its cursor in another column.           *)
LEMMA CleanRow ==
    ASSUME NEW s \in CleanScreens, NEW x \in 0 .. Width, NEW hi \in Nat, s.x <= hi
    PROVE  Off([s EXCEPT !.x = x], 0, hi)
<1>1. PICK f \in Tapes : s \in Screens(Inks) /\ Painted(f, s) /\ Bare(f, PlaceInAll(s))
  BY DEF CleanScreens
<1>2. PlaceInAll(s) = (s.gone + s.y) * Width + s.x /\ s.gone \in Nat /\ s.y \in Nat /\ s.x \in Nat
  BY <1>1, InkFields
<1>3. PICK t : t = [s EXCEPT !.x = x]
  OBVIOUS
<1>4. t \in Screens(Inks) /\ t.cell = s.cell /\ t.gone = s.gone /\ t.y = s.y
  BY <1>1, <1>3 DEF Screens
<1>5. Painted(f, t)
  BY <1>1, <1>4, SameCells
<1>6. PICK base \in Nat : base = RowStart(t) /\ PlaceInAll(s) = base + s.x
  <2>1. (s.gone + s.y) * Width \in Nat
    BY <1>2, Sizes
  <2> QED
    BY <1>2, <1>4, <2>1 DEF RowStart
<1>7. Spared(f, base, 0, hi)
  <2> SUFFICES ASSUME NEW q \in Nat, q >= base, ~ (base + 0 <= q /\ q < base + hi) PROVE f[q] = Blank
    BY DEF Spared
  <2>1. q >= base + s.x
    BY <1>2
  <2> QED
    BY <1>1, <1>6, <2>1 DEF Bare
<1> QED
  BY <1>3, <1>4, <1>5, <1>6, <1>7 DEF Off

(* The next row is clean.                                                  *)
LEMMA NewRowIsClean ==
    ASSUME NEW s, Off(s, 0, Width)
    PROVE  PrintChar(s, NewLine) \in CleanScreens
<1>1. PICK f \in Tapes : s \in Screens(Inks) /\ Painted(f, s) /\ Spared(f, RowStart(s), 0, Width)
  BY DEF Off
<1>2. /\ s.cell \in [Rows -> [Columns -> Inks]] /\ s.y \in Nat /\ s.y \in 0 .. Height - 1 /\ s.gone \in Nat
      /\ s = [cell |-> s.cell, x |-> s.x, y |-> s.y, gone |-> s.gone]
  BY <1>1, InkFields
<1>3. PICK c, a, b, d : s = [cell |-> c, x |-> a, y |-> b, gone |-> d]
  BY <1>2
<1>4. s.cell = c /\ s.y = b /\ s.gone = d
  BY <1>3
<1>5. PICK u, down : u = [s EXCEPT !.x = 0, !.y = down] /\ down = b + 1
  OBVIOUS
<1>6. u = [cell |-> c, x |-> 0, y |-> down, gone |-> d]
  BY <1>3, <1>5
<1>7. Painted(f, u)
  <2>1. u.cell = s.cell /\ u.gone = s.gone
    BY <1>4, <1>6
  <2> QED
    BY <1>1, <2>1 DEF Painted
<1>8. 0 \in 0 .. Width /\ down \in 0 .. Height
  BY <1>2, <1>4, <1>5, Sizes
<1>9. PICK t : t = UpdateScroll(u)
  OBVIOUS
<1>10. t \in Screens(Inks) /\ t.x = 0 /\ Painted(f, t) /\ t.gone + t.y = d + down
  BY <1>2, <1>4, <1>6, <1>7, <1>8, <1>9, ScrollOnTape
<1>11. PrintChar(s, NewLine) = t
  <2>1. PrintChar(s, NewLine) = UpdateScroll([s EXCEPT !.x = 0, !.y = @ + 1])
    BY DEF PrintChar, NewLine, Return, Tab
  <2> QED
    BY <1>4, <1>5, <1>9, <2>1
<1>12. PICK base \in Nat : base = RowStart(s) /\ PlaceInAll(t) = base + Width
  <2>1. PlaceInAll(t) = (t.gone + t.y) * Width + t.x
    BY <1>10, InkFields
  <2>2. t.gone + t.y = s.gone + (s.y + 1)
    BY <1>4, <1>5, <1>10
  <2>3. (s.gone + (s.y + 1)) * Width = (s.gone + s.y) * Width + Width /\ (s.gone + s.y) * Width \in Nat
    BY <1>2, Sizes
  <2>4. PlaceInAll(t) = (s.gone + s.y) * Width + Width
    BY <1>10, <2>1, <2>2, <2>3, Sizes
  <2> QED
    BY <2>3, <2>4 DEF RowStart
<1>13. Bare(f, base + Width)
  <2> SUFFICES ASSUME NEW q \in Nat, q >= base + Width PROVE f[q] = Blank
    BY DEF Bare
  <2>1. q >= base /\ ~ (base + 0 <= q /\ q < base + Width)
    BY Sizes
  <2> QED
    BY <1>1, <1>12, <2>1 DEF Spared
<1> QED
  BY <1>10, <1>11, <1>12, <1>13 DEF CleanScreens


-----------------------------------------------------------------------------
(* The console between its calls.                                          *)

Cursors == [x : 0 .. Width, y : Rows]

Clean(v, c) ==
    /\ v \in Screens(Inks) /\ c \in Cursors
    /\ \E f \in Tapes : Painted(f, v) /\ Bare(f, v.gone * Width + (c.y * Width + c.x))

CursorOf(v) == [x |-> v.x, y |-> v.y]

LEMMA CursorFacts ==
    ASSUME NEW v \in Screens(Inks)
    PROVE  CursorOf(v) \in Cursors /\ CursorOf(v).x = v.x /\ CursorOf(v).y = v.y
BY DEF Screens, Cursors, CursorOf

LEMMA CleanOwn == ASSUME NEW v \in CleanScreens PROVE Clean(v, CursorOf(v))
<1>1. PICK f \in Tapes : v \in Screens(Inks) /\ Painted(f, v) /\ Bare(f, PlaceInAll(v))
  BY DEF CleanScreens
<1>2. CursorOf(v) \in Cursors /\ CursorOf(v).x = v.x /\ CursorOf(v).y = v.y
  BY <1>1, CursorFacts
<1>3. PlaceInAll(v) = v.gone * Width + (CursorOf(v).y * Width + CursorOf(v).x)
  BY <1>2 DEF PlaceInAll, Place
<1>4. Bare(f, v.gone * Width + (CursorOf(v).y * Width + CursorOf(v).x))
  BY <1>1, <1>3
<1> QED
  BY <1>1, <1>2, <1>4 DEF Clean

(* kconsole puts its own cursor back before it prints.                     *)
LEMMA CleanSynced ==
    ASSUME NEW v, NEW c, Clean(v, c)
    PROVE  /\ UpdateScursor(v, c) \in CleanScreens
           /\ CursorOf(UpdateScursor(v, c)) = c
           /\ UpdateScursor(v, c).gone = v.gone
<1>1. v \in Screens(Inks) /\ c \in Cursors
  BY DEF Clean
<1>2. PICK f \in Tapes : Painted(f, v) /\ Bare(f, v.gone * Width + (c.y * Width + c.x))
  BY DEF Clean
<1>3. PICK s : s = UpdateScursor(v, c)
  OBVIOUS
<1>4. s = [cell |-> v.cell, x |-> c.x, y |-> c.y, gone |-> v.gone]
  <2>1. v = [cell |-> v.cell, x |-> v.x, y |-> v.y, gone |-> v.gone]
    BY <1>1, InkFields
  <2>2. PICK w, a, b, d : v = [cell |-> w, x |-> a, y |-> b, gone |-> d]
    BY <2>1
  <2>3. v.cell = w /\ v.gone = d
    BY <2>2
  <2>4. s = [v EXCEPT !.x = c.x, !.y = c.y]
    BY <1>3 DEF UpdateScursor
  <2> QED
    BY <2>2, <2>3, <2>4
<1>5. s.cell = v.cell /\ s.x = c.x /\ s.y = c.y /\ s.gone = v.gone
  BY <1>4
<1>6. s \in Screens(Inks)
  BY <1>1, <1>4 DEF Screens, Cursors
<1>7. Painted(f, s)
  BY <1>2, <1>5, SameCells
<1>8. PlaceInAll(s) = v.gone * Width + (c.y * Width + c.x)
  BY <1>5 DEF PlaceInAll, Place
<1>9. Bare(f, PlaceInAll(s))
  BY <1>2, <1>8
<1>10. CursorOf(s) = c
  BY <1>1, <1>5 DEF CursorOf, Cursors
<1> QED
  BY <1>3, <1>5, <1>6, <1>7, <1>9, <1>10 DEF CleanScreens

(* A console that prints stays clean.                                      *)
LEMMA CleanPrints ==
    ASSUME NEW v, NEW c, Clean(v, c), NEW text \in Seq(Inks)
    PROVE  Clean(PrintText(UpdateScursor(v, c), text), CursorOf(PrintText(UpdateScursor(v, c), text)))
<1>1. PrintText(UpdateScursor(v, c), text) \in CleanScreens
  BY CleanSynced, PrintTextIsClean
<1> QED
  BY <1>1, CleanOwn

LEMMA CleanCleared ==
    ASSUME NEW gone \in Nat
    PROVE  /\ Clean([Cleared EXCEPT !.gone = gone], CursorOf([Cleared EXCEPT !.gone = gone]))
           /\ CursorOf([Cleared EXCEPT !.gone = gone]) = [x |-> 0, y |-> 0]
           /\ [Cleared EXCEPT !.gone = gone] \in CleanScreens
<1>1. PICK s, empty, f : /\ s = [Cleared EXCEPT !.gone = gone]
                         /\ empty = [r \in Rows |-> BlankRow]
                         /\ f = [q \in Nat |-> Blank]
  OBVIOUS
<1>2. s = [cell |-> empty, x |-> 0, y |-> 0, gone |-> gone]
  BY <1>1 DEF Cleared
<1>3. 0 \in 0 .. Width /\ 0 \in Rows /\ Blank \in Inks
  BY Sizes DEF Rows, Inks, Characters
<1>4. empty \in [Rows -> [Columns -> Inks]] /\ f \in Tapes /\ \A q \in Nat : f[q] = Blank
  BY <1>1, <1>3 DEF BlankRow, Tapes
<1>5. s \in Screens(Inks) /\ s.cell = empty /\ s.gone = gone /\ s.x = 0 /\ s.y = 0
  BY <1>2, <1>3, <1>4 DEF Screens
<1>6. Painted(f, s)
  <2>1. ASSUME NEW r \in Rows, NEW c \in Columns PROVE s.cell[r][c] = f[(s.gone + r) * Width + c]
    <3>1. s.cell[r][c] = Blank
      BY <1>1, <1>5 DEF BlankRow
    <3>2. (gone + r) * Width + c \in Nat
      <4>1. gone + r \in Nat /\ c \in Nat
        BY Sizes DEF Rows, Columns
      <4>2. (gone + r) * Width \in Nat
        BY <4>1, Sizes
      <4> QED
        BY <4>1, <4>2
    <3> QED
      BY <1>4, <1>5, <3>1, <3>2
  <2> QED
    BY <1>4, <2>1 DEF Painted
<1>7. Bare(f, PlaceInAll(s))
  BY <1>4 DEF Bare
<1>8. Clean(s, CursorOf(s)) /\ s \in CleanScreens
  <2>1. s \in CleanScreens
    BY <1>4, <1>5, <1>6, <1>7 DEF CleanScreens
  <2> QED
    BY <2>1, CleanOwn
<1>9. CursorOf(s) = [x |-> 0, y |-> 0]
  BY <1>5 DEF CursorOf
<1> QED
  BY <1>1, <1>8, <1>9

LEMMA EchoIsClean ==
    ASSUME NEW v, NEW line, NEW from, Echo(v, line, from)
    PROVE  v \in CleanScreens
BY DEF Echo, CleanScreens

(* A line starts empty, at the cursor.                                     *)
LEMMA EchoBegins ==
    ASSUME NEW v \in CleanScreens
    PROVE  Echo(v, <<>>, PlaceInAll(v))
<1>1. PICK f \in Tapes : v \in Screens(Inks) /\ Painted(f, v) /\ Bare(f, PlaceInAll(v))
  BY DEF CleanScreens
<1>2. PICK none, p : none = <<>> /\ p = PlaceInAll(v)
  OBVIOUS
<1>3. none \in Seq(Typed) /\ Len(none) = 0 /\ ShownOf(none) = none
  BY <1>2, ShownNothing
<1>4. p \in Nat /\ v.gone * Width <= p
  <2>1. Place(v) \in Nat /\ v.gone * Width \in Nat /\ p = v.gone * Width + Place(v) /\ p \in Nat
    BY <1>1, <1>2, InkFields
  <2> QED
    BY <2>1
<1>5. Len(none) <= InputMaxChars /\ p = p + Len(ShownOf(none))
  BY <1>3, <1>4, ConsoleAssumption
<1>6. Spells(f, p, ShownOf(none))
  BY <1>3 DEF Spells
<1>7. PlaceInAll(v) = p + Len(ShownOf(none))
  BY <1>2, <1>5
<1>8. Echo(v, none, p)
  BY <1>1, <1>3, <1>4, <1>5, <1>6, <1>7 DEF Echo
<1> QED
  BY <1>2, <1>8

(* A cursor put elsewhere writes as well.                                  *)
LEMMA DrawnMoved ==
    ASSUME NEW v \in DrawnScreens, NEW c \in Cursors
    PROVE  UpdateScursor(v, c) \in DrawnScreens
<1>1. PICK f \in Tapes : v \in Screens(Inks) /\ Painted(f, v)
  BY DEF DrawnScreens
<1>2. c.x \in 0 .. Width /\ c.y \in Rows
  BY DEF Cursors
<1>3. PICK s : s = [v EXCEPT !.x = c.x, !.y = c.y]
  OBVIOUS
<1>4. s \in Screens(Inks) /\ s.cell = v.cell /\ s.gone = v.gone
  BY <1>1, <1>2, <1>3 DEF Screens
<1>5. Painted(f, s)
  BY <1>1, <1>4, SameCells
<1> QED
  BY <1>3, <1>4, <1>5 DEF DrawnScreens, UpdateScursor

LEMMA CleanIsDrawn == ASSUME NEW v, NEW c, Clean(v, c) PROVE v \in DrawnScreens /\ c \in Cursors
BY DEF Clean, DrawnScreens

LEMMA DrawnPrints ==
    ASSUME NEW v \in DrawnScreens, NEW c \in Cursors, NEW text \in Seq(Inks)
    PROVE  PrintText(UpdateScursor(v, c), text) \in DrawnScreens
<1>1. PICK s : s = UpdateScursor(v, c)
  OBVIOUS
<1>2. PICK N \in Nat : N = Len(text)
  OBVIOUS
<1>3. s \in DrawnScreens
  BY <1>1, DrawnMoved
<1>4. PICK h : h[N] = PrintText(s, text) /\ \A i \in 0 .. N : h[i] \in DrawnScreens
  BY <1>2, <1>3, DrawnText
<1>5. N \in 0 .. N
  OBVIOUS
<1> QED
  BY <1>1, <1>4, <1>5

LEMMA InkTexts ==
    /\ \A text \in Texts : text \in Seq(Inks)
    /\ \A text \in SizeTexts : text \in Seq(Glyphs)
    /\ <<NewLine>> \in Seq(Inks) /\ NewLine \in Inks /\ Glyphs \subseteq Inks
<1>1. ASSUME NEW text \in Texts PROVE text \in Seq(Inks)
  <2>1. text \in Seq(Characters)
    BY ConsoleAssumption
  <2>2. Characters \subseteq Inks
    BY DEF Inks
  <2> HIDE DEF Inks
  <2>3. PICK n \in Nat : n = Len(text)
    BY <2>1
  <2>4. text \in [1 .. n -> Characters]
    BY <2>1, <2>3
  <2>5. text \in [1 .. n -> Inks]
    BY <2>2, <2>4
  <2> QED
    BY <2>5
<1>2. NewLine \in Inks /\ Glyphs \subseteq Inks
  BY DEF Inks, Characters
<1>3. <<NewLine>> \in Seq(Inks)
  BY <1>2
<1> QED
  BY <1>1, <1>2, <1>3, RowAssumption

-----------------------------------------------------------------------------
(* The invariant of the console.  While it has the screen, nothing stands  *)
(* behind its cursor; while a line is read, both cursors are together and  *)
(* the line is on the tape; while the paginator waits, its prompt is all   *)
(* there is from the cursor's row on.                                      *)
Reads == cursor = CursorOf(video) /\ Echo(video, input, start)
Asked == cursor.x = 0 /\ cursor.y = video.y /\ Off(video, 0, Len(MoreText))

ConsoleInv ==
    /\ video \in DrawnScreens /\ cursor \in Cursors
    /\ writer = "console" => Clean(video, cursor)
    /\ reading => writer = "console" /\ Reads
    /\ writer = "pager" => Asked

(* The screen is the console's, and no line is read.                       *)
LEMMA InOrder ==
    ASSUME Clean(video, cursor), writer = "console", ~ reading
    PROVE  ConsoleInv
BY CleanIsDrawn DEF ConsoleInv

LEMMA ConsoleStarts == ConsoleInit => ConsoleInv
<1> SUFFICES ASSUME ConsoleInit PROVE ConsoleInv
  OBVIOUS
<1>1. Cleared = [Cleared EXCEPT !.gone = 0]
  BY DEF Cleared
<1>2. PICK s : s = Cleared
  OBVIOUS
<1>3. Clean(s, CursorOf(s)) /\ CursorOf(s) = [x |-> 0, y |-> 0]
  BY <1>1, <1>2, CleanCleared
<1>4. Clean(video, cursor) /\ ~ reading /\ writer = "console"
  BY <1>2, <1>3 DEF ConsoleInit
<1> QED
  BY <1>4, InOrder

LEMMA WipedIsClean ==
    ASSUME ConsoleInv
    PROVE  Clean(Wiped, CursorOf(Wiped)) /\ Wiped \in DrawnScreens
<1>1. video.gone \in Nat
  BY InkFields DEF ConsoleInv, DrawnScreens
<1>2. Clean(Wiped, CursorOf(Wiped))
  BY <1>1, CleanCleared DEF Wiped
<1> QED
  BY <1>2, CleanIsDrawn

LEMMA ClearKeeps == ASSUME ConsoleInv, Clear PROVE ConsoleInv'
<1>1. PICK s : s = Wiped
  OBVIOUS
<1>2. video' = s /\ cursor' = CursorOf(s) /\ ~ reading' /\ writer' = "console"
  BY <1>1 DEF Clear, SyncScursor, CursorOf
<1>3. Clean(s, CursorOf(s)) /\ s \in DrawnScreens
  BY <1>1, WipedIsClean
<1>4. Clean(video', cursor') /\ video' \in DrawnScreens /\ cursor' \in Cursors
  BY <1>2, <1>3, CleanIsDrawn
<1> QED
  BY <1>2, <1>4 DEF ConsoleInv

LEMMA PrintAtKeeps ==
    ASSUME ConsoleInv, writer = "console", NEW text \in Seq(Inks), PrintAt(text)
    PROVE  /\ Clean(video', cursor') /\ cursor' = CursorOf(video')
           /\ video' \in DrawnScreens /\ cursor' \in Cursors
           /\ video' = PrintText(UpdateScursor(video, cursor), text)
<1>1. PICK s : s = PrintText(UpdateScursor(video, cursor), text)
  OBVIOUS
<1>2. video' = s /\ cursor' = CursorOf(s)
  BY <1>1 DEF PrintAt, SyncScursor, CursorOf
<1>3. Clean(video, cursor)
  BY DEF ConsoleInv
<1>4. Clean(s, CursorOf(s))
  BY <1>1, <1>3, CleanPrints
<1>5. s \in DrawnScreens /\ CursorOf(s) \in Cursors
  BY <1>4, CleanIsDrawn
<1> QED
  BY <1>1, <1>2, <1>4, <1>5

LEMMA WriteKeeps == ASSUME ConsoleInv, NEW text \in Texts, WriteString(text) PROVE ConsoleInv'
<1>1. text \in Seq(Inks)
  BY InkTexts
<1>2. PrintAt(text) /\ ~ reading' /\ writer' = writer /\ writer # "pager"
  BY DEF WriteString, MayPrint
<1>3. CASE writer = "console"
  BY <1>1, <1>2, <1>3, PrintAtKeeps DEF ConsoleInv
<1>4. CASE writer # "console"
  <2>1. PICK s : s = PrintText(UpdateScursor(video, cursor), text)
    OBVIOUS
  <2>2. video' = s /\ cursor' = CursorOf(s)
    BY <1>2, <2>1 DEF PrintAt, SyncScursor, CursorOf
  <2>3. s \in DrawnScreens
    BY <1>1, <2>1, DrawnPrints DEF ConsoleInv
  <2>4. CursorOf(s) \in Cursors
    BY <2>3, CursorFacts DEF DrawnScreens
  <2> QED
    BY <1>2, <1>4, <2>2, <2>3, <2>4 DEF ConsoleInv
<1> QED
  BY <1>3, <1>4

LEMMA ListKeeps ==
    ASSUME ConsoleInv, NEW name \in Texts, NEW size \in SizeTexts, ListFile(name, size)
    PROVE  ConsoleInv'
<1>1. PICK named, moved, sized, ended :
          /\ named = PrintText(UpdateScursor(video, cursor), name)
          /\ moved = [named EXCEPT !.x = SizeColumn]
          /\ sized = PrintText(moved, size)
          /\ ended = PrintChar(sized, NewLine)
  OBVIOUS
<1>2. /\ video' = ended /\ cursor' = CursorOf(ended)
      /\ ~ reading' /\ writer = "console" /\ writer' = writer
  BY <1>1 DEF ListFile, MayPrint, SyncScursor, CursorOf
<1>3. named \in CleanScreens
  <2>1. Clean(video, cursor) /\ name \in Seq(Inks)
    BY <1>2, InkTexts DEF ConsoleInv
  <2> QED
    BY <1>1, <2>1, CleanSynced, PrintTextIsClean
<1>4. PICK n \in Nat : n = Len(size) /\ SizeColumn + n <= Width /\ size \in Seq(Glyphs) /\ SizeColumn \in 0 .. Width
  <2>1. size \in Seq(Glyphs) /\ SizeColumn + Len(size) <= Width /\ SizeColumn \in Nat /\ Len(size) \in Nat
    BY InkTexts, RowAssumption
  <2> QED
    BY <2>1, Sizes
<1>5. named \in Screens(Inks) /\ named.x \in 0 .. Width
  BY <1>3 DEF CleanScreens, Screens
<1>6. Off(moved, 0, Width) /\ moved.x = SizeColumn
  <2>1. Width \in Nat /\ named.x <= Width
    BY <1>5, Sizes
  <2>2. moved.x = SizeColumn
    BY <1>1, <1>5 DEF Screens
  <2> QED
    BY <1>1, <1>3, <1>4, <2>1, <2>2, CleanRow
<1>7. Off(sized, 0, Width)
  <2>1. moved.x + Len(size) <= Width /\ Width \in Nat
    BY <1>4, <1>6, Sizes
  <2> QED
    BY <1>1, <1>4, <1>6, <2>1, TextInRow
<1>8. ended \in CleanScreens
  BY <1>1, <1>7, NewRowIsClean
<1>9. Clean(video', cursor')
  BY <1>2, <1>8, CleanOwn
<1>10. video' \in DrawnScreens /\ cursor' \in Cursors
  BY <1>9, CleanIsDrawn
<1> QED
  BY <1>2, <1>9, <1>10 DEF ConsoleInv

LEMMA RenderKeeps == ASSUME ConsoleInv, RenderDirectly PROVE ConsoleInv'
<1>1. ~ reading' /\ writer' = "program"
  BY DEF RenderDirectly, MayPrint
<1>2. video \in DrawnScreens /\ cursor \in Cursors
  BY DEF ConsoleInv
<1>3. ASSUME video' \in DrawnScreens, cursor' \in Cursors PROVE ConsoleInv'
  BY <1>1, <1>3 DEF ConsoleInv
<1>4. ASSUME NEW ch \in Glyphs, NEW spot \in Spots, UNCHANGED cursor,
             video' = UpdateScursor(PutcCore(UpdateScursor(video, spot), ch), video)
      PROVE  ConsoleInv'
  <2>1. spot \in Cursors /\ ch \in Inks
    BY InkTexts, RowAssumption DEF Cursors
  <2>2. PICK s, own : /\ s = PutcCore(UpdateScursor(video, spot), ch)
                      /\ own = CursorOf(video)
    OBVIOUS
  <2>3. s \in DrawnScreens
    BY <1>2, <2>1, <2>2, DrawnMoved, DrawnPutc
  <2>4. own \in Cursors /\ own.x = video.x /\ own.y = video.y
    BY <1>2, <2>2, CursorFacts DEF DrawnScreens
  <2>5. video' = UpdateScursor(s, own)
    BY <1>4, <2>2, <2>4 DEF UpdateScursor
  <2> QED
    BY <1>2, <1>3, <1>4, <2>3, <2>4, <2>5, DrawnMoved
<1>9. ASSUME NEW spot \in Spots, UNCHANGED cursor, video' = UpdateScursor(video, spot) PROVE ConsoleInv'
  <2>1. spot \in Cursors
    BY RowAssumption DEF Cursors
  <2> QED
    BY <1>2, <1>3, <1>9, <2>1, DrawnMoved
<1>5. ASSUME NEW ch \in Glyphs, UNCHANGED cursor, video' = PutcCore(video, ch) PROVE ConsoleInv'
  <2>1. ch \in Inks
    BY InkTexts
  <2> QED
    BY <1>2, <1>3, <1>5, <2>1, DrawnPutc
<1>6. CASE video' = Wiped /\ UNCHANGED cursor
  BY <1>2, <1>3, <1>6, WipedIsClean
<1>7. CASE SyncScursor(video)
  <2>1. video' = video /\ cursor' = CursorOf(video)
    BY <1>7 DEF SyncScursor, CursorOf
  <2>2. CursorOf(video) \in Cursors
    BY <1>2, CursorFacts DEF DrawnScreens
  <2> QED
    BY <1>2, <1>3, <2>1, <2>2
<1>8. \/ /\ \/ \E spot \in Spots : video' = UpdateScursor(video, spot)
            \/ \E ch \in Glyphs : video' = PutcCore(video, ch)
            \/ \E spot \in Spots, ch \in Glyphs :
                   video' = UpdateScursor(PutcCore(UpdateScursor(video, spot), ch), video)
         /\ UNCHANGED cursor
      \/ video' = Wiped /\ UNCHANGED cursor
      \/ SyncScursor(video)
  BY DEF RenderDirectly
<1> QED
  BY <1>4, <1>5, <1>6, <1>7, <1>8, <1>9

LEMMA AskKeeps == ASSUME ConsoleInv, AskForMore PROVE ConsoleInv'
<1>1. PICK n, s : n = Len(MoreText) /\ n \in Nat /\ s = video /\ n <= Width /\ MoreText \in Seq(Glyphs)
  BY RowAssumption
<1>2. PICK t : t = PrintText(s, MoreText)
  OBVIOUS
<1>3. /\ video' = t /\ cursor' = cursor /\ ~ reading' /\ writer' = "pager" /\ writer = "console"
      /\ cursor.x = 0 /\ UpdateScursor(video, cursor) = video
  BY <1>1, <1>2 DEF AskForMore, MayPrint
<1>4. Clean(s, cursor)
  BY <1>1, <1>3 DEF ConsoleInv
<1>5. s \in CleanScreens /\ CursorOf(s) = cursor
  BY <1>1, <1>3, <1>4, CleanSynced
<1>6. s \in Screens(Inks)
  BY <1>5 DEF CleanScreens
<1>7. s.x = 0 /\ s.y = cursor.y
  BY <1>3, <1>5, <1>6, CursorFacts
<1>8. Off(s, 0, n)
  <2>1. s = [s EXCEPT !.x = 0] /\ 0 \in 0 .. Width /\ s.x <= n
    BY <1>1, <1>6, <1>7, Sizes DEF Screens
  <2>2. Off([s EXCEPT !.x = 0], 0, n)
    BY <1>1, <1>5, <2>1, CleanRow
  <2> QED
    BY <2>1, <2>2
<1>9. Off(t, 0, n) /\ t.y = s.y
  <2>1. s.x + Len(MoreText) <= Width /\ s.x + Len(MoreText) <= n
    BY <1>1, <1>7
  <2> QED
    BY <1>1, <1>2, <1>8, <2>1, TextInRow
<1>10. Asked'
  BY <1>1, <1>3, <1>7, <1>9 DEF Asked
<1>11. video' \in DrawnScreens /\ cursor' \in Cursors
  BY <1>3, <1>9, OffIsDrawn DEF ConsoleInv
<1> QED
  BY <1>3, <1>10, <1>11 DEF ConsoleInv

LEMMA GoOnKeeps == ASSUME ConsoleInv, GoOn PROVE ConsoleInv'
<1>1. PICK n \in Nat : n = Len(MoreText) /\ n <= Width
  BY RowAssumption
<1>2. PICK s, t : s = [video EXCEPT !.x = 0] /\ t = Blanks(s, n)
  OBVIOUS
<1>3. /\ video' = t /\ cursor' = cursor /\ reading' = reading
      /\ writer = "pager" /\ writer' = "console"
  BY <1>1, <1>2 DEF GoOn
<1>4. cursor.x = 0 /\ cursor.y = video.y /\ Off(video, 0, n) /\ ~ reading /\ cursor \in Cursors
  BY <1>1, <1>3 DEF ConsoleInv, Asked
<1>5. PICK f \in Tapes : video \in Screens(Inks) /\ Painted(f, video) /\ Spared(f, RowStart(video), 0, n)
  BY <1>4 DEF Off
<1>6. s \in Screens(Inks) /\ s.cell = video.cell /\ s.gone = video.gone /\ s.y = video.y /\ s.x = 0
  <2>1. 0 \in 0 .. Width
    BY Sizes
  <2> QED
    BY <1>2, <1>5, <2>1 DEF Screens
<1>7. Off(s, 0, n)
  <2>1. Painted(f, s)
    BY <1>5, <1>6, SameCells
  <2>2. RowStart(s) = RowStart(video)
    BY <1>6 DEF RowStart
  <2> QED
    BY <1>5, <1>6, <2>1, <2>2 DEF Off
<1>8. Off(t, n, n) /\ t.y = s.y /\ t.gone = s.gone
  BY <1>1, <1>2, <1>6, <1>7, BlanksInRow
<1>9. PICK g \in Tapes : t \in Screens(Inks) /\ Painted(g, t) /\ Spared(g, RowStart(t), n, n)
  BY <1>8 DEF Off
<1>10. PICK base \in Nat : base = RowStart(t) /\ base = t.gone * Width + (cursor.y * Width + cursor.x)
  <2>1. t.gone \in Nat /\ t.y \in Nat /\ cursor.y = t.y /\ cursor.x = 0
    BY <1>4, <1>6, <1>8, <1>9, InkFields
  <2>2. (t.gone + t.y) * Width = t.gone * Width + t.y * Width /\ (t.gone + t.y) * Width \in Nat
    BY <2>1, Sizes
  <2>3. t.gone * Width \in Nat /\ t.y * Width \in Nat
    BY <2>1, Sizes
  <2>4. t.gone * Width + (t.y * Width + 0) = t.gone * Width + t.y * Width
    BY <2>3
  <2> QED
    BY <2>1, <2>2, <2>4 DEF RowStart
<1>11. Bare(g, base)
  <2> SUFFICES ASSUME NEW q \in Nat, q >= base PROVE g[q] = Blank
    BY DEF Bare
  <2>1. ~ (base + n <= q /\ q < base + n)
    OBVIOUS
  <2> QED
    BY <1>9, <1>10, <2>1 DEF Spared
<1>12. Clean(t, cursor)
  BY <1>4, <1>9, <1>10, <1>11 DEF Clean
<1>13. t \in DrawnScreens
  BY <1>12, CleanIsDrawn
<1> QED
  BY <1>3, <1>4, <1>12, <1>13 DEF ConsoleInv

LEMMA BeginKeeps == ASSUME ConsoleInv, BeginRead PROVE ConsoleInv'
<1>1. PICK s : s = UpdateScursor(video, cursor)
  OBVIOUS
<1>2. /\ video' = s /\ cursor' = cursor /\ input' = <<>> /\ start' = PlaceInAll(s)
      /\ writer = "console" /\ writer' = writer
  BY <1>1 DEF BeginRead
<1>3. s \in CleanScreens /\ CursorOf(s) = cursor
  <2>1. Clean(video, cursor)
    BY <1>2 DEF ConsoleInv
  <2> QED
    BY <1>1, <2>1, CleanSynced
<1>4. Clean(s, cursor)
  BY <1>3, CleanOwn
<1>5. Echo(s, <<>>, PlaceInAll(s))
  BY <1>3, EchoBegins
<1>6. Clean(video', cursor') /\ Echo(video', input', start') /\ cursor' = CursorOf(video')
  BY <1>2, <1>3, <1>4, <1>5
<1>7. video' \in DrawnScreens /\ cursor' \in Cursors
  BY <1>6, CleanIsDrawn
<1> QED
  BY <1>2, <1>6, <1>7 DEF ConsoleInv, Reads

(* Both cursors agree while a line is read.                                *)
LEMMA SyncedReading ==
    ASSUME ConsoleInv, reading
    PROVE  /\ Echo(video, input, start) /\ cursor = CursorOf(video)
           /\ UpdateScursor(video, cursor) = video
           /\ writer = "console" /\ Clean(video, cursor)
<1>0. writer = "console" /\ Clean(video, cursor)
  BY DEF ConsoleInv
<1>1. Echo(video, input, start) /\ cursor = CursorOf(video)
  BY DEF ConsoleInv, Reads
<1>2. video \in Screens(Inks)
  BY <1>1 DEF Echo
<1>3. cursor.x = video.x /\ cursor.y = video.y
  BY <1>1, <1>2, CursorFacts
<1>4. UpdateScursor(video, cursor) = [video EXCEPT !.x = video.x, !.y = video.y]
  BY <1>3 DEF UpdateScursor
<1>5. [video EXCEPT !.x = video.x, !.y = video.y] = video
  BY <1>2 DEF Screens
<1> QED
  BY <1>0, <1>1, <1>4, <1>5

LEMMA KeyKeeps == ASSUME ConsoleInv, NEW key \in Keys, Key(key) PROVE ConsoleInv'
<1>1. reading /\ reading' = reading /\ start' = start /\ writer' = writer
  BY DEF Key
<1>2. /\ Echo(video, input, start) /\ cursor = CursorOf(video)
      /\ UpdateScursor(video, cursor) = video
      /\ writer = "console" /\ Clean(video, cursor)
  BY <1>1, SyncedReading
<1>3. input \in Seq(Typed) /\ Len(input) \in Nat /\ video \in Screens(Inks)
  BY <1>2 DEF Echo
<1>5. ASSUME Echo(video', input', start'), cursor' = CursorOf(video') PROVE ConsoleInv'
  <2>1. video' \in CleanScreens
    BY <1>5, EchoIsClean
  <2>2. Clean(video', cursor')
    BY <1>5, <2>1, CleanOwn
  <2>3. video' \in DrawnScreens /\ cursor' \in Cursors
    BY <2>2, CleanIsDrawn
  <2> QED
    BY <1>1, <1>2, <1>5, <2>2, <2>3 DEF ConsoleInv, Reads
<1>6. ASSUME UNCHANGED <<video, cursor, input>> PROVE ConsoleInv'
  <2>1. Echo(video', input', start') /\ cursor' = CursorOf(video')
    BY <1>1, <1>2, <1>6
  <2> QED
    BY <1>5, <2>1
<1>7. ASSUME EraseKey PROVE ConsoleInv'
  <2>1. CASE Len(input) = 0
    BY <1>6, <1>7, <2>1 DEF EraseKey
  <2>2. CASE Len(input) # 0
    <3>1. PICK s : s = Erase(video, Last(input))
      OBVIOUS
    <3>2. video' = s /\ cursor' = CursorOf(s) /\ input' = SubSeq(input, 1, Len(input) - 1)
      BY <1>7, <2>2, <3>1 DEF EraseKey, SyncScursor, CursorOf
    <3>3. input # <<>>
      <4>1. Len(<<>>) = 0
        OBVIOUS
      <4> QED
        BY <2>2, <4>1
    <3>4. Echo(s, SubSeq(input, 1, Len(input) - 1), start)
      BY <1>2, <3>1, <3>3, EchoErased
    <3>5. Echo(video', input', start') /\ cursor' = CursorOf(video')
      BY <1>1, <3>2, <3>4
    <3> QED
      BY <1>5, <3>5
  <2> QED
    BY <2>1, <2>2
<1>8. ASSUME key \in Glyphs \cup {Tab, Escape}, ~ (Len(input) >= InputMaxChars),
             PrintAt(<<key>>), input' = Append(input, key)
      PROVE  ConsoleInv'
  <2>1. key \in Typed /\ key \in Inks
    BY <1>8, TypedInks DEF Typed
  <2>2. <<key>> \in Seq(Inks)
    BY <2>1
  <2>3. cursor' = CursorOf(video') /\ video' = PrintText(UpdateScursor(video, cursor), <<key>>)
    BY <1>2, <1>8, <2>2, PrintAtKeeps
  <2>4. video' = PrintChar(video, key)
    BY <1>2, <2>3, PrintKey
  <2>5. Len(input) < InputMaxChars
    BY <1>3, <1>8, ConsoleAssumption
  <2>6. Echo(PrintChar(video, key), Append(input, key), start)
    BY <1>2, <2>1, <2>5, EchoTyped
  <2>7. Echo(video', input', start')
    BY <1>1, <1>8, <2>4, <2>6
  <2> QED
    BY <1>5, <2>3, <2>7
<1>9. \/ key = Nul /\ UNCHANGED <<video, cursor, input>>
      \/ key = Backspace /\ EraseKey
      \/ /\ key \in Glyphs \cup {Tab, Escape}
         /\ IF Len(input) >= InputMaxChars THEN UNCHANGED <<video, cursor, input>>
            ELSE PrintAt(<<key>>) /\ input' = Append(input, key)
  BY DEF Key
<1> QED
  BY <1>6, <1>7, <1>8, <1>9

LEMMA EnterKeeps == ASSUME ConsoleInv, EnterKey PROVE ConsoleInv'
<1>1. PrintAt(<<NewLine>>) /\ ~ reading' /\ writer' = writer /\ writer = "console"
  BY SyncedReading DEF EnterKey
<1>2. <<NewLine>> \in Seq(Inks)
  BY InkTexts
<1>3. Clean(video', cursor') /\ video' \in DrawnScreens /\ cursor' \in Cursors
  BY <1>1, <1>2, PrintAtKeeps
<1> QED
  BY <1>1, <1>3 DEF ConsoleInv

LEMMA ConsoleKeeps == ASSUME ConsoleInv, [ConsoleNext]_consoleVars PROVE ConsoleInv'
<1>1. CASE ConsoleNext
  <2>1. CASE Clear
    BY <2>1, ClearKeeps
  <2>2. ASSUME NEW text \in Texts, WriteString(text) PROVE ConsoleInv'
    BY <2>2, WriteKeeps
  <2>3. CASE RenderDirectly
    BY <2>3, RenderKeeps
  <2>4. CASE BeginRead
    BY <2>4, BeginKeeps
  <2>5. ASSUME NEW key \in Keys, Key(key) PROVE ConsoleInv'
    BY <2>5, KeyKeeps
  <2>6. CASE EnterKey
    BY <2>6, EnterKeeps
  <2>7. ASSUME NEW name \in Texts, NEW size \in SizeTexts, ListFile(name, size) PROVE ConsoleInv'
    BY <2>7, ListKeeps
  <2>8. CASE AskForMore
    BY <2>8, AskKeeps
  <2>9. CASE GoOn
    BY <2>9, GoOnKeeps
  <2> QED
    BY <1>1, <2>1, <2>2, <2>3, <2>4, <2>5, <2>6, <2>7, <2>8, <2>9 DEF ConsoleNext
<1>2. CASE UNCHANGED consoleVars
  BY <1>2 DEF consoleVars, ConsoleInv, Reads, Asked
<1> QED
  BY <1>1, <1>2

(* In every behaviour of the console, whatever programs draw where they    *)
(* like and the paginator asks between two entries: the console has the    *)
(* screen only with nothing behind its cursor, and a line that is read is  *)
(* on the screen, with both cursors at its end.                            *)
THEOREM AlwaysConsoleInv == ConsoleSpec => []ConsoleInv
<1>1. ConsoleInit => ConsoleInv
  BY ConsoleStarts
<1>2. ConsoleInv /\ [ConsoleNext]_consoleVars => ConsoleInv'
  BY ConsoleKeeps
<1> QED
  BY <1>1, <1>2, PTL DEF ConsoleSpec

(* A cell of the screen, at its place on the tape.                         *)
LEMMA CellOnTape ==
    ASSUME NEW v \in Screens(Inks), NEW f \in Tapes, Painted(f, v), NEW p \in Nat, p < Width * Height
    PROVE  v.cell[p \div Width][p % Width] = f[v.gone * Width + p]
<1>1. PICK r \in Nat, c \in Columns : r = p \div Width /\ c = p % Width /\ p = r * Width + c
  BY Parts
<1>2. r \in Rows
  <2> SUFFICES ASSUME r >= Height PROVE FALSE
    BY Sizes DEF Rows
  <2>1. PICK d \in Nat : r = Height + d
    <3>1. r - Height \in Nat /\ r = Height + (r - Height)
      BY Sizes
    <3> QED
      BY <3>1
  <2>2. r * Width = Width * Height + d * Width /\ d * Width \in Nat /\ Width * Height \in Nat
    BY <2>1, Sizes
  <2>3. c \in Nat
    BY Sizes DEF Columns
  <2> QED
    BY <1>1, <2>2, <2>3
<1>3. v.cell[r][c] = f[(v.gone + r) * Width + c]
  BY <1>2 DEF Painted
<1>4. v.gone \in Nat /\ v.gone * Width \in Nat /\ r * Width \in Nat /\ c \in Nat
  <2>1. v.gone \in Nat /\ v.gone * Width \in Nat
    BY InkFields
  <2>2. r * Width \in Nat /\ c \in Nat
    BY Sizes DEF Columns
  <2> QED
    BY <2>1, <2>2
<1>5. (v.gone + r) * Width = v.gone * Width + r * Width
  BY <1>4, Sizes
<1>6. (v.gone + r) * Width + c = v.gone * Width + p
  BY <1>1, <1>4, <1>5
<1> QED
  BY <1>1, <1>3, <1>6

LEMMA EchoShows ==
    ASSUME Echo(video, input, start)
    PROVE  /\ start - video.gone * Width >= 0
           /\ Place(video) = (start - video.gone * Width) + Len(Shown)
           /\ \A i \in 1 .. Len(Shown) : CellAt((start - video.gone * Width) + i - 1) = Shown[i]
<1>1. /\ video \in Screens(Inks) /\ input \in Seq(Typed) /\ start \in Nat /\ video.gone * Width <= start
      /\ PlaceInAll(video) = start + Len(ShownOf(input))
  BY DEF Echo
<1>2. PICK f \in Tapes : Painted(f, video) /\ Spells(f, start, ShownOf(input))
  BY DEF Echo
<1>3. Shown = ShownOf(input)
  BY DEF Shown, ShownOf
<1>4. PICK m \in Nat : m = Len(Shown)
  BY <1>1, <1>3, ShownInks
<1>5. /\ Place(video) \in Nat /\ PlaceInAll(video) = video.gone * Width + Place(video)
      /\ video.gone * Width \in Nat
      /\ Place(video) = video.y * Width + video.x /\ video.y \in 0 .. Height - 1 /\ video.x \in 0 .. Width
  BY <1>1, InkFields
<1>6. PICK first \in Nat, g \in Nat : g = video.gone * Width /\ first = start - g /\ start = g + first
  <2>1. start - video.gone * Width \in Nat
    BY <1>1, <1>5
  <2> QED
    BY <1>1, <1>5, <2>1
<1>7. Place(video) = first + m
  <2>1. g + Place(video) = g + first + m
    BY <1>1, <1>3, <1>4, <1>5, <1>6
  <2>2. Place(video) \in Nat
    BY <1>5
  <2> QED
    BY <2>1, <2>2
<1>8. Place(video) <= Width * Height
  <2>1. PICK y \in Nat, x \in Nat : y = video.y /\ x = video.x /\ y <= Height - 1 /\ x <= Width
    BY <1>5, Sizes
  <2>2. PICK d \in Nat : Height = y + 1 + d
    <3>1. Height - (y + 1) \in Nat /\ Height = y + 1 + (Height - (y + 1))
      BY <2>1, Sizes
    <3> QED
      BY <3>1
  <2>3. Width * Height = y * Width + Width + d * Width /\ d * Width \in Nat /\ y * Width \in Nat
    BY <2>2, Sizes
  <2>4. Place(video) = y * Width + x
    BY <1>5, <2>1
  <2> QED
    BY <2>1, <2>3, <2>4, Sizes
<1>9. ASSUME NEW i \in 1 .. m PROVE CellAt(first + i - 1) = Shown[i]
  <2>1. PICK p \in Nat : p = first + i - 1 /\ p < Width * Height /\ g + p = start + i - 1
    <3>1. first + i - 1 \in Nat /\ first + i - 1 < first + m /\ g + (first + i - 1) = start + i - 1
      BY <1>6
    <3>2. Width * Height \in Nat
      BY Sizes
    <3>3. first + i - 1 < Width * Height
      BY <1>7, <1>8, <3>1, <3>2
    <3> QED
      BY <3>1, <3>3
  <2>2. CellAt(p) = f[g + p]
    BY <1>1, <1>2, <1>6, <2>1, CellOnTape DEF CellAt
  <2>3. f[start + i - 1] = Shown[i]
    BY <1>2, <1>3, <1>4 DEF Spells
  <2> QED
    BY <2>1, <2>2, <2>3
<1> QED
  BY <1>4, <1>6, <1>7, <1>9

LEMMA CleanShows ==
    ASSUME Clean(video, cursor), NEW p \in 0 .. Width * Height - 1, p >= cursor.y * Width + cursor.x
    PROVE  CellAt(p) = Blank
<1>1. video \in Screens(Inks) /\ cursor \in Cursors
  BY DEF Clean
<1>2. PICK f \in Tapes : Painted(f, video) /\ Bare(f, video.gone * Width + (cursor.y * Width + cursor.x))
  BY DEF Clean
<1>3. p \in Nat /\ p < Width * Height
  <2>1. Width * Height \in Nat
    BY Sizes
  <2> QED
    BY <2>1
<1>4. PICK b \in Nat : b = cursor.y * Width + cursor.x
  <2>1. cursor.y \in Nat /\ cursor.x \in Nat
    BY <1>1, Sizes DEF Cursors, Rows
  <2>2. cursor.y * Width \in Nat
    BY <2>1, Sizes
  <2> QED
    BY <2>1, <2>2
<1>5. video.gone * Width \in Nat
  BY <1>1, InkFields
<1>6. video.gone * Width + p \in Nat /\ video.gone * Width + p >= video.gone * Width + b
  BY <1>3, <1>4, <1>5
<1>7. f[video.gone * Width + p] = Blank
  BY <1>2, <1>4, <1>6 DEF Bare
<1>8. CellAt(p) = f[video.gone * Width + p]
  BY <1>1, <1>2, <1>3, CellOnTape DEF CellAt
<1> QED
  BY <1>7, <1>8

LEMMA InvShowsEcho == ConsoleInv => EchoIsInput
<1> SUFFICES ASSUME ConsoleInv PROVE EchoIsInput
  OBVIOUS
<1>1. (writer = "console" => Clean(video, cursor)) /\ (reading => Echo(video, input, start))
  BY DEF ConsoleInv, Reads
<1>2. ASSUME writer = "console"
      PROVE  \A p \in 0 .. Width * Height - 1 : p >= cursor.y * Width + cursor.x => CellAt(p) = Blank
  BY <1>1, <1>2, CleanShows
<1>3. ASSUME reading
      PROVE  /\ start - video.gone * Width >= 0
             /\ Place(video) = (start - video.gone * Width) + Len(Shown)
             /\ \A i \in 1 .. Len(Shown) : CellAt((start - video.gone * Width) + i - 1) = Shown[i]
  BY <1>1, <1>3, EchoShows
<1> QED
  BY <1>2, <1>3 DEF EchoIsInput

(* Whatever is printed, listed, drawn, typed, erased and scrolled, on a    *)
(* screen and with tabs of every size: the screen shows the line that is   *)
(* being read, and when no program has the screen, nothing behind the      *)
(* console's cursor.                                                       *)
THEOREM AlwaysEchoIsInput == ConsoleSpec => []EchoIsInput
BY AlwaysConsoleInv, InvShowsEcho, PTL

=============================================================================
