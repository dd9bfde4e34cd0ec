-------------------------- MODULE HttpRequestProofs --------------------------
(***************************************************************************)
(* Proofs about get_ranges: for files of every size, requests with any     *)
(* number of specs and numbers in them, and any widths of int and size_t;  *)
(* and about extract_post_data_items: for forms with any number of parts,  *)
(* data of every length and any number of calls.                           *)
(***************************************************************************)
EXTENDS HttpRequest, DataLemmas

-----------------------------------------------------------------------------
(* Ranges.                                                                 *)

\* A call that has met a spec it refuses is over.
StillValid == calling = "get_ranges" => valid

\* What holds while ranges are taken.
IInv ==
  /\ RangesTyped /\ StillValid
  /\ AskedBytesCovered /\ RangesInsideFile /\ RefusedForCause

\* The two subtractions of get_ranges stay in the range of size_t, and only wrap
\* when they must.
LEMMA MinusTyped ==
  ASSUME NEW a \in Numbers, NEW b \in Numbers
  PROVE  /\ Minus(a, b) \in Numbers
         /\ a >= b => Minus(a, b) = a - b
BY WordAssumption DEF Minus, Numbers

\* max_size - 1 is the last byte of a file that is not empty.
LEMMA LastByteTyped ==
  ASSUME max_size \in Numbers
  PROVE  /\ LastByte \in Numbers
         /\ max_size > 0 => LastByte = max_size - 1
<1>1. CASE max_size > 0
  BY <1>1, WordAssumption DEF LastByte, Minus, Numbers
<1>2. CASE max_size = 0
  BY <1>2, WordAssumption DEF LastByte, Minus, Numbers
<1>3. QED
  BY <1>1, <1>2 DEF Numbers

\* An int, whatever text atoi reads.
LEMMA AtoiTyped ==
  ASSUME NEW x \in Int \cup {Junk}
  PROVE  /\ Atoi(x) \in (-IntMax - 1)..IntMax
         /\ x \in 0..IntMax => Atoi(x) = x
<1>1. IntMax \in Nat /\ 0 \in (-IntMax - 1)..IntMax
  BY IntAssumption
<1>2. CASE x = Junk \/ x \in (-IntMax - 1)..IntMax
  BY <1>1, <1>2, NumbersAssumption DEF Atoi
<1>3. CASE ~(x = Junk \/ x \in (-IntMax - 1)..IntMax)
  <2>1. x \in Int /\ x \notin 0..IntMax /\ Atoi(x) = Cut(x)
    BY <1>1, <1>3 DEF Atoi
  <2>2. PICK long \in Int, width \in Nat \ {0} :
          /\ width = 2 * (IntMax + 1)
          /\ Cut(x) = IF long % width > IntMax THEN (long % width) - width ELSE long % width
    <3>1. Word \div 2 - 1 \in Int
      BY WordAssumption
    <3>2. PICK longMax \in Int : longMax = Word \div 2 - 1
      BY <3>1
    <3>3. PICK long \in Int :
            long = IF x > longMax THEN longMax ELSE IF x < -longMax - 1 THEN -longMax - 1 ELSE x
      BY <2>1
    <3>4. 2 * (IntMax + 1) \in Nat \ {0}
      BY <1>1
    <3> QED BY <3>2, <3>3, <3>4 DEF Cut
  <2>3. long % width \in 0..(width - 1)
    OBVIOUS
  <2>4. PICK bits \in 0..(width - 1) : bits = long % width
    BY <2>3
  <2> QED BY <1>1, <2>1, <2>2, <2>4
<1> QED BY <1>2, <1>3

\* Numbers that fit into an int come through both conversions as they are.
LEMMA ValueTyped ==
  ASSUME NEW x \in Int \cup {Junk}
  PROVE  Value(x) \in Numbers /\ (x \in 0..IntMax => Value(x) = x)
<1>1. PICK n \in (-IntMax - 1)..IntMax : n = Atoi(x) /\ (x \in 0..IntMax => n = x)
  BY AtoiTyped
<1>2. IntMax \in Nat /\ Word \in Nat /\ 2 * (IntMax + 1) < Word
  BY IntAssumption, WordAssumption
<1>3. Value(x) = IF n < 0 THEN n + Word ELSE n
  BY <1>1 DEF Value
<1>4. x \in 0..IntMax => x = n /\ ~(n < 0)
  BY <1>1, <1>2
<1> QED BY <1>1, <1>2, <1>3, <1>4 DEF Numbers

\* What the properties say of a range r for the spec s.
Covers(r, s) ==
  Shorter(s) /\ Fits(s.first) /\ Fits(s.last) =>
    Wanted(s, max_size) \subseteq r.start..r.end

StartsInside(r, s) ==
  max_size > 0 /\ Shorter(s) /\ (s.first = None => Fits(s.last)) =>
    /\ r.start < max_size
    /\ \/ r.end < max_size
       \/ s.first # None /\ (Fits(s.last) => r.end = s.last)

\* A spec that the loop takes has a range with numbers for its ends that covers
\* what the spec asks for, and starts inside the file.
LEMMA RangeOfTaken ==
  ASSUME NEW s \in Specs, max_size \in Numbers,
         ~Unsatisfiable(s), ~Malformed(s)
  PROVE  /\ RangeOf(s) \in [start : Numbers, end : Numbers]
         /\ Covers(RangeOf(s), s) /\ StartsInside(RangeOf(s), s)
<1> DEFINE r == RangeOf(s)
<1>1. LastByte \in Numbers /\ (max_size > 0 => LastByte = max_size - 1)
  BY LastByteTyped
<1>2. /\ s.first \in Nat \cup {None, Junk}
      /\ s.last \in Nat \cup {None, Junk} \/ (s.first = None /\ s.last \in Int)
  BY DEF Specs
<1>3. 0 \in Numbers /\ Numbers \subseteq Nat /\ IntMax \in Nat
  BY WordAssumption, IntAssumption DEF Numbers
<1>4. CASE s.first # None
  <2>1. s.first \in Nat \cup {Junk} /\ (s.last = None \/ s.last \in Nat \cup {Junk})
    BY <1>2, <1>4
  <2>2. r = [start |-> Value(s.first), end |-> EndOrLast(s.last)]
    BY <1>4 DEF RangeOf
  <2>3. Value(s.first) \in Numbers /\ Value(s.first) < LastByte
    <3>1. s.first \in Int \cup {Junk}
      BY <2>1
    <3>2. PICK v \in Numbers : v = Value(s.first)
      BY <3>1, ValueTyped
    <3>3. PICK l \in Nat : l = LastByte
      BY <1>1, <1>3
    <3>4. ~(v >= l)
      BY <3>2, <3>3, <1>4 DEF Unsatisfiable
    <3>5. v < l
      BY <3>4, <1>3
    <3> QED BY <3>2, <3>3, <3>5
  <2>4. max_size > 0 => Value(s.first) < max_size
    <3>1. PICK v \in Nat : v = Value(s.first)
      BY <2>3, <1>3
    <3> QED BY <3>1, <2>3, <1>1, <1>3
  <2>5. Value(Junk) = 0 /\ Junk \notin {None, 0}
    BY NumbersAssumption, IntAssumption DEF Value, Atoi
  <2>6. s.first # Junk /\ s.last # Junk
    BY <1>4, <2>5 DEF Malformed
  <2>7. Fits(s.first) => Value(s.first) = s.first
    BY <2>1, <2>6, <1>3, ValueTyped DEF Fits
  <2>8. CASE s.last = None
    <3>1. r = [start |-> Value(s.first), end |-> LastByte]
      BY <2>2, <2>8 DEF EndOrLast
    <3>2. Fits(s.first) => Wanted(s, max_size) \subseteq Value(s.first)..LastByte
      <4> SUFFICES ASSUME Fits(s.first), NEW b \in Wanted(s, max_size)
                   PROVE  b \in Value(s.first)..LastByte
        OBVIOUS
      <4>1. b \in 0..(max_size - 1) /\ b >= s.first
        BY <1>4 DEF Wanted
      <4> QED BY <4>1, <2>3, <2>7, <1>1, <1>3
    <3> QED BY <3>1, <3>2, <2>3, <2>4, <1>1, <1>3 DEF Covers, StartsInside
  <2>9. CASE s.last # None
    <3>1. s.last \in Nat
      BY <2>1, <2>6, <2>9
    <3>2. Value(s.last) \in Numbers /\ (Fits(s.last) => Value(s.last) = s.last)
      BY <3>1, <1>3, ValueTyped DEF Fits
    <3>3. r = [start |-> Value(s.first), end |-> Value(s.last)]
      BY <2>2, <2>9 DEF EndOrLast
    <3>4. Fits(s.first) /\ Fits(s.last) =>
            Wanted(s, max_size) \subseteq Value(s.first)..Value(s.last)
      <4> SUFFICES ASSUME Fits(s.first), Fits(s.last), NEW b \in Wanted(s, max_size)
                   PROVE  b \in Value(s.first)..Value(s.last)
        OBVIOUS
      <4>1. b \in 0..(max_size - 1) /\ b >= s.first /\ b <= s.last
        BY <1>4, <2>9 DEF Wanted
      <4> QED BY <4>1, <2>3, <2>7, <3>1, <3>2, <1>3
    <3> QED BY <3>2, <3>3, <3>4, <2>3, <2>4, <1>4 DEF Covers, StartsInside
  <2> QED BY <2>8, <2>9
<1>5. CASE s.first = None /\ s.last = None
  <2>1. r = [start |-> 0, end |-> 0]
    BY <1>5 DEF RangeOf
  <2>2. Wanted(s, max_size) = {}
    BY <1>5 DEF Wanted
  <2>3. max_size > 0 => 0 < max_size
    BY <1>3
  <2> QED BY <2>1, <2>2, <2>3, <1>3 DEF Covers, StartsInside
<1>6. CASE s.first = None /\ s.last # None
  <2>1. s.last \in Int \cup {Junk}
    BY <1>2, <1>6
  <2>2. Value(s.last) \in Numbers /\ Value(s.last) # 0
    BY <2>1, <1>6, ValueTyped DEF Malformed
  <2>3. r = [start |-> SuffixStart(Value(s.last)), end |-> LastByte]
    BY <1>6 DEF RangeOf
  <2>4. /\ SuffixStart(Value(s.last)) \in Numbers
        /\ LastByte >= Value(s.last) => SuffixStart(Value(s.last)) = LastByte - Value(s.last)
    BY <1>1, <2>2, MinusTyped DEF SuffixStart
  <2>5. r \in [start : Numbers, end : Numbers]
    BY <2>3, <2>4, <1>1
  <2>6. CASE Shorter(s) /\ Fits(s.last)
    <3>1. s.last \in 0..(max_size - 1) /\ s.last \in 0..IntMax /\ Value(s.last) = s.last
      <4>1. s.last \in 0..(max_size - 1)
        BY <1>6, <2>6 DEF Shorter
      <4>2. s.last \in 0..IntMax
        BY <4>1, <2>6, <1>3 DEF Fits
      <4> QED BY <4>1, <4>2, <2>1, ValueTyped
    <3>2. /\ max_size > 0 /\ LastByte = max_size - 1
          /\ SuffixStart(Value(s.last)) = max_size - 1 - s.last
      BY <3>1, <2>2, <2>4, <1>1, <1>3
    <3>3. Wanted(s, max_size) \subseteq SuffixStart(Value(s.last))..LastByte
      <4> SUFFICES ASSUME NEW b \in Wanted(s, max_size)
                   PROVE  b \in SuffixStart(Value(s.last))..LastByte
        OBVIOUS
      <4>1. b \in 0..(max_size - 1) /\ b >= max_size - s.last
        BY <1>6 DEF Wanted
      <4> QED BY <4>1, <3>1, <3>2, <1>3
    <3> QED BY <2>3, <2>5, <3>1, <3>2, <3>3, <1>3 DEF Covers, StartsInside
  <2>7. CASE ~(Shorter(s) /\ Fits(s.last))
    BY <1>6, <2>5, <2>7 DEF Covers, StartsInside
  <2> QED BY <2>6, <2>7
<1> QED BY <1>4, <1>5, <1>6

\* What http_send_file refuses is malformed, starts at a number that does not fit, or
\* asks for the last byte at most.
LEMMA RefusedSpec ==
  ASSUME NEW s \in Specs, max_size \in Numbers, Unsatisfiable(s)
  PROVE  /\ s.first # None
         /\ \/ Malformed(s) \/ ~Fits(s.first)
            \/ Wanted(s, max_size) \subseteq {max_size - 1}
<1>1. s.first # None
  BY DEF Unsatisfiable
<1>2. CASE ~Malformed(s) /\ Fits(s.first)
  <2>1. Value(Junk) = 0 /\ Junk \notin {None, 0}
    BY NumbersAssumption, IntAssumption DEF Value, Atoi
  <2>2. s.first \in Nat
    BY <1>1, <1>2, <2>1 DEF Malformed, Specs
  <2>3. Value(s.first) = s.first
    BY <1>2, <2>2, IntAssumption, ValueTyped DEF Fits
  <2>4. s.first >= LastByte
    BY <2>3 DEF Unsatisfiable
  <2>5. max_size > 0 => LastByte = max_size - 1
    BY LastByteTyped
  <2> QED BY <1>1, <2>2, <2>4, <2>5, WordAssumption DEF Wanted, Numbers
<1> QED BY <1>1, <1>2

-----------------------------------------------------------------------------
\* There are no ranges yet.
LEMMA InitInv == Init => IInv
<1> SUFFICES ASSUME Init PROVE IInv
  OBVIOUS
<1>1. range_str \in Seq(Specs)
  BY RangeStrsAssumption DEF Init
<1>2. RangesTyped
  BY <1>1, WordAssumption DEF Init, RangesTyped, Numbers
<1>3. QED
  BY <1>2 DEF Init, IInv, StillValid, AskedBytesCovered, RangesInsideFile, RefusedForCause

\* The call begins with an empty list.
LEMMA GetRangesInv ==
  ASSUME IInv, NEW size \in Sizes, GetRanges(size)
  PROVE  IInv'
<1>1. range_str \in Seq(Specs)
  BY DEF IInv, RangesTyped
<1>2. RangesTyped'
  BY <1>1, WordAssumption DEF IInv, RangesTyped, GetRanges
<1>3. QED
  BY <1>2
     DEF GetRanges, IInv, StillValid, AskedBytesCovered, RangesInsideFile, RefusedForCause

\* The list grows by the range of the spec that strtok_r has returned.
LEMMA TakeRangeInv ==
  ASSUME IInv, TakeRange
  PROVE  IInv'
<1> DEFINE s == range_str[tok]
<1>1. range_str \in Seq(Specs) /\ tok \in 1..Len(range_str) /\ max_size \in Numbers
  BY DEF IInv, RangesTyped, TakeRange
<1>2. s \in Specs
  BY <1>1
<1>3. /\ RangeOf(s) \in [start : Numbers, end : Numbers]
      /\ Covers(RangeOf(s), s) /\ StartsInside(RangeOf(s), s)
  <2>1. ~Unsatisfiable(s) /\ ~Malformed(s)
    BY DEF TakeRange
  <2>2. QED
    BY <1>1, <1>2, <2>1, RangeOfTaken
<1>4. /\ ranges \in Seq([start : Numbers, end : Numbers]) /\ Len(ranges) = tok - 1
      /\ ranges' = Append(ranges, RangeOf(s)) /\ tok' = tok + 1
      /\ UNCHANGED <<calling, calls, range_str, max_size, valid>>
  BY DEF IInv, RangesTyped, TakeRange
<1>5. /\ ranges' \in Seq([start : Numbers, end : Numbers]) /\ Len(ranges') = tok' - 1
      /\ DOMAIN ranges' = DOMAIN ranges \cup {tok}
      /\ \A k \in DOMAIN ranges : ranges'[k] = ranges[k]
      /\ ranges'[tok] = RangeOf(s)
  BY <1>1, <1>3, <1>4
<1>6. RangesTyped'
  BY <1>1, <1>4, <1>5 DEF IInv, RangesTyped
<1>7. AskedBytesCovered'
  <2> SUFFICES ASSUME NEW k \in DOMAIN ranges'
               PROVE  Covers(ranges'[k], range_str[k])
    BY <1>4 DEF AskedBytesCovered, Covers, Shorter, Wanted
  <2>1. CASE k = tok
    BY <2>1, <1>3, <1>5
  <2>2. CASE k \in DOMAIN ranges
    BY <2>2, <1>5 DEF IInv, AskedBytesCovered, Covers
  <2>3. QED
    BY <2>1, <2>2, <1>5
<1>8. RangesInsideFile'
  <2> SUFFICES ASSUME NEW k \in DOMAIN ranges'
               PROVE  StartsInside(ranges'[k], range_str[k])
    BY <1>4 DEF RangesInsideFile, StartsInside, Shorter
  <2>1. CASE k = tok
    BY <2>1, <1>3, <1>5
  <2>2. CASE k \in DOMAIN ranges
    BY <2>2, <1>5 DEF IInv, RangesInsideFile, StartsInside
  <2>3. QED
    BY <2>1, <2>2, <1>5
<1>9. StillValid' /\ RefusedForCause'
  BY <1>4 DEF IInv, StillValid, RefusedForCause, TakeRange
<1>10. QED
  BY <1>6, <1>7, <1>8, <1>9 DEF IInv

\* The list stays as it is; valid may become false.
LEMMA ReturnRangesInv ==
  ASSUME IInv, ReturnRanges
  PROVE  IInv'
<1>1. /\ range_str \in Seq(Specs) /\ max_size \in Numbers /\ valid = TRUE
      /\ UNCHANGED <<range_str, tok, max_size, ranges>>
  BY DEF IInv, RangesTyped, StillValid, ReturnRanges
<1>2. RangesTyped'
  <2>1. valid' \in BOOLEAN
    BY <1>1 DEF ReturnRanges
  <2>2. calls' \in Nat
    BY DEF IInv, RangesTyped, ReturnRanges
  <2>3. QED
    BY <1>1, <2>1, <2>2 DEF IInv, RangesTyped
<1>3. AskedBytesCovered' /\ RangesInsideFile'
  BY <1>1 DEF IInv, AskedBytesCovered, RangesInsideFile, Shorter, Wanted
<1>4. StillValid'
  BY DEF ReturnRanges, StillValid
<1>5. RefusedForCause'
  <2>1. CASE valid' = TRUE
    BY <2>1 DEF RefusedForCause
  <2>2. CASE valid' # TRUE
    <3>1. tok \in 1..Len(range_str) /\ Unsatisfiable(range_str[tok])
      <4>1. tok <= Len(range_str) /\ Unsatisfiable(range_str[tok])
        BY <2>2, <1>1, Zenon DEF ReturnRanges
      <4>2. tok \in 1..(Len(range_str) + 1) /\ Len(range_str) \in Nat
        BY <1>1 DEF IInv, RangesTyped
      <4>3. QED
        BY <4>1, <4>2
    <3>2. range_str[tok] \in Specs
      BY <1>1, <3>1
    <3>3. /\ range_str[tok].first # None
          /\ \/ Malformed(range_str[tok]) \/ ~Fits(range_str[tok].first)
             \/ Wanted(range_str[tok], max_size) \subseteq {max_size - 1}
      BY <1>1, <3>1, <3>2, RefusedSpec
    <3>4. QED
      BY <1>1, <3>1, <3>3 DEF RefusedForCause, Malformed, Wanted
  <2>3. QED
    BY <2>1, <2>2
<1>6. QED
  BY <1>2, <1>3, <1>4, <1>5 DEF IInv

\* Extracting items has nothing to do with ranges.
LEMMA OtherInv ==
  ASSUME IInv, ExtractItem \/ Extract \/ ReturnItems \/ UNCHANGED vars
  PROVE  IInv'
<1>1. UNCHANGED rangeVars /\ (calling' = "get_ranges" => calling = "get_ranges")
  BY DEF ExtractItem, Extract, ReturnItems, vars, rangeVars
<1>2. calls' = calls \/ calls' = calls + 1
  BY DEF ExtractItem, Extract, ReturnItems, vars
<1>3. calls' \in Nat
  BY <1>2 DEF IInv, RangesTyped
<1>4. QED
  BY <1>1, <1>3 DEF rangeVars, IInv, RangesTyped, StillValid, AskedBytesCovered,
              RangesInsideFile, RefusedForCause, Shorter, Wanted, Malformed

\* The invariant of the ranges.
LEMMA Invariance == Spec => []IInv
<1>1. IInv /\ [Next]_vars => IInv'
  <2> SUFFICES ASSUME IInv, [Next]_vars PROVE IInv'
    OBVIOUS
  <2>1. CASE \E size \in Sizes : GetRanges(size)
    BY <2>1, GetRangesInv
  <2>2. CASE TakeRange
    BY <2>2, TakeRangeInv
  <2>3. CASE ReturnRanges
    BY <2>3, ReturnRangesInv
  <2>4. CASE ExtractItem \/ Extract \/ ReturnItems \/ UNCHANGED vars
    BY <2>4, OtherInv
  <2>5. QED
    BY <2>1, <2>2, <2>3, <2>4 DEF Next
<1>2. QED
  BY InitInv, <1>1, PTL DEF Spec

-----------------------------------------------------------------------------
\* get_ranges computes in size_t without leaving it, and has one range for each
\* spec it has got past.
THEOREM RangesAreTyped == Spec => []RangesTyped
<1>1. IInv => RangesTyped
  BY DEF IInv
<1>2. QED
  BY Invariance, <1>1, PTL

\* However many specs a request has, and however large the file is, each range has
\* all the bytes that its spec asks for in numbers that an int holds.
THEOREM NothingAskedIsMissing == Spec => []AskedBytesCovered
<1>1. IInv => AskedBytesCovered
  BY DEF IInv
<1>2. QED
  BY Invariance, <1>1, PTL

\* Ranges start inside the file, whatever number the request starts them at, and end
\* inside it, where the request says, or where an int has cut what it says.
THEOREM RangesStartInside == Spec => []RangesInsideFile
<1>1. IInv => RangesInsideFile
  BY DEF IInv
<1>2. QED
  BY Invariance, <1>1, PTL

\* What is refused asked for the last byte at most, or started at a number that an int
\* does not hold.
THEOREM RefusalsHaveACause == Spec => []RefusedForCause
<1>1. IInv => RefusedForCause
  BY DEF IInv
<1>2. QED
  BY Invariance, <1>1, PTL

-----------------------------------------------------------------------------
(* Forms: the text of a part.                                              *)

\* What parts consist of besides their boundaries.
Plains == Words \cup Keys \cup {"form-data", "field", "path", "mime"}

\* The number of fields before the line break that ends the names.
NamesLen(p) == IF p.file THEN 10 ELSE 6

\* The number of fields.
FieldsLen(p) == NamesLen(p) + (IF p.type THEN 5 ELSE 2)

\* What is where in the fields of a part.
IsFields(p, s) ==
  /\ s \in Seq(Plains) /\ Len(s) = FieldsLen(p)
  /\ s[1] = "Content-Disposition" /\ s[2] = "form-data" /\ s[3] = "semicolon"
  /\ s[4] = "name=" /\ s[5] = "field" /\ s[6] = "quote"
  /\ p.file => s[7] = "semicolon" /\ s[8] = "filename=" /\ s[9] = "path" /\ s[10] = "quote"
  /\ s[NamesLen(p) + 1] = "CRLF"
  /\ p.type => /\ s[NamesLen(p) + 2] = "Content-Type" /\ s[NamesLen(p) + 3] = "mime"
               /\ s[NamesLen(p) + 4] = "CRLF"
  /\ s[FieldsLen(p)] = "CRLF"

\* The fields of a part, one by one.
LEMMA FieldsLayout ==
  ASSUME NEW p \in FormParts
  PROVE  IsFields(p, Fields(p))
<1>1. /\ "Content-Disposition" \in Plains /\ "form-data" \in Plains
      /\ "semicolon" \in Plains /\ "name=" \in Plains /\ "field" \in Plains /\ "quote" \in Plains
      /\ "filename=" \in Plains /\ "path" \in Plains /\ "CRLF" \in Plains
      /\ "Content-Type" \in Plains /\ "mime" \in Plains
  BY DEF Plains, Keys
<1>2. PICK a :
        a = <<"Content-Disposition", "form-data", "semicolon", "name=", "field", "quote">>
  OBVIOUS
<1>3. PICK b : b = IF p.file THEN <<"semicolon", "filename=", "path", "quote">> ELSE <<>>
  OBVIOUS
<1>4. PICK c : c = <<"CRLF">>
  OBVIOUS
<1>5. PICK d : d = IF p.type THEN <<"Content-Type", "mime", "CRLF">> ELSE <<>>
  OBVIOUS
<1>6. /\ a \in Seq(Plains) /\ Len(a) = 6
      /\ a[1] = "Content-Disposition" /\ a[2] = "form-data" /\ a[3] = "semicolon"
      /\ a[4] = "name=" /\ a[5] = "field" /\ a[6] = "quote"
  BY <1>1, <1>2
<1>7. /\ b \in Seq(Plains)
      /\ ~p.file => Len(b) = 0
      /\ p.file => /\ Len(b) = 4 /\ b[1] = "semicolon" /\ b[2] = "filename="
                   /\ b[3] = "path" /\ b[4] = "quote"
  <2>1. CASE p.file
    BY <1>1, <1>3, <2>1
  <2>2. CASE ~p.file
    BY <1>1, <1>3, <2>2
  <2> QED BY <2>1, <2>2
<1>8. c \in Seq(Plains) /\ Len(c) = 1 /\ c[1] = "CRLF"
  BY <1>1, <1>4
<1>9. /\ d \in Seq(Plains)
      /\ ~p.type => Len(d) = 0
      /\ p.type => Len(d) = 3 /\ d[1] = "Content-Type" /\ d[2] = "mime" /\ d[3] = "CRLF"
  <2>1. CASE p.type
    BY <1>1, <1>5, <2>1
  <2>2. CASE ~p.type
    BY <1>1, <1>5, <2>2
  <2> QED BY <2>1, <2>2
<1>10. PICK ab : ab = Joined(a, b)
  OBVIOUS
<1>11. PICK abc : abc = Joined(ab, c)
  OBVIOUS
<1>12. PICK abcd : abcd = Joined(abc, d)
  OBVIOUS
<1>13. PICK s : s = Joined(abcd, c)
  OBVIOUS
<1>14. PICK n : n = NamesLen(p)
  OBVIOUS
<1>15. n \in {6, 10} /\ (p.file => n = 10) /\ (~p.file => n = 6)
  BY <1>14 DEF NamesLen
<1>16. /\ ab \in Seq(Plains) /\ Len(ab) = n
       /\ \A i \in 1..6 : ab[i] = a[i]
       /\ p.file => \A i \in 1..4 : ab[6 + i] = b[i]
  <2>1. /\ ab \in Seq(Plains) /\ Len(ab) = Len(a) + Len(b)
        /\ \A i \in 1..Len(a) : ab[i] = a[i]
        /\ \A i \in 1..Len(b) : ab[Len(a) + i] = b[i]
    <3>1. a \in Seq(Plains) /\ b \in Seq(Plains)
      BY <1>6, <1>7
    <3>2. ab \in Seq(Plains) /\ IsJoined(ab, a, b)
      BY <3>1, <1>10, JoinedIndices
    <3> QED BY <3>2 DEF IsJoined
  <2>2. Len(a) = 6
    BY <1>6
  <2>3. CASE p.file
    <3>1. Len(b) = 4 /\ n = 10
      BY <1>7, <1>15, <2>3
    <3> QED BY <2>1, <2>2, <3>1
  <2>4. CASE ~p.file
    <3>1. Len(b) = 0 /\ n = 6
      BY <1>7, <1>15, <2>4
    <3> QED BY <2>1, <2>2, <2>4, <3>1
  <2> QED BY <2>3, <2>4
<1>17. /\ abc \in Seq(Plains) /\ Len(abc) = n + 1
       /\ \A i \in 1..n : abc[i] = ab[i]
       /\ abc[n + 1] = "CRLF"
  <2>1. /\ abc \in Seq(Plains) /\ Len(abc) = Len(ab) + Len(c)
        /\ \A i \in 1..Len(ab) : abc[i] = ab[i]
        /\ \A i \in 1..Len(c) : abc[Len(ab) + i] = c[i]
    <3>1. ab \in Seq(Plains) /\ c \in Seq(Plains)
      BY <1>8, <1>16
    <3>2. abc \in Seq(Plains) /\ IsJoined(abc, ab, c)
      BY <3>1, <1>11, JoinedIndices
    <3> QED BY <3>2 DEF IsJoined
  <2> QED BY <1>8, <1>16, <1>15, <2>1
<1>18. /\ abcd \in Seq(Plains) /\ Len(abcd) = n + 1 + Len(d)
       /\ \A i \in 1..(n + 1) : abcd[i] = abc[i]
       /\ p.type => \A i \in 1..3 : abcd[n + 1 + i] = d[i]
  <2>1. /\ abcd \in Seq(Plains) /\ Len(abcd) = Len(abc) + Len(d)
        /\ \A i \in 1..Len(abc) : abcd[i] = abc[i]
        /\ \A i \in 1..Len(d) : abcd[Len(abc) + i] = d[i]
    <3>1. abc \in Seq(Plains) /\ d \in Seq(Plains)
      BY <1>9, <1>17
    <3>2. abcd \in Seq(Plains) /\ IsJoined(abcd, abc, d)
      BY <3>1, <1>12, JoinedIndices
    <3> QED BY <3>2 DEF IsJoined
  <2> QED BY <1>9, <1>17, <1>15, <2>1
<1>19. /\ s \in Seq(Plains) /\ Len(s) = FieldsLen(p) /\ FieldsLen(p) = n + 2 + Len(d)
       /\ \A i \in 1..(n + 1 + Len(d)) : s[i] = abcd[i]
       /\ s[n + 2 + Len(d)] = "CRLF"
  <2>1. /\ s \in Seq(Plains) /\ Len(s) = Len(abcd) + Len(c)
        /\ \A i \in 1..Len(abcd) : s[i] = abcd[i]
        /\ \A i \in 1..Len(c) : s[Len(abcd) + i] = c[i]
    <3>1. abcd \in Seq(Plains) /\ c \in Seq(Plains)
      BY <1>8, <1>18
    <3>2. s \in Seq(Plains) /\ IsJoined(s, abcd, c)
      BY <3>1, <1>13, JoinedIndices
    <3> QED BY <3>2 DEF IsJoined
  <2>2. Len(d) \in {0, 3} /\ FieldsLen(p) = n + 2 + Len(d)
    <3>1. CASE p.type
      <4>1. Len(d) = 3
        BY <1>9, <3>1
      <4>2. FieldsLen(p) = n + 5 /\ n \in Int
        BY <1>15, <1>14, <3>1 DEF FieldsLen
      <4> QED BY <4>1, <4>2
    <3>2. CASE ~p.type
      BY <1>9, <1>15, <1>14, <3>2 DEF FieldsLen
    <3> QED BY <3>1, <3>2
  <2> QED BY <1>8, <1>15, <1>18, <2>1, <2>2
<1>20. /\ \A i \in 1..n : s[i] = ab[i]
       /\ s[n + 1] = "CRLF"
       /\ p.type => \A i \in 1..3 : s[n + 1 + i] = d[i]
  <2>1. Len(d) \in {0, 3} /\ (p.type => Len(d) = 3)
    BY <1>9
  <2> QED BY <1>15, <1>17, <1>18, <1>19, <2>1
<1>21. /\ s[1] = "Content-Disposition" /\ s[2] = "form-data" /\ s[3] = "semicolon"
       /\ s[4] = "name=" /\ s[5] = "field" /\ s[6] = "quote"
  <2>1. \A i \in 1..6 : s[i] = a[i]
    BY <1>15, <1>16, <1>20
  <2> QED BY <2>1, <1>6
<1>22. p.file => s[7] = "semicolon" /\ s[8] = "filename=" /\ s[9] = "path" /\ s[10] = "quote"
  <2>1. p.file => \A i \in 1..4 : s[6 + i] = b[i]
    BY <1>15, <1>16, <1>20
  <2>2. p.file => s[6 + 1] = b[1] /\ s[6 + 2] = b[2] /\ s[6 + 3] = b[3] /\ s[6 + 4] = b[4]
    BY <2>1
  <2> QED BY <2>2, <1>7
<1>23. p.type => /\ s[n + 2] = "Content-Type" /\ s[n + 3] = "mime" /\ s[n + 4] = "CRLF"
  <2>1. p.type => s[n + 1 + 1] = d[1] /\ s[n + 1 + 2] = d[2] /\ s[n + 1 + 3] = d[3]
    BY <1>20
  <2>2. n + 1 + 1 = n + 2 /\ n + 1 + 2 = n + 3 /\ n + 1 + 3 = n + 4
    BY <1>15
  <2> QED BY <2>1, <2>2, <1>9
<1>24. Fields(p) = s
  BY <1>2, <1>3, <1>4, <1>5, <1>10, <1>11, <1>12, <1>13 DEF Fields, Joined
<1> QED BY <1>14, <1>19, <1>20, <1>21, <1>22, <1>23, <1>24 DEF IsFields

\* What a form consists of.
Tokens == Plains \cup {"boundary", "boundary_last"}

\* What is where in the text of a part.
IsPart(p, s) ==
  /\ Len(s) = FieldsLen(p) + Len(p.data) + 2
  /\ s[1] = "boundary"
  /\ \A i \in 1..FieldsLen(p) : s[1 + i] = Fields(p)[i]
  /\ \A i \in 1..Len(p.data) : s[1 + FieldsLen(p) + i] = p.data[i]
  /\ s[Len(s)] = "CRLF"

\* There are few numbers of fields.
LEMMA FieldsLenTyped ==
  ASSUME NEW p PROVE FieldsLen(p) \in 8..15 /\ NamesLen(p) \in {6, 10}
BY DEF FieldsLen, NamesLen

\* The boundary, the fields, the data and the break of a part.
LEMMA PartLayout ==
  ASSUME NEW p \in FormParts
  PROVE  PartText(p) \in Seq(Tokens) /\ IsPart(p, PartText(p))
<1>1. PICK a : a = <<"boundary">>
  OBVIOUS
<1>2. PICK b : b = Fields(p)
  OBVIOUS
<1>3. PICK c : c = p.data
  OBVIOUS
<1>4. PICK d : d = <<"CRLF">>
  OBVIOUS
<1>5. a \in Seq(Tokens) /\ Len(a) = 1 /\ a[1] = "boundary"
  <2>1. "boundary" \in Tokens
    BY DEF Tokens
  <2> QED BY <1>1, <2>1
<1>6. b \in Seq(Tokens) /\ Len(b) = FieldsLen(p)
  <2>1. b \in Seq(Plains) /\ Len(b) = FieldsLen(p)
    BY <1>2, FieldsLayout DEF IsFields
  <2>2. Plains \subseteq Tokens
    BY DEF Tokens
  <2> HIDE DEF Plains, Tokens
  <2> QED BY <2>1, <2>2
<1>7. c \in Seq(Tokens)
  <2>1. c \in Seq(Words \cup Keys)
    BY <1>3 DEF FormParts
  <2>2. Words \cup Keys \subseteq Tokens
    BY DEF Tokens, Plains
  <2> QED BY <2>1, <2>2
<1>8. d \in Seq(Tokens) /\ Len(d) = 1 /\ d[1] = "CRLF"
  <2>1. "CRLF" \in Tokens
    BY DEF Tokens, Plains, Keys
  <2> QED BY <1>4, <2>1
<1>9. PICK ab : ab = Joined(a, b)
  OBVIOUS
<1>10. PICK abc : abc = Joined(ab, c)
  OBVIOUS
<1>11. PICK s : s = Joined(abc, d)
  OBVIOUS
<1>12. ab \in Seq(Tokens) /\ IsJoined(ab, a, b)
  <2>1. a \in Seq(Tokens) /\ b \in Seq(Tokens)
    BY <1>5, <1>6
  <2> QED BY <2>1, <1>9, JoinedIndices
<1>13. abc \in Seq(Tokens) /\ IsJoined(abc, ab, c)
  BY <1>12, <1>7, <1>10, JoinedIndices
<1>14. s \in Seq(Tokens) /\ IsJoined(s, abc, d)
  <2>1. d \in Seq(Tokens)
    BY <1>8
  <2> QED BY <1>13, <2>1, <1>11, JoinedIndices
<1>15. PICK h \in Nat : h = FieldsLen(p)
  BY FieldsLenTyped
<1>16. PICK l \in Nat : l = Len(c)
  BY <1>7, SequenceFacts
<1>17. /\ Len(ab) = h + 1
       /\ ab[1] = "boundary"
       /\ \A i \in 1..h : ab[1 + i] = b[i]
  <2>1. /\ Len(ab) = Len(a) + Len(b)
        /\ \A i \in 1..Len(a) : ab[i] = a[i]
        /\ \A i \in 1..Len(b) : ab[Len(a) + i] = b[i]
    BY <1>12 DEF IsJoined
  <2>2. Len(a) = 1 /\ Len(b) = h
    BY <1>5, <1>6, <1>15
  <2>3. ab[1] = a[1]
    BY <2>1, <2>2
  <2> QED BY <2>1, <2>2, <2>3, <1>5
<1>18. /\ Len(abc) = h + 1 + l
       /\ \A i \in 1..(h + 1) : abc[i] = ab[i]
       /\ \A i \in 1..l : abc[h + 1 + i] = c[i]
  BY <1>13, <1>16, <1>17 DEF IsJoined
<1>19. /\ Len(s) = h + l + 2
       /\ \A i \in 1..(h + 1 + l) : s[i] = abc[i]
       /\ s[Len(s)] = "CRLF"
  <2>1. /\ Len(s) = Len(abc) + Len(d)
        /\ \A i \in 1..Len(abc) : s[i] = abc[i]
        /\ \A i \in 1..Len(d) : s[Len(abc) + i] = d[i]
    BY <1>14 DEF IsJoined
  <2>2. Len(d) = 1 /\ Len(abc) = h + 1 + l
    BY <1>8, <1>18
  <2>3. s[h + 1 + l + 1] = d[1] /\ Len(s) = h + l + 2 /\ h + 1 + l + 1 = h + l + 2
    BY <2>1, <2>2
  <2>4. d[1] = "CRLF"
    BY <1>8
  <2> QED BY <2>1, <2>2, <2>3, <2>4
<1>20. /\ s[1] = "boundary"
       /\ \A i \in 1..h : s[1 + i] = b[i]
       /\ \A i \in 1..l : s[1 + h + i] = c[i]
  <2>1. s[1] = "boundary"
    <3>1. 1 \in 1..(h + 1) /\ 1 \in 1..(h + 1 + l)
      OBVIOUS
    <3> QED BY <3>1, <1>17, <1>18, <1>19
  <2>2. ASSUME NEW i \in 1..h PROVE s[1 + i] = b[i]
    <3>1. 1 + i \in 1..(h + 1) /\ 1 + i \in 1..(h + 1 + l)
      OBVIOUS
    <3> QED BY <3>1, <1>17, <1>18, <1>19
  <2>3. ASSUME NEW i \in 1..l PROVE s[1 + h + i] = c[i]
    <3>1. 1 + h + i = h + 1 + i /\ h + 1 + i \in 1..(h + 1 + l)
      OBVIOUS
    <3> QED BY <3>1, <1>18, <1>19
  <2> QED BY <2>1, <2>2, <2>3
<1>21. PartText(p) = s
  BY <1>1, <1>2, <1>3, <1>4, <1>9, <1>10, <1>11 DEF PartText, Joined
<1>22. IsPart(p, s)
  BY <1>2, <1>3, <1>15, <1>16, <1>19, <1>20 DEF IsPart
<1> QED BY <1>14, <1>21, <1>22

-----------------------------------------------------------------------------
(* The text of all parts.                                                  *)

\* The text of n parts is that of n - 1 of them, and of one more.
LEMMA PartsTextRecursion ==
  ASSUME NEW parts \in Seq(FormParts)
  PROVE  /\ PartsText(parts) \in [0..Len(parts) -> Seq(Tokens)]
         /\ \A n \in 0..Len(parts) :
              PartsText(parts)[n] =
                IF n = 0 THEN <<>> ELSE Joined(PartsText(parts)[n - 1], PartText(parts[n]))
<1> DEFINE L == Len(parts)
           P(g) == g = [n \in 0..L |-> IF n = 0 THEN <<>> ELSE g[n - 1] \o PartText(parts[n])]
           step == [i \in 1..L |-> [s \in Seq(Tokens) |-> Joined(s, PartText(parts[i]))]]
<1>1. L \in Nat /\ \A i \in 1..L : parts[i] \in FormParts /\ PartText(parts[i]) \in Seq(Tokens)
  BY SequenceFacts, PartLayout
<1>2. \A i \in 1..L, s \in Seq(Tokens) : Joined(s, PartText(parts[i])) \in Seq(Tokens)
  BY <1>1, JoinedIndices
<1>3. step \in [1..L -> [Seq(Tokens) -> Seq(Tokens)]]
  BY <1>2
<1>4. \E f \in [0..L -> Seq(Tokens)] : IsRecursion(f, 0, L, <<>>, step)
  <2> HIDE DEF L, step
  <2>1. 0 \in Nat /\ L \in Nat /\ 0 <= L /\ 0 + 1 = 1 /\ <<>> \in Seq(Tokens)
    BY <1>1
  <2>2. step \in [(0 + 1)..L -> [Seq(Tokens) -> Seq(Tokens)]]
    BY <1>3, <2>1
  <2> QED BY <2>1, <2>2, RecursionExists
<1>5. PICK f \in [0..L -> Seq(Tokens)] : IsRecursion(f, 0, L, <<>>, step)
  BY <1>4
<1>6. \A i \in 0..L : f[i] = IF i = 0 THEN <<>> ELSE Joined(f[i - 1], PartText(parts[i]))
  <2>1. \A i \in 0..L : i # 0 => i \in 1..L /\ f[i - 1] \in Seq(Tokens)
    <3>1. \A i \in 0..L : i # 0 => i \in 1..L /\ i - 1 \in 0..L
      BY <1>1
    <3> QED BY <1>5, <3>1
  <2>2. \A i \in 1..L, s \in Seq(Tokens) : step[i][s] = Joined(s, PartText(parts[i]))
    OBVIOUS
  <2> HIDE DEF L, step
  <2> QED BY <1>5, <2>1, <2>2 DEF IsRecursion
<1>7. P(f)
  <2> HIDE DEF L
  <2> QED BY <1>5, <1>6 DEF Joined
<1>8. PartsText(parts) = CHOOSE g : P(g)
  BY DEF PartsText
<1>9. P(PartsText(parts))
  <2> HIDE DEF P
  <2> QED BY <1>7, <1>8
<1>10. PICK g : g = PartsText(parts)
  OBVIOUS
<1>11. /\ DOMAIN g = 0..L
       /\ \A i \in 0..L : g[i] = IF i = 0 THEN <<>> ELSE Joined(g[i - 1], PartText(parts[i]))
  <2>1. g = [n \in 0..L |-> IF n = 0 THEN <<>> ELSE Joined(g[n - 1], PartText(parts[n]))]
    BY <1>9, <1>10 DEF Joined
  <2> HIDE DEF L
  <2> QED BY <2>1
<1>12. 0..L \subseteq {n \in 0..L : g[n] \in Seq(Tokens)}
  <2> DEFINE S == {n \in 0..L : g[n] \in Seq(Tokens)}
  <2>1. 0 \in S
    <3>1. 0 \in 0..L /\ g[0] = <<>> /\ <<>> \in Seq(Tokens)
      BY <1>1, <1>11
    <3> QED BY <3>1
  <2>2. ASSUME NEW n \in 0..(L - 1), n \in S PROVE n + 1 \in S
    <3>1. n + 1 \in 0..L /\ n + 1 \in 1..L /\ n + 1 # 0 /\ (n + 1) - 1 = n
      BY <1>1
    <3>2. g[n + 1] = Joined(g[n], PartText(parts[n + 1]))
      BY <1>11, <3>1
    <3>3. g[n + 1] \in Seq(Tokens)
      BY <1>2, <2>2, <3>1, <3>2
    <3> QED BY <3>1, <3>3
  <2> HIDE DEF S
  <2>3. 0 \in Nat /\ L \in Int
    BY <1>1
  <2> HIDE DEF L
  <2>4. 0..L \subseteq S
    BY <2>1, <2>2, <2>3, InductionFrom
  <2> QED BY <2>4 DEF S
<1>13. g = [n \in 0..L |-> g[n]]
  <2>1. g = [n \in 0..L |-> IF n = 0 THEN <<>> ELSE g[n - 1] \o PartText(parts[n])]
    BY <1>9, <1>10
  <2> HIDE DEF L
  <2> QED BY <2>1
<1>14. g \in [0..L -> Seq(Tokens)]
  BY <1>12, <1>13
<1> QED BY <1>10, <1>11, <1>14

-----------------------------------------------------------------------------
\* Where the parts of a form end.
Ends(f) == [k \in 0..Len(f.parts) |-> Len(PartsText(f.parts)[k])]

\* The parts of a form, one after the other, in the first n of them.
HasParts(text, f, n) ==
  \A k \in 1..n :
    /\ Ends(f)[k] <= Ends(f)[n]
    /\ \A i \in 1..Len(PartText(f.parts[k])) :
         text[Ends(f)[k - 1] + i] = PartText(f.parts[k])[i]

\* A part ends its length after the one before it.
LEMMA EndsRecursion ==
  ASSUME NEW f, f.parts \in Seq(FormParts)
  PROVE  /\ Ends(f) \in [0..Len(f.parts) -> Nat] /\ Ends(f)[0] = 0
         /\ \A k \in 1..Len(f.parts) :
              /\ Ends(f)[k] = Ends(f)[k - 1] + Len(PartText(f.parts[k]))
              /\ IsJoined(PartsText(f.parts)[k], PartsText(f.parts)[k - 1], PartText(f.parts[k]))
<1> DEFINE L == Len(f.parts)
<1>1. PICK T : T = PartsText(f.parts)
  OBVIOUS
<1>2. /\ T \in [0..L -> Seq(Tokens)]
      /\ \A n \in 0..L : T[n] = IF n = 0 THEN <<>> ELSE Joined(T[n - 1], PartText(f.parts[n]))
  BY <1>1, PartsTextRecursion
<1>3. L \in Nat /\ \A k \in 1..L : PartText(f.parts[k]) \in Seq(Tokens)
  BY SequenceFacts, PartLayout
<1> HIDE DEF L
<1>4. Ends(f) = [k \in 0..L |-> Len(T[k])]
  BY <1>1 DEF Ends, L
<1>5. \A k \in 0..L : Len(T[k]) \in Nat
  BY <1>2, SequenceFacts
<1>6. Ends(f) \in [0..L -> Nat]
  BY <1>4, <1>5
<1>7. Ends(f)[0] = 0
  BY <1>2, <1>3, <1>4
<1>8. ASSUME NEW k \in 1..L
      PROVE  /\ Ends(f)[k] = Ends(f)[k - 1] + Len(PartText(f.parts[k]))
             /\ IsJoined(T[k], T[k - 1], PartText(f.parts[k]))
  <2>1. k \in 0..L /\ k - 1 \in 0..L /\ k # 0
    BY <1>3
  <2>2. T[k] = Joined(T[k - 1], PartText(f.parts[k])) /\ T[k - 1] \in Seq(Tokens)
    BY <1>2, <2>1
  <2>3. IsJoined(T[k], T[k - 1], PartText(f.parts[k]))
    <3>1. PartText(f.parts[k]) \in Seq(Tokens)
      BY <1>3
    <3> QED BY <2>2, <3>1, JoinedIndices
  <2>4. Len(T[k]) = Len(T[k - 1]) + Len(PartText(f.parts[k]))
    BY <2>3 DEF IsJoined
  <2>5. Ends(f)[k] = Len(T[k]) /\ Ends(f)[k - 1] = Len(T[k - 1])
    BY <1>4, <2>1
  <2> QED BY <2>3, <2>4, <2>5
<1> QED BY <1>1, <1>6, <1>7, <1>8 DEF L

\* In the text of n parts each of them is where Ends says: by induction over n.
LEMMA PartsLayout ==
  ASSUME NEW f, f.parts \in Seq(FormParts)
  PROVE  \A n \in 0..Len(f.parts) : HasParts(PartsText(f.parts)[n], f, n)
<1>1. PICK T : T = PartsText(f.parts)
  OBVIOUS
<1>2. PICK L \in Nat : L = Len(f.parts)
  BY SequenceFacts
<1>3. PICK ends : ends = Ends(f)
  OBVIOUS
<1>4. /\ ends \in [0..L -> Nat] /\ ends[0] = 0
      /\ \A k \in 1..L :
           /\ ends[k] = ends[k - 1] + Len(PartText(f.parts[k]))
           /\ IsJoined(T[k], T[k - 1], PartText(f.parts[k]))
  BY <1>1, <1>2, <1>3, EndsRecursion
<1>5. \A k \in 0..L : ends[k] = Len(T[k])
  BY <1>1, <1>2, <1>3 DEF Ends
<1>6. \A k \in 1..L : Len(PartText(f.parts[k])) \in Nat
  BY <1>2, SequenceFacts, PartLayout
<1> DEFINE S == {n \in 0..L : HasParts(T[n], f, n)}
<1>7. 0 \in S
  BY DEF HasParts
<1>8. ASSUME NEW n \in 0..(L - 1), n \in S PROVE n + 1 \in S
  <2>1. PICK m \in 1..L : m = n + 1
    OBVIOUS
  <2>2. n \in 0..L /\ m \in 0..L /\ m - 1 = n
    BY <2>1
  <2>3. PICK t : t = PartText(f.parts[m])
    OBVIOUS
  <2>4. IsJoined(T[m], T[n], t) /\ ends[m] = ends[n] + Len(t) /\ Len(t) \in Nat
    BY <1>4, <1>6, <2>2, <2>3
  <2>5. /\ \A i \in 1..ends[n] : T[m][i] = T[n][i]
        /\ \A i \in 1..Len(t) : T[m][ends[n] + i] = t[i]
    BY <1>5, <2>2, <2>4 DEF IsJoined
  <2>6. ASSUME NEW k \in 1..m
        PROVE  /\ ends[k] <= ends[m]
               /\ \A i \in 1..Len(PartText(f.parts[k])) :
                    T[m][ends[k - 1] + i] = PartText(f.parts[k])[i]
    <3>1. CASE k = m
      BY <1>4, <2>2, <2>3, <2>5, <3>1
    <3>2. CASE k # m
      <4>1. k \in 1..n /\ k \in 1..L /\ k - 1 \in 0..L /\ k \in 0..L
        BY <2>1, <3>2
      <4>2. /\ ends[k] <= ends[n]
            /\ \A i \in 1..Len(PartText(f.parts[k])) :
                 T[n][ends[k - 1] + i] = PartText(f.parts[k])[i]
        BY <1>3, <1>8, <4>1 DEF HasParts
      <4>3. ends[k] = ends[k - 1] + Len(PartText(f.parts[k])) /\ Len(PartText(f.parts[k])) \in Nat
        BY <1>4, <1>6, <4>1
      <4>4. ends[k] \in Nat /\ ends[k - 1] \in Nat /\ ends[n] \in Nat
        BY <1>4, <2>2, <4>1
      <4>5. ends[k] <= ends[m]
        BY <2>4, <4>2, <4>4
      <4>6. ASSUME NEW i \in 1..Len(PartText(f.parts[k]))
            PROVE  T[m][ends[k - 1] + i] = PartText(f.parts[k])[i]
        <5>1. PICK a \in Nat, b \in Nat, c \in Nat, l \in Nat :
                a = ends[k - 1] /\ b = ends[k] /\ c = ends[n] /\ l = Len(PartText(f.parts[k]))
          BY <4>3, <4>4
        <5>2. b = a + l /\ b <= c
          BY <4>2, <4>3, <5>1
        <5>3. i \in 1..l /\ a + i \in 1..c
          BY <5>1, <5>2, SMTT(30)
        <5> QED BY <5>1, <5>3, <4>2, <2>5
      <4> QED BY <4>5, <4>6
    <3> QED BY <3>1, <3>2
  <2>7. HasParts(T[m], f, m)
    BY <1>3, <2>6 DEF HasParts
  <2> QED BY <2>1, <2>2, <2>7
<1>9. 0..L \subseteq S
  <2> HIDE DEF S
  <2>1. 0 \in Nat /\ L \in Int
    OBVIOUS
  <2> QED BY <1>7, <1>8, <2>1, InductionFrom
<1> QED BY <1>1, <1>2, <1>9

-----------------------------------------------------------------------------
\* A form that a client can post, or none.
IsForm(f) == f.parts \in Seq(FormParts) /\ f.crlf \in BOOLEAN

\* The text of a form is that of its parts, a last boundary, and perhaps a break.
LEMMA PostedLayout ==
  ASSUME NEW f, IsForm(f)
  PROVE  /\ Posted(f) \in Seq(Tokens)
         /\ HasParts(Posted(f), f, Len(f.parts))
         /\ Posted(f)[Ends(f)[Len(f.parts)] + 1] = "boundary_last"
         /\ Len(Posted(f)) = Ends(f)[Len(f.parts)] + (IF f.crlf THEN 2 ELSE 1)
         /\ f.crlf => Posted(f)[Ends(f)[Len(f.parts)] + 2] = "CRLF"
<1>1. f.parts \in Seq(FormParts) /\ f.crlf \in BOOLEAN
  BY DEF IsForm
<1>2. PICK a : a = PartsText(f.parts)[Len(f.parts)]
  OBVIOUS
<1>3. PICK b : b = <<"boundary_last">>
  OBVIOUS
<1>4. PICK c : c = IF f.crlf THEN <<"CRLF">> ELSE <<>>
  OBVIOUS
<1>5. PICK L \in Nat : L = Len(f.parts)
  BY <1>1, SequenceFacts
<1>6. PICK e \in Nat : e = Ends(f)[L]
  BY <1>1, <1>5, EndsRecursion
<1>7. a \in Seq(Tokens) /\ Len(a) = e /\ HasParts(a, f, L)
  <2>1. L \in 0..L
    OBVIOUS
  <2>2. a \in Seq(Tokens)
    BY <1>1, <1>2, <1>5, <2>1, PartsTextRecursion
  <2>3. Len(a) = e
    BY <1>2, <1>5, <1>6, <2>1 DEF Ends
  <2>4. HasParts(a, f, L)
    BY <1>1, <1>2, <1>5, <2>1, PartsLayout
  <2> QED BY <2>2, <2>3, <2>4
<1>8. b \in Seq(Tokens) /\ Len(b) = 1 /\ b[1] = "boundary_last"
  <2>1. "boundary_last" \in Tokens
    BY DEF Tokens
  <2> QED BY <1>3, <2>1
<1>9. /\ c \in Seq(Tokens) /\ Len(c) = (IF f.crlf THEN 1 ELSE 0)
      /\ f.crlf => c[1] = "CRLF"
  <2>1. "CRLF" \in Tokens
    BY DEF Tokens, Plains, Keys
  <2>2. CASE f.crlf
    BY <1>4, <2>1, <2>2
  <2>3. CASE ~f.crlf
    BY <1>4, <2>1, <2>3
  <2> QED BY <2>2, <2>3
<1>10. PICK ab : ab = Joined(a, b)
  OBVIOUS
<1>11. PICK s : s = Joined(ab, c)
  OBVIOUS
<1>12. ab \in Seq(Tokens) /\ IsJoined(ab, a, b)
  <2>1. a \in Seq(Tokens) /\ b \in Seq(Tokens)
    BY <1>7, <1>8
  <2> QED BY <2>1, <1>10, JoinedIndices
<1>13. s \in Seq(Tokens) /\ IsJoined(s, ab, c)
  <2>1. ab \in Seq(Tokens) /\ c \in Seq(Tokens)
    BY <1>9, <1>12
  <2> QED BY <2>1, <1>11, JoinedIndices
<1>14. Len(ab) = e + 1 /\ ab[e + 1] = "boundary_last" /\ \A i \in 1..e : ab[i] = a[i]
  <2>1. Len(a) = e /\ Len(b) = 1
    BY <1>7, <1>8
  <2>2. Len(ab) = e + 1 /\ ab[e + 1] = b[1] /\ \A i \in 1..e : ab[i] = a[i]
    BY <1>12, <2>1 DEF IsJoined
  <2> QED BY <2>2, <1>8
<1>15. /\ Len(s) = e + 1 + Len(c) /\ s[e + 1] = "boundary_last"
       /\ \A i \in 1..e : s[i] = a[i]
       /\ \A i \in 1..Len(c) : s[e + 1 + i] = c[i]
  <2>1. /\ Len(s) = Len(ab) + Len(c)
        /\ \A i \in 1..Len(ab) : s[i] = ab[i]
        /\ \A i \in 1..Len(c) : s[Len(ab) + i] = c[i]
    BY <1>13 DEF IsJoined
  <2> QED BY <2>1, <1>14
<1>16. Posted(f) = s
  BY <1>2, <1>3, <1>4, <1>10, <1>11 DEF Posted, Joined
<1>17. HasParts(s, f, L)
  <2>1. ASSUME NEW k \in 1..L
        PROVE  /\ Ends(f)[k] <= e
               /\ \A i \in 1..Len(PartText(f.parts[k])) :
                    s[Ends(f)[k - 1] + i] = PartText(f.parts[k])[i]
    <3>1. /\ Ends(f)[k] <= e
          /\ \A i \in 1..Len(PartText(f.parts[k])) :
               a[Ends(f)[k - 1] + i] = PartText(f.parts[k])[i]
      BY <1>6, <1>7 DEF HasParts
    <3>2. /\ Ends(f)[k] = Ends(f)[k - 1] + Len(PartText(f.parts[k]))
          /\ Ends(f)[k] \in Nat /\ Ends(f)[k - 1] \in Nat
      <4>1. k \in 0..L /\ k - 1 \in 0..L
        OBVIOUS
      <4> QED BY <1>1, <1>5, <4>1, EndsRecursion
    <3>3. Len(PartText(f.parts[k])) \in Nat
      BY <1>1, <1>5, SequenceFacts, PartLayout
    <3>4. ASSUME NEW i \in 1..Len(PartText(f.parts[k]))
          PROVE  s[Ends(f)[k - 1] + i] = PartText(f.parts[k])[i]
      <4>1. Ends(f)[k - 1] + i \in 1..e
        BY <3>1, <3>2, <3>3
      <4> QED BY <4>1, <3>1, <1>15
    <3> QED BY <3>1, <3>4
  <2> QED BY <1>6, <2>1 DEF HasParts
<1>18. Len(s) = e + (IF f.crlf THEN 2 ELSE 1) /\ (f.crlf => s[e + 2] = "CRLF")
  <2>1. CASE f.crlf
    <3>1. Len(c) = 1 /\ c[1] = "CRLF"
      BY <1>9, <2>1
    <3>2. s[e + 1 + 1] = c[1] /\ Len(s) = e + 1 + 1
      BY <1>15, <3>1
    <3> QED BY <2>1, <3>1, <3>2
  <2>2. CASE ~f.crlf
    <3>1. Len(c) = 0
      BY <1>9, <2>2
    <3> QED BY <1>15, <2>2, <3>1
  <2> QED BY <2>1, <2>2
<1> QED BY <1>5, <1>6, <1>13, <1>15, <1>16, <1>17, <1>18

-----------------------------------------------------------------------------
(* What is where in the text.                                              *)

\* Nothing in a part but its boundary is one.
LEMMA NotPlain == "boundary" \notin Plains /\ "boundary_last" \notin Plains
BY WordsAssumption DEF Plains, Keys

\* What is at each index of the text of a part.
HasTokens(p, s) ==
  /\ Len(s) = FieldsLen(p) + Len(p.data) + 2
  /\ s[1] = "boundary" /\ s[2] = "Content-Disposition" /\ s[3] = "form-data"
  /\ s[4] = "semicolon" /\ s[5] = "name=" /\ s[6] = "field" /\ s[7] = "quote"
  /\ p.file => s[8] = "semicolon" /\ s[9] = "filename=" /\ s[10] = "path" /\ s[11] = "quote"
  /\ s[NamesLen(p) + 2] = "CRLF"
  /\ p.type => /\ s[NamesLen(p) + 3] = "Content-Type" /\ s[NamesLen(p) + 4] = "mime"
               /\ s[NamesLen(p) + 5] = "CRLF"
  /\ s[FieldsLen(p) + 1] = "CRLF"
  /\ \A i \in 1..Len(p.data) : s[FieldsLen(p) + 1 + i] = p.data[i]
  /\ s[Len(s)] = "CRLF"
  /\ \A i \in 2..Len(s) : s[i] \in Plains

\* The text of a part, token by token.
LEMMA PartTokens ==
  ASSUME NEW p \in FormParts
  PROVE  HasTokens(p, PartText(p))
<1>1. PICK s : s = PartText(p)
  OBVIOUS
<1>2. PICK g : g = Fields(p)
  OBVIOUS
<1>3. PICK h \in 8..15 : h = FieldsLen(p)
  BY FieldsLenTyped
<1>4. PICK n \in {6, 10} : n = NamesLen(p)
  BY FieldsLenTyped
<1>5. p.data \in Seq(Words \cup Keys) /\ Len(p.data) \in Nat
  <2>1. p.data \in Seq(Words \cup Keys)
    BY DEF FormParts
  <2> QED BY <2>1, SequenceFacts
<1>6. PICK l \in Nat : l = Len(p.data)
  BY <1>5
<1>7. /\ Len(s) = h + l + 2 /\ s[1] = "boundary" /\ s[Len(s)] = "CRLF"
      /\ \A i \in 1..h : s[1 + i] = g[i]
      /\ \A i \in 1..l : s[1 + h + i] = p.data[i]
  BY <1>1, <1>2, <1>3, <1>6, PartLayout DEF IsPart
<1>8. g \in Seq(Plains) /\ Len(g) = h
  BY <1>2, <1>3, FieldsLayout DEF IsFields
<1>9. n + 2 <= h /\ (p.type => n + 5 = h) /\ (p.file => n = 10)
  BY <1>3, <1>4 DEF FieldsLen, NamesLen
<1>10. /\ s[1 + 1] = g[1] /\ s[1 + 2] = g[2] /\ s[1 + 3] = g[3] /\ s[1 + 4] = g[4]
       /\ s[1 + 5] = g[5] /\ s[1 + 6] = g[6] /\ s[1 + (n + 1)] = g[n + 1] /\ s[1 + h] = g[h]
       /\ p.file => s[1 + 7] = g[7] /\ s[1 + 8] = g[8] /\ s[1 + 9] = g[9] /\ s[1 + 10] = g[10]
       /\ p.type => /\ s[1 + (n + 2)] = g[n + 2] /\ s[1 + (n + 3)] = g[n + 3]
                    /\ s[1 + (n + 4)] = g[n + 4]
  <2>1. /\ 1 \in 1..h /\ 2 \in 1..h /\ 3 \in 1..h /\ 4 \in 1..h /\ 5 \in 1..h /\ 6 \in 1..h
        /\ h \in 1..h /\ n + 1 \in 1..h
    BY <1>9
  <2>2. p.file => 7 \in 1..h /\ 8 \in 1..h /\ 9 \in 1..h /\ 10 \in 1..h
    BY <1>9
  <2>3. p.type => n + 2 \in 1..h /\ n + 3 \in 1..h /\ n + 4 \in 1..h
    BY <1>9
  <2> QED BY <2>1, <2>2, <2>3, <1>7
<1>11. /\ s[2] = "Content-Disposition" /\ s[3] = "form-data"
       /\ s[4] = "semicolon" /\ s[5] = "name=" /\ s[6] = "field" /\ s[7] = "quote"
  <2>1. /\ g[1] = "Content-Disposition" /\ g[2] = "form-data" /\ g[3] = "semicolon"
        /\ g[4] = "name=" /\ g[5] = "field" /\ g[6] = "quote"
    BY <1>2, FieldsLayout DEF IsFields
  <2>2. /\ s[2] = g[1] /\ s[3] = g[2] /\ s[4] = g[3] /\ s[5] = g[4]
        /\ s[6] = g[5] /\ s[7] = g[6]
    BY <1>10
  <2> QED BY <2>1, <2>2
<1>12. p.file => s[8] = "semicolon" /\ s[9] = "filename=" /\ s[10] = "path" /\ s[11] = "quote"
  <2>1. p.file => g[7] = "semicolon" /\ g[8] = "filename=" /\ g[9] = "path" /\ g[10] = "quote"
    BY <1>2, FieldsLayout DEF IsFields
  <2>2. p.file => s[8] = g[7] /\ s[9] = g[8] /\ s[10] = g[9] /\ s[11] = g[10]
    BY <1>10
  <2> QED BY <2>1, <2>2
<1>13. s[n + 2] = "CRLF" /\ s[h + 1] = "CRLF"
  <2>1. g[n + 1] = "CRLF" /\ g[h] = "CRLF"
    BY <1>2, <1>3, <1>4, FieldsLayout DEF IsFields
  <2>2. 1 + (n + 1) = n + 2 /\ 1 + h = h + 1
    OBVIOUS
  <2> QED BY <2>1, <2>2, <1>10
<1>14. p.type => s[n + 3] = "Content-Type" /\ s[n + 4] = "mime" /\ s[n + 5] = "CRLF"
  <2>1. p.type => g[n + 2] = "Content-Type" /\ g[n + 3] = "mime" /\ g[n + 4] = "CRLF"
    BY <1>2, <1>4, FieldsLayout DEF IsFields
  <2>2. 1 + (n + 2) = n + 3 /\ 1 + (n + 3) = n + 4 /\ 1 + (n + 4) = n + 5
    OBVIOUS
  <2> QED BY <2>1, <2>2, <1>10
<1>15. \A i \in 1..l : s[h + 1 + i] = p.data[i]
  BY <1>7
<1>16. ASSUME NEW i \in 2..Len(s) PROVE s[i] \in Plains
  <2>1. CASE i <= h + 1
    <3>1. i - 1 \in 1..h /\ 1 + (i - 1) = i
      BY <2>1
    <3>2. g[i - 1] \in Plains
      BY <1>8, <3>1, SequenceFacts
    <3> QED BY <3>1, <3>2, <1>7
  <2>2. CASE i > h + 1 /\ i < Len(s)
    <3>1. i - h - 1 \in 1..l /\ 1 + h + (i - h - 1) = i
      BY <1>7, <2>2
    <3>2. p.data[i - h - 1] \in Words \cup Keys
      BY <1>5, <1>6, <3>1, SequenceFacts
    <3>3. s[i] = p.data[i - h - 1]
      BY <3>1, <1>7
    <3> QED BY <3>2, <3>3 DEF Plains
  <2>3. CASE i = Len(s)
    BY <2>3, <1>7 DEF Plains, Keys
  <2> QED BY <1>7, <2>1, <2>2, <2>3
<1> QED BY <1>1, <1>3, <1>4, <1>6, <1>7, <1>11, <1>12, <1>13, <1>14, <1>15, <1>16
           DEF HasTokens

\* The places of the parts: each has its boundary first and at least nine tokens.
LEMMA EndsOrdered ==
  ASSUME NEW f, IsForm(f)
  PROVE  /\ Ends(f) \in [0..Len(f.parts) -> Nat] /\ Ends(f)[0] = 0
         /\ \A k \in 1..Len(f.parts) :
              /\ Ends(f)[k] = Ends(f)[k - 1] + Len(PartText(f.parts[k]))
              /\ Len(PartText(f.parts[k])) \in Nat /\ Len(PartText(f.parts[k])) >= 10
         /\ \A j, k \in 0..Len(f.parts) : j <= k => Ends(f)[j] <= Ends(f)[k]
<1>1. PICK e : e = Ends(f)
  OBVIOUS
<1>2. PICK L \in Nat : L = Len(f.parts)
  BY SequenceFacts DEF IsForm
<1>3. /\ e \in [0..L -> Nat] /\ e[0] = 0
      /\ \A k \in 1..L : e[k] = e[k - 1] + Len(PartText(f.parts[k]))
  BY <1>1, <1>2, EndsRecursion DEF IsForm
<1>4. ASSUME NEW k \in 1..L
      PROVE  Len(PartText(f.parts[k])) \in Nat /\ Len(PartText(f.parts[k])) >= 10
  <2>1. PICK p \in FormParts : p = f.parts[k]
    BY <1>2, SequenceFacts DEF IsForm
  <2>2. Len(PartText(p)) = FieldsLen(p) + Len(p.data) + 2
    BY PartTokens DEF HasTokens
  <2>3. Len(p.data) \in Nat
    <3>1. p.data \in Seq(Words \cup Keys)
      BY DEF FormParts
    <3> QED BY <3>1, SequenceFacts
  <2>4. PICK l \in Nat : l = Len(p.data)
    BY <2>3
  <2>5. PICK h \in 8..15 : h = FieldsLen(p)
    BY FieldsLenTyped
  <2>6. Len(PartText(p)) = h + l + 2
    BY <2>2, <2>4, <2>5
  <2> QED BY <2>1, <2>6
<1>5. ASSUME NEW j \in 0..L
      PROVE  j..L \subseteq {k \in j..L : e[j] <= e[k]}
  <2> DEFINE S == {k \in j..L : e[j] <= e[k]}
  <2>1. j \in S
    BY <1>3
  <2>2. ASSUME NEW k \in j..(L - 1), k \in S PROVE k + 1 \in S
    <3>1. k + 1 \in 1..L /\ (k + 1) - 1 = k /\ k \in 0..L /\ k + 1 \in j..L /\ k + 1 \in 0..L
      OBVIOUS
    <3>2. e[k + 1] = e[k] + Len(PartText(f.parts[k + 1]))
      BY <1>3, <3>1
    <3>3. Len(PartText(f.parts[k + 1])) \in Nat
      BY <1>4, <3>1
    <3>4. e[j] \in Nat /\ e[k] \in Nat /\ e[j] <= e[k]
      BY <1>3, <2>2, <3>1
    <3> QED BY <3>1, <3>2, <3>3, <3>4
  <2> HIDE DEF S
  <2>3. j \in Nat /\ L \in Int
    OBVIOUS
  <2>4. j..L \subseteq S
    BY <2>1, <2>2, <2>3, InductionFrom
  <2> QED BY <2>4 DEF S
<1>6. \A j, k \in 0..L : j <= k => e[j] <= e[k]
  BY <1>5
<1> QED BY <1>1, <1>2, <1>3, <1>4, <1>6

\* Every token of the parts is in one of them.
LEMMA PartOfToken ==
  ASSUME NEW f, IsForm(f), NEW i \in 1..Ends(f)[Len(f.parts)]
  PROVE  \E k \in 1..Len(f.parts) :
           \E j \in 1..Len(PartText(f.parts[k])) : i = Ends(f)[k - 1] + j
<1>1. PICK e : e = Ends(f)
  OBVIOUS
<1>2. PICK L \in Nat : L = Len(f.parts)
  BY SequenceFacts DEF IsForm
<1>3. /\ e \in [0..L -> Nat] /\ e[0] = 0
      /\ \A k \in 1..L : e[k] = e[k - 1] + Len(PartText(f.parts[k]))
  BY <1>1, <1>2, EndsOrdered
<1> DEFINE S == {k \in 0..L : i <= e[k]}
<1>4. S \in SUBSET Nat /\ S # {}
  BY <1>1, <1>2, <1>3
<1>5. PICK k \in S : \A j \in S : k <= j
  <2> HIDE DEF S
  <2> QED BY <1>4, SmallestNumber
<1>6. k # 0
  BY <1>3, <1>5
<1>7. k \in 1..L /\ k - 1 \in 0..L /\ k - 1 \notin S /\ k - 1 \in Nat
  BY <1>5, <1>6
<1>8. e[k - 1] < i /\ i <= e[k] /\ e[k - 1] \in Nat /\ e[k] \in Nat
  BY <1>3, <1>5, <1>7
<1>9. PICK j \in Nat : j = i - e[k - 1]
  BY <1>8
<1>10. j \in 1..Len(PartText(f.parts[k])) /\ i = e[k - 1] + j
  BY <1>3, <1>7, <1>8, <1>9, SMTT(30)
<1> QED BY <1>1, <1>2, <1>7, <1>10

\* Boundaries are where the parts begin, the last one is where they end.
LEMMA BoundaryPlaces ==
  ASSUME NEW f, IsForm(f), NEW i \in 1..Len(Posted(f))
  PROVE  /\ Posted(f)[i] = "boundary" <=> \E k \in 1..Len(f.parts) : i = Ends(f)[k - 1] + 1
         /\ i <= Ends(f)[Len(f.parts)] => Posted(f)[i] # "boundary_last"
<1>1. PICK e : e = Ends(f)
  OBVIOUS
<1>2. PICK L \in Nat : L = Len(f.parts)
  BY SequenceFacts DEF IsForm
<1>3. PICK t : t = Posted(f)
  OBVIOUS
<1>4. /\ e \in [0..L -> Nat]
      /\ \A k \in 1..L : Len(PartText(f.parts[k])) \in Nat /\ Len(PartText(f.parts[k])) >= 10
      /\ \A j, k \in 0..L : j <= k => e[j] <= e[k]
      /\ \A k \in 1..L : e[k] = e[k - 1] + Len(PartText(f.parts[k]))
  BY <1>1, <1>2, EndsOrdered
<1>5. \A k \in 1..L : \A j \in 1..Len(PartText(f.parts[k])) :
        t[e[k - 1] + j] = PartText(f.parts[k])[j]
  BY <1>1, <1>2, <1>3, PostedLayout DEF HasParts
<1>6. \A k \in 1..L : HasTokens(f.parts[k], PartText(f.parts[k]))
  BY <1>2, SequenceFacts, PartTokens DEF IsForm
<1>7. ASSUME NEW k \in 1..L, i = e[k - 1] + 1 PROVE t[i] = "boundary"
  <2>1. 1 \in 1..Len(PartText(f.parts[k]))
    BY <1>4
  <2>2. PartText(f.parts[k])[1] = "boundary"
    BY <1>6 DEF HasTokens
  <2> QED BY <1>5, <1>7, <2>1, <2>2
<1>8. ASSUME i <= e[L], ~(\E k \in 1..L : i = e[k - 1] + 1)
      PROVE  t[i] \in Plains
  <2>1. PICK k \in 1..L : \E j \in 1..Len(PartText(f.parts[k])) : i = e[k - 1] + j
    <3>1. i \in 1..e[L] /\ e[L] \in Nat
      BY <1>4, <1>8
    <3> QED BY <1>1, <1>2, <3>1, PartOfToken
  <2>2. PICK j \in 1..Len(PartText(f.parts[k])) : i = e[k - 1] + j
    BY <2>1
  <2>3. j # 1
    BY <1>8, <2>2
  <2>4. j \in 2..Len(PartText(f.parts[k]))
    BY <2>3, <1>4
  <2>5. PartText(f.parts[k])[j] \in Plains
    BY <1>6, <2>4 DEF HasTokens
  <2> QED BY <1>5, <2>2, <2>5
<1>9. PICK m \in Nat : m = e[L]
  BY <1>4
<1>10. ASSUME i > m PROVE t[i] # "boundary"
  <2>1. /\ t[m + 1] = "boundary_last" /\ Len(t) = m + (IF f.crlf THEN 2 ELSE 1)
        /\ f.crlf => t[m + 2] = "CRLF"
    BY <1>1, <1>2, <1>3, <1>9, PostedLayout
  <2>2. i \in 1..Len(t)
    BY <1>3
  <2>3. CASE f.crlf
    <3>1. i = m + 1 \/ i = m + 2
      BY <2>1, <2>2, <2>3, <1>10
    <3> QED BY <3>1, <2>1, <2>3
  <2>4. CASE ~f.crlf
    <3>1. i = m + 1
      BY <2>1, <2>2, <2>4, <1>10
    <3> QED BY <3>1, <2>1
  <2> QED BY <2>3, <2>4
<1>11. ASSUME t[i] = "boundary" PROVE \E k \in 1..L : i = e[k - 1] + 1
  <2>1. ~(i > m)
    BY <1>10, <1>11
  <2>2. i <= e[L]
    BY <2>1, <1>9
  <2> QED BY <2>2, <1>8, <1>11, NotPlain
<1>12. i <= e[L] => t[i] # "boundary_last"
  <2>1. SUFFICES ASSUME i <= e[L], t[i] = "boundary_last" PROVE FALSE
    OBVIOUS
  <2>2. t[i] # "boundary"
    BY <2>1
  <2>3. ~(\E k \in 1..L : i = e[k - 1] + 1)
    BY <2>2, <1>7
  <2> QED BY <2>1, <2>3, <1>8, NotPlain
<1> QED BY <1>1, <1>2, <1>3, <1>7, <1>11, <1>12

-----------------------------------------------------------------------------
(* Searching.                                                              *)

\* The smallest of some numbers, 0 for none.
LEMMA FirstOfNumbers ==
  ASSUME NEW I \in SUBSET Nat
  PROVE  /\ I = {} => FirstOf(I) = 0
         /\ I # {} => FirstOf(I) \in I /\ \A n \in I : FirstOf(I) <= n
<1>1. CASE I = {}
  BY <1>1 DEF FirstOf
<1>2. CASE I # {}
  <2>1. FirstOf(I) = Min(I)
    BY <1>2 DEF FirstOf
  <2>2. Min(I) \in I /\ \A n \in I : Min(I) <= n
    BY <1>2, MinOfNumbers
  <2> QED BY <1>2, <2>1, <2>2
<1> QED BY <1>1, <1>2

\* What is in the set and not greater than any of it.
LEMMA FirstIs ==
  ASSUME NEW I \in SUBSET Nat, NEW m \in I, \A n \in I : m <= n
  PROVE  FirstOf(I) = m
<1>1. FirstOf(I) \in I /\ \A n \in I : FirstOf(I) <= n
  BY FirstOfNumbers
<1>2. FirstOf(I) <= m /\ m <= FirstOf(I) /\ m \in Nat /\ FirstOf(I) \in Nat
  BY <1>1
<1> QED BY <1>2

\* A key and text that matches it.
Matches(token, key) == token = key \/ (key = "name=" /\ token = "filename=")

\* A match is the first one.
LEMMA FoundTyped ==
  ASSUME NEW text, NEW key, NEW from \in Nat, NEW to \in Int
  PROVE  \/ Found(text, key, from, to) = 0
         \/ /\ Found(text, key, from, to) \in from..to
            /\ Matches(text[Found(text, key, from, to)], key)
            /\ \A i \in from..(Found(text, key, from, to) - 1) : ~Matches(text[i], key)
<1> DEFINE I == {i \in from..to : Matches(text[i], key)}
<1>1. Found(text, key, from, to) = FirstOf(I)
  BY DEF Found, Matches
<1>2. I \in SUBSET Nat
  OBVIOUS
<1>3. CASE I = {}
  BY <1>1, <1>2, <1>3, FirstOfNumbers
<1>4. CASE I # {}
  <2>1. PICK m \in Nat : m = FirstOf(I)
    <3> HIDE DEF I
    <3> QED BY <1>2, <1>4, FirstOfNumbers
  <2>2. m \in I /\ \A n \in I : m <= n
    <3> HIDE DEF I
    <3> QED BY <2>1, <1>2, <1>4, FirstOfNumbers
  <2>3. ASSUME NEW i \in from..(m - 1) PROVE ~Matches(text[i], key)
    <3>1. i \in from..to /\ ~(m <= i)
      BY <2>2
    <3> QED BY <3>1, <2>2
  <2> HIDE DEF I
  <2>4. m \in from..to /\ Matches(text[m], key)
    BY <2>2 DEF I
  <2> QED BY <1>1, <2>1, <2>3, <2>4
<1> QED BY <1>3, <1>4

\* Without a match.
LEMMA FoundNowhere ==
  ASSUME NEW text, NEW key, NEW from \in Nat, NEW to \in Int,
         \A i \in from..to : ~Matches(text[i], key)
  PROVE  Found(text, key, from, to) = 0
<1> DEFINE I == {i \in from..to : Matches(text[i], key)}
<1>1. Found(text, key, from, to) = FirstOf(I)
  BY DEF Found, Matches
<1>2. I \in SUBSET Nat /\ I = {}
  OBVIOUS
<1> HIDE DEF I
<1> QED BY <1>1, <1>2, FirstOfNumbers

\* The first match is found.
LEMMA FoundAt ==
  ASSUME NEW text, NEW key, NEW from \in Nat, NEW to \in Int, NEW m \in from..to,
         Matches(text[m], key), \A i \in from..(m - 1) : ~Matches(text[i], key)
  PROVE  Found(text, key, from, to) = m
<1> DEFINE I == {i \in from..to : Matches(text[i], key)}
<1>1. Found(text, key, from, to) = FirstOf(I)
  BY DEF Found, Matches
<1>2. I \in SUBSET Nat /\ m \in I
  OBVIOUS
<1>3. ASSUME NEW n \in I PROVE m <= n
  <2>1. n \in from..to /\ Matches(text[n], key)
    OBVIOUS
  <2>2. n < m => n \in from..(m - 1)
    BY <2>1
  <2> QED BY <2>1, <2>2
<1> HIDE DEF I
<1> QED BY <1>1, <1>2, <1>3, FirstIs

-----------------------------------------------------------------------------
(* Writing NULs.                                                           *)

\* text with a NUL at i.
Nul(text, i) == [text EXCEPT ![i] = "NUL"]

\* The text has become new, with NULs in lo..hi, none of them over a boundary.
CutIn(old, new, lo, hi) ==
  /\ DOMAIN new = DOMAIN old
  /\ \A i \in DOMAIN old :
       new[i] = old[i] \/ (i \in lo..hi /\ new[i] = "NUL" /\ old[i] # "boundary")

\* One NUL.
LEMMA CutInNul ==
  ASSUME NEW T, NEW n \in Nat, NEW text \in [1..n -> T], NEW lo \in Int, NEW hi \in Int,
         NEW i \in lo..hi, i \in 1..n => text[i] # "boundary"
  PROVE  CutIn(text, Nul(text, i), lo, hi)
BY DEF CutIn, Nul

\* One after the other.
LEMMA CutInTwice ==
  ASSUME NEW a, NEW b, NEW c, NEW lo, NEW hi, CutIn(a, b, lo, hi), CutIn(b, c, lo, hi)
  PROVE  CutIn(a, c, lo, hi)
<1> SUFFICES ASSUME NEW i \in DOMAIN a
             PROVE  c[i] = a[i] \/ (i \in lo..hi /\ c[i] = "NUL" /\ a[i] # "boundary")
  BY DEF CutIn
<1> QED BY DEF CutIn

\* strchr stops at the NUL that ends the section.
LEMMA CutAtStays ==
  ASSUME NEW T, NEW n \in Nat, NEW text \in [1..n -> T],
         NEW from \in Nat, NEW lo \in Nat, NEW end \in 1..n,
         text[end] = "NUL", from # 0 => from \in lo..end,
         NEW char, char # "NUL", char # "boundary"
  PROVE  CutIn(text, CutAt(text, from, char), lo, end)
<1> DEFINE I == {i \in from..Len(text) : text[i] \in {char, "NUL"}}
           i == FirstOf(I)
<1>1. CutAt(text, from, char) =
        IF from = 0 \/ i = 0 \/ text[i] = "NUL" THEN text ELSE Nul(text, i)
  BY DEF CutAt, Nul
<1>2. CutIn(text, text, lo, end)
  BY DEF CutIn
<1>3. CASE from = 0 \/ i = 0 \/ text[i] = "NUL"
  BY <1>1, <1>2, <1>3
<1>4. CASE ~(from = 0 \/ i = 0 \/ text[i] = "NUL")
  <2>1. from \in lo..end /\ Len(text) = n
    BY <1>4
  <2>2. I \in SUBSET Nat /\ end \in I
    BY <2>1
  <2>3. i \in I /\ i <= end
    <3> HIDE DEF I
    <3> QED BY <2>2, FirstOfNumbers
  <2>4. i \in from..n /\ text[i] \in {char, "NUL"}
    <3> HIDE DEF i
    <3> QED BY <2>1, <2>3
  <2>5. i \in lo..end /\ text[i] = char
    <3> HIDE DEF i
    <3> QED BY <1>4, <2>1, <2>3, <2>4
  <2>6. CutIn(text, Nul(text, i), lo, end)
    <3> HIDE DEF i
    <3>1. lo \in Int /\ end \in Int /\ text[i] # "boundary"
      BY <2>5
    <3> QED BY <2>5, <3>1, CutInNul
  <2> QED BY <1>1, <1>4, <2>6
<1> QED BY <1>3, <1>4

\* At m is the first place from from on with char or a NUL.
StrChr(text, from, m, char) ==
  /\ text \in [1..Len(text) -> Range(text)] /\ Len(text) \in Nat
  /\ from \in 1..Len(text) /\ m \in from..Len(text)
  /\ text[m] = char \/ text[m] = "NUL"
  /\ \A j \in from..(m - 1) : text[j] # char /\ text[j] # "NUL"

\* It finds the first such character; it is or becomes a NUL.
LEMMA CutAtFirst ==
  ASSUME NEW text, NEW from, NEW m, NEW char, StrChr(text, from, m, char)
  PROVE  CutAt(text, from, char) = Nul(text, m)
<1> DEFINE I == {i \in from..Len(text) : text[i] \in {char, "NUL"}}
           i == FirstOf(I)
<1>1. PICK n \in Nat : n = Len(text)
  BY DEF StrChr
<1>2. /\ text \in [1..n -> Range(text)]
      /\ from \in 1..n /\ m \in from..n
      /\ text[m] = char \/ text[m] = "NUL"
      /\ \A j \in from..(m - 1) : text[j] # char /\ text[j] # "NUL"
  BY <1>1 DEF StrChr
<1>3. CutAt(text, from, char) =
        IF from = 0 \/ i = 0 \/ text[i] = "NUL" THEN text ELSE Nul(text, i)
  BY DEF CutAt, Nul
<1>4. I \in SUBSET Nat /\ m \in I
  BY <1>1, <1>2
<1>5. ASSUME NEW j \in I PROVE m <= j
  <2>1. j \in from..n /\ (text[j] = char \/ text[j] = "NUL")
    BY <1>1
  <2>2. j < m => j \in from..(m - 1)
    BY <2>1, <1>2
  <2> QED BY <2>1, <2>2, <1>2
<1>6. i = m
  <2> HIDE DEF I
  <2> QED BY <1>4, <1>5, FirstIs
<1>7. text[m] = "NUL" => Nul(text, m) = text
  BY <1>2 DEF Nul
<1>8. from # 0 /\ m # 0
  BY <1>2
<1> HIDE DEF i
<1> QED BY <1>3, <1>6, <1>7, <1>8

-----------------------------------------------------------------------------
(* One turn of the loop of extract_post_data_items.                        *)

\* Behind the key in the section from..end.
After(from, end, key) ==
  LET i == Found(content, key, from, Section(end)) IN IF i = 0 THEN 0 ELSE i + 1

\* What the turn makes of the text of the section from..end.
NewText(from, end) ==
  CutAt(CutAt(CutAt(CutAt(Nul(content, end),
                          After(from, end, "Content-Disposition"), "semicolon"),
                    After(from, end, "name="), "quote"),
              After(from, end, "filename="), "quote"),
        After(from, end, "Content-Type"), "CRLF")

\* The item that the turn appends.
NewItem(from, end) ==
  LET blank == Blank(Nul(content, end), from)
  IN [disposition |-> After(from, end, "Content-Disposition"),
      name |-> After(from, end, "name="), filename |-> After(from, end, "filename="),
      type |-> After(from, end, "Content-Type"),
      buff |-> IF blank = 0 THEN 0 ELSE blank + 2,
      size |-> IF blank = 0 THEN 0 ELSE end - (blank + 2)]

\* The turn, with names for what it computes.
LEMMA ExtractItemSteps ==
  ASSUME ExtractItem, NEW from, from = Boundary("boundary", item_ptr) + 1,
         NEW end, end = EndOf(from)
  PROVE  /\ calling = "extract" /\ Boundary("boundary", item_ptr) # 0
         /\ content' = NewText(from, end) /\ items' = Append(items, NewItem(from, end))
         /\ item_ptr' = from
         /\ UNCHANGED <<calling, calls, rangeVars, form>>
BY DEF ExtractItem, NewText, NewItem, After, Nul, NextFrom

\* All that has been written into the text of a form are NULs, none of them over a
\* boundary.
TextInv ==
  /\ IsForm(form)
  /\ content \in [1..Len(Posted(form)) -> Tokens \cup {"NUL"}]
  /\ \A i \in DOMAIN content : content[i] \in {Posted(form)[i], "NUL"}
  /\ \A i \in DOMAIN content : Posted(form)[i] = "boundary" => content[i] = "boundary"
  /\ form.crlf => content[Ends(form)[Len(form.parts)] + 1] = "boundary_last"

\* The text in numbers: its length, and where the boundaries are.
LEMMA TextFacts ==
  ASSUME TextInv
  PROVE  /\ Len(content) \in Nat /\ DOMAIN content = 1..Len(content)
         /\ Len(content) = Len(Posted(form)) /\ Len(form.parts) \in Nat
         /\ content \in [1..Len(content) -> Tokens \cup {"NUL"}]
         /\ Ends(form) \in [0..Len(form.parts) -> Nat]
         /\ form.crlf \in BOOLEAN
         /\ Len(content) = Ends(form)[Len(form.parts)] + (IF form.crlf THEN 2 ELSE 1)
         /\ \A i \in 1..Len(content) :
              content[i] = "boundary" <=>
                \E k \in 1..Len(form.parts) : i = Ends(form)[k - 1] + 1
<1>1. IsForm(form)
  BY DEF TextInv
<1>2. PICK N \in Nat : N = Len(Posted(form))
  BY <1>1, PostedLayout, SequenceFacts
<1>3. content \in [1..N -> Tokens \cup {"NUL"}]
  BY <1>2 DEF TextInv
<1>4. Len(content) = N /\ DOMAIN content = 1..N
  BY <1>3
<1>5. Len(form.parts) \in Nat /\ form.crlf \in BOOLEAN
  BY <1>1, SequenceFacts DEF IsForm
<1>6. Ends(form) \in [0..Len(form.parts) -> Nat]
  BY <1>1, EndsOrdered
<1>7. N = Ends(form)[Len(form.parts)] + (IF form.crlf THEN 2 ELSE 1)
  BY <1>1, <1>2, PostedLayout
<1>8. ASSUME NEW i \in 1..N
      PROVE  content[i] = "boundary" <=>
               \E k \in 1..Len(form.parts) : i = Ends(form)[k - 1] + 1
  <2>1. Posted(form)[i] = "boundary" <=>
          \E k \in 1..Len(form.parts) : i = Ends(form)[k - 1] + 1
    BY <1>1, <1>2, BoundaryPlaces
  <2>2. /\ content[i] \in {Posted(form)[i], "NUL"}
        /\ Posted(form)[i] = "boundary" => content[i] = "boundary"
    BY <1>4 DEF TextInv
  <2>3. content[i] = "boundary" <=> Posted(form)[i] = "boundary"
    BY <2>2
  <2> QED BY <2>1, <2>3
<1> QED BY <1>2, <1>3, <1>4, <1>5, <1>6, <1>7, <1>8

\* After the boundary of part k, the next one is that of part k + 1.
LEMMA NextBoundary ==
  ASSUME TextInv, NEW k \in 0..Len(form.parts),
         NEW from, from = IF k = 0 THEN 1 ELSE Ends(form)[k - 1] + 2
  PROVE  Boundary("boundary", from) =
           IF k < Len(form.parts) THEN Ends(form)[k] + 1 ELSE 0
<1>1. PICK n \in Nat : n = Len(form.parts)
  BY TextFacts
<1>2. PICK e \in [0..n -> Nat] : e = Ends(form)
  BY <1>1, TextFacts
<1>3. PICK N \in Nat : N = Len(content)
  BY TextFacts
<1>4. /\ \A i \in 1..N : content[i] = "boundary" <=> \E j \in 1..n : i = e[j - 1] + 1
      /\ e[n] <= N - 1
  <2>1. N = e[n] + (IF form.crlf THEN 2 ELSE 1) /\ form.crlf \in BOOLEAN
    BY <1>1, <1>2, <1>3, TextFacts
  <2>2. e[n] \in Nat
    BY <1>2
  <2>3. e[n] <= N - 1
    BY <2>1, <2>2
  <2> QED BY <1>1, <1>2, <1>3, <2>3, TextFacts
<1>5. /\ \A i, j \in 0..n : i <= j => e[i] <= e[j]
      /\ \A j \in 1..n : e[j] >= e[j - 1] + 10
  <2>1. IsForm(form)
    BY DEF TextInv
  <2>2. /\ \A i, j \in 0..n : i <= j => e[i] <= e[j]
        /\ \A j \in 1..n : /\ e[j] = e[j - 1] + Len(PartText(form.parts[j]))
                           /\ Len(PartText(form.parts[j])) \in Nat
                           /\ Len(PartText(form.parts[j])) >= 10
    BY <2>1, <1>1, <1>2, EndsOrdered
  <2>3. ASSUME NEW j \in 1..n PROVE e[j] >= e[j - 1] + 10
    <3>1. j - 1 \in 0..n
      OBVIOUS
    <3>2. e[j - 1] \in Nat
      BY <3>1
    <3> QED BY <2>2, <3>2
  <2> QED BY <2>2, <2>3
<1>6. k \in 0..n /\ (k # 0 => k - 1 \in 0..n)
  BY <1>1
<1>7. from \in Nat /\ from >= 1 /\ (k # 0 => from = e[k - 1] + 2) /\ (k = 0 => from = 1)
  BY <1>2, <1>6
<1>8. Boundary("boundary", from) = Found(content, "boundary", from, N - 1)
  BY <1>3 DEF Boundary
<1>9. ASSUME NEW i \in from..(N - 1), content[i] = "boundary"
      PROVE  k < n /\ i >= e[k] + 1
  <2>1. i \in 1..N
    BY <1>7
  <2>2. PICK j \in 1..n : i = e[j - 1] + 1
    BY <1>4, <1>9, <2>1
  <2>3. j - 1 \in 0..n /\ e[j - 1] \in Nat
    BY <1>2
  <2>4. k # 0 => e[k - 1] < e[j - 1] /\ e[k - 1] \in Nat
    BY <1>6, <1>7, <1>9, <2>2, <2>3
  <2>5. k # 0 => ~(j - 1 <= k - 1)
    BY <2>3, <2>4, <1>5, <1>6
  <2>6. k <= j - 1
    BY <2>5, <1>6
  <2>7. e[k] <= e[j - 1] /\ e[k] \in Nat
    BY <2>3, <2>6, <1>5, <1>6
  <2> QED BY <2>2, <2>3, <2>6, <2>7
<1>10. CASE k < n
  <2>1. PICK m \in Nat : m = e[k] + 1
    BY <1>6
  <2>2. k + 1 \in 1..n /\ (k + 1) - 1 = k /\ n \in 0..n
    BY <1>6, <1>10
  <2>3. /\ e[k] + 10 <= e[k + 1] /\ e[k + 1] <= e[n]
        /\ e[k + 1] \in Nat /\ e[n] \in Nat /\ e[k] \in Nat
    <3>1. k + 1 \in 0..n /\ k + 1 <= n
      BY <2>2
    <3>2. e[k + 1] >= e[(k + 1) - 1] + 10
      BY <1>5, <2>2
    <3>3. e[k + 1] <= e[n]
      BY <1>5, <2>2, <3>1
    <3>4. e[k + 1] \in Nat /\ e[n] \in Nat /\ e[k] \in Nat
      BY <1>6, <2>2, <3>1
    <3> QED BY <2>2, <3>2, <3>3, <3>4
  <2>4. m <= N - 1 /\ m \in 1..N
    <3>1. PICK b \in Nat, z \in Nat : b = e[k + 1] /\ z = e[n]
      BY <2>3
    <3>2. m + 9 <= b /\ b <= z
      BY <2>1, <2>3, <3>1
    <3>3. z <= N - 1
      BY <1>4, <3>1
    <3> QED BY <3>2, <3>3
  <2>5. from <= m
    <3>1. CASE k = 0
      BY <1>7, <2>1, <2>3, <3>1
    <3>2. CASE k # 0
      <4>1. k \in 1..n /\ e[k - 1] \in Nat
        BY <1>6, <3>2
      <4>2. e[k] >= e[k - 1] + 10
        BY <1>5, <4>1
      <4> QED BY <1>7, <2>1, <2>3, <3>2, <4>1, <4>2
    <3> QED BY <3>1, <3>2
  <2>6. content[m] = "boundary"
    BY <1>4, <2>1, <2>2, <2>4
  <2>7. \A i \in from..(m - 1) : content[i] # "boundary"
    <3>1. \A i \in from..(m - 1) : i \in from..(N - 1) /\ ~(i >= e[k] + 1)
      BY <1>7, <2>1, <2>4
    <3> QED BY <3>1, <1>9
  <2>8. Found(content, "boundary", from, N - 1) = m
    <3>1. m \in from..(N - 1) /\ N - 1 \in Int
      BY <1>7, <2>4, <2>5
    <3>2. Matches(content[m], "boundary") /\ \A i \in from..(m - 1) : ~Matches(content[i], "boundary")
      BY <2>6, <2>7 DEF Matches
    <3> QED BY <1>7, <3>1, <3>2, FoundAt
  <2> QED BY <1>1, <1>2, <1>8, <1>10, <2>1, <2>8
<1>11. CASE ~(k < n)
  <2>1. \A i \in from..(N - 1) : ~Matches(content[i], "boundary")
    BY <1>9, <1>11 DEF Matches
  <2>2. Found(content, "boundary", from, N - 1) = 0
    <3>1. N - 1 \in Int
      OBVIOUS
    <3> QED BY <1>7, <2>1, <3>1, FoundNowhere
  <2> QED BY <1>1, <1>8, <1>11, <2>2
<1> QED BY <1>10, <1>11

\* A part that another boundary follows inside the text.
Closed(k) == k < Len(form.parts) \/ form.crlf

\* Its section ends with it, any other one at the end of the text.
LEMMA SectionEnds ==
  ASSUME TextInv, NEW k \in 1..Len(form.parts), NEW from, from = Ends(form)[k - 1] + 2
  PROVE  EndOf(from) = IF Closed(k) THEN Ends(form)[k] ELSE Len(content)
<1>1. PICK n \in Nat : n = Len(form.parts)
  BY TextFacts
<1>2. PICK e \in [0..n -> Nat] : e = Ends(form)
  BY <1>1, TextFacts
<1>3. PICK N \in Nat : N = Len(content)
  BY TextFacts
<1>4. k \in 0..n /\ k # 0 /\ e[k] \in Nat /\ e[k - 1] \in Nat /\ k <= n
  BY <1>1
<1>5. Boundary("boundary", from) = IF k < n THEN e[k] + 1 ELSE 0
  <2>1. from = IF k = 0 THEN 1 ELSE Ends(form)[k - 1] + 2
    BY <1>4
  <2> QED BY <2>1, <1>1, <1>2, <1>4, NextBoundary
<1>6. CASE k < n
  BY <1>1, <1>2, <1>4, <1>5, <1>6 DEF EndOf, Closed
<1>7. CASE ~(k < n)
  <2>1. k = n /\ Boundary("boundary", from) = 0
    BY <1>4, <1>5, <1>7
  <2>2. EndOf(from) = IF Boundary("boundary_last", from) # 0
                      THEN Boundary("boundary_last", from) - 1 ELSE N
    BY <2>1, <1>3 DEF EndOf
  <2>3. Boundary("boundary_last", from) = Found(content, "boundary_last", from, N - 1)
    BY <1>3 DEF Boundary
  <2>4. from \in Nat /\ N - 1 \in Int /\ from <= e[n]
    <3>1. e[k] = e[k - 1] + Len(PartText(form.parts[k])) /\ Len(PartText(form.parts[k])) \in Nat
          /\ Len(PartText(form.parts[k])) >= 10
      BY <1>1, <1>2, EndsOrdered DEF TextInv
    <3> QED BY <3>1, <1>2, <1>4, <2>1
  <2>5. ASSUME NEW i \in from..(N - 1), i <= e[n] PROVE content[i] # "boundary_last"
    <3>1. i \in 1..Len(Posted(form)) /\ i \in DOMAIN content
      BY <1>2, <1>3, <1>4, TextFacts
    <3>2. Posted(form)[i] # "boundary_last"
      BY <3>1, <2>5, <1>1, <1>2, BoundaryPlaces DEF TextInv
    <3>3. content[i] \in {Posted(form)[i], "NUL"}
      BY <3>1 DEF TextInv
    <3> QED BY <3>2, <3>3
  <2>6. CASE form.crlf
    <3>1. N = e[n] + 2 /\ content[e[n] + 1] = "boundary_last"
      BY <1>1, <1>2, <1>3, <2>6, TextFacts DEF TextInv
    <3>2. e[n] \in Nat
      BY <1>4, <2>1
    <3>3. PICK z \in Nat : z = e[n]
      BY <3>2
    <3>4. PICK m \in Nat : m = z + 1
      OBVIOUS
    <3>5. N = z + 2 /\ from \in Nat /\ from <= z /\ m = e[n] + 1
      BY <2>4, <3>1, <3>3, <3>4
    <3>6. m \in from..(N - 1) /\ \A i \in from..(m - 1) : i \in from..(N - 1) /\ i <= e[n]
      BY <3>3, <3>4, <3>5
    <3>7. Matches(content[m], "boundary_last")
          /\ \A i \in from..(m - 1) : ~Matches(content[i], "boundary_last")
      BY <2>5, <3>1, <3>5, <3>6 DEF Matches
    <3>8. Found(content, "boundary_last", from, N - 1) = m
      BY <2>4, <3>6, <3>7, FoundAt
    <3>9. m # 0 /\ m - 1 = e[n]
      BY <3>3, <3>4
    <3> QED BY <1>2, <2>1, <2>2, <2>3, <2>6, <3>8, <3>9 DEF Closed
  <2>7. CASE ~form.crlf
    <3>1. N = e[n] + 1
      BY <1>1, <1>2, <1>3, <2>7, TextFacts
    <3>2. \A i \in from..(N - 1) : ~Matches(content[i], "boundary_last")
      BY <1>4, <2>1, <2>4, <2>5, <3>1 DEF Matches
    <3>3. Found(content, "boundary_last", from, N - 1) = 0
      BY <2>4, <3>2, FoundNowhere
    <3> QED BY <1>1, <1>3, <1>7, <2>2, <2>3, <2>7, <3>3 DEF Closed
  <2> QED BY <2>6, <2>7
<1> QED BY <1>6, <1>7

\* The section of part k is inside the text, and does not end with a boundary.
LEMMA SectionPlace ==
  ASSUME TextInv, NEW k \in 1..Len(form.parts), NEW from, from = Ends(form)[k - 1] + 2,
         NEW end, end = EndOf(from)
  PROVE  /\ from \in 2..Len(content) /\ end \in from..Len(content)
         /\ end <= Len(content) - (IF Closed(k) THEN 1 ELSE 0)
         /\ content[end] # "boundary"
<1>1. PICK n \in Nat : n = Len(form.parts)
  BY TextFacts
<1>2. PICK e \in [0..n -> Nat] : e = Ends(form)
  BY <1>1, TextFacts
<1>3. PICK N \in Nat : N = Len(content)
  BY TextFacts
<1>4. N = e[n] + (IF form.crlf THEN 2 ELSE 1) /\ form.crlf \in BOOLEAN
  BY <1>1, <1>2, <1>3, TextFacts
<1>5. /\ \A i, j \in 0..n : i <= j => e[i] <= e[j]
      /\ \A j \in 1..n : e[j] >= e[j - 1] + 10
  <2>1. /\ \A i, j \in 0..n : i <= j => e[i] <= e[j]
        /\ \A j \in 1..n : /\ e[j] = e[j - 1] + Len(PartText(form.parts[j]))
                           /\ Len(PartText(form.parts[j])) \in Nat
                           /\ Len(PartText(form.parts[j])) >= 10
    BY <1>1, <1>2, EndsOrdered DEF TextInv
  <2>2. ASSUME NEW j \in 1..n PROVE e[j] >= e[j - 1] + 10
    <3>1. j - 1 \in 0..n
      OBVIOUS
    <3>2. e[j - 1] \in Nat
      BY <3>1
    <3> QED BY <2>1, <3>2
  <2> QED BY <2>1, <2>2
<1>6. k \in 1..n /\ k \in 0..n /\ k - 1 \in 0..n /\ n \in 0..n /\ k <= n
  BY <1>1
<1>7. e[k - 1] \in Nat /\ e[k] \in Nat /\ e[n] \in Nat /\ e[k - 1] + 10 <= e[k] /\ e[k] <= e[n]
  BY <1>5, <1>6
<1>8. e[n] < N
  BY <1>4, <1>7
<1>9. PICK c \in {0, 1} : c = IF Closed(k) THEN 1 ELSE 0
  OBVIOUS
<1>10. CASE Closed(k)
  <2>1. end = e[k]
    BY <1>2, <1>10, SectionEnds
  <2>2. ASSUME NEW j \in 1..n PROVE end # e[j - 1] + 1
    <3>1. j - 1 \in 0..n /\ e[j - 1] \in Nat
      OBVIOUS
    <3>2. j - 1 <= k - 1 => e[j - 1] <= e[k - 1]
      BY <3>1, <1>5, <1>6
    <3>3. k <= j - 1 => e[k] <= e[j - 1]
      BY <3>1, <1>5, <1>6
    <3>4. j - 1 <= k - 1 \/ k <= j - 1
      BY <1>6
    <3> QED BY <2>1, <3>1, <3>2, <3>3, <3>4, <1>7
  <2>3. end \in 1..N /\ end <= N - 1 /\ from \in 2..N /\ end \in from..N
    <3>1. PICK a \in Nat : a = e[k - 1]
      BY <1>7
    <3>2. PICK b \in Nat : b = e[k]
      BY <1>7
    <3>3. from = a + 2 /\ end = b /\ a + 10 <= b /\ b < N
      <4>1. from = a + 2 /\ end = b
        BY <1>2, <2>1, <3>1, <3>2
      <4>2. a + 10 <= b
        BY <1>7, <3>1, <3>2
      <4>3. PICK z \in Nat : z = e[n]
        BY <1>7
      <4>4. b <= z /\ z < N
        BY <1>7, <1>8, <3>2, <4>3
      <4> QED BY <4>1, <4>2, <4>4
    <3> QED BY <3>3
  <2>4. content[end] # "boundary"
    BY <1>1, <1>2, <1>3, <2>2, <2>3, TextFacts
  <2> QED BY <1>3, <1>10, <2>3, <2>4
<1>11. CASE ~Closed(k)
  <2>1. end = N
    BY <1>3, <1>11, SectionEnds
  <2>2. N = e[n] + 1
    BY <1>4, <1>11 DEF Closed
  <2>3. ASSUME NEW j \in 1..n PROVE end # e[j - 1] + 1
    <3>1. j - 1 \in 0..n /\ j \in 0..n /\ j <= n /\ e[j - 1] \in Nat /\ e[j] \in Nat
      OBVIOUS
    <3>2. e[j - 1] + 10 <= e[j] /\ e[j] <= e[n]
      BY <3>1, <1>5, <1>6
    <3> QED BY <2>1, <2>2, <3>1, <3>2, <1>7
  <2>4. end \in 1..N /\ from \in 2..N /\ end \in from..N /\ end <= N
    <3>1. PICK a \in Nat, b \in Nat, z \in Nat : a = e[k - 1] /\ b = e[k] /\ z = e[n]
      BY <1>7
    <3>2. from = a + 2 /\ a + 10 <= b /\ b <= z /\ z < N
      BY <1>2, <1>7, <1>8, <3>1
    <3> QED BY <2>1, <3>2
  <2>5. content[end] # "boundary"
    BY <1>1, <1>2, <1>3, <2>3, <2>4, TextFacts
  <2> QED BY <1>3, <1>11, <2>4, <2>5
<1> QED BY <1>10, <1>11

\* What After finds is in the section.
LEMMA AfterTyped ==
  ASSUME NEW from \in Nat, NEW end \in Nat, NEW key
  PROVE  /\ After(from, end, key) \in Nat
         /\ After(from, end, key) # 0 => After(from, end, key) \in from..end
<1>1. PICK i : i = Found(content, key, from, Section(end))
  OBVIOUS
<1>2. i = 0 \/ i \in from..(end - 2)
  <2>1. end - 2 \in Int /\ Section(end) = end - 2
    BY DEF Section
  <2> QED BY <1>1, <2>1, FoundTyped
<1>3. After(from, end, key) = IF i = 0 THEN 0 ELSE i + 1
  BY <1>1 DEF After
<1>4. CASE i = 0
  BY <1>3, <1>4
<1>5. CASE i \in from..(end - 2)
  <2>1. i + 1 \in from..end /\ i + 1 \in Nat
    BY <1>5
  <2> QED BY <1>3, <2>1
<1> QED BY <1>2, <1>4, <1>5

\* Pointers, and a size that may have wrapped.
ItemType ==
  [disposition : Nat, name : Nat, filename : Nat, type : Nat, buff : Nat, size : Int]

\* The pointers of an item stay inside the text.
Inside(item, n) ==
  {item.disposition, item.name, item.filename, item.type, item.buff} \subseteq 0..n

\* The new item points into the text.
LEMMA NewItemTyped ==
  ASSUME NEW n \in Nat, DOMAIN content = 1..n, NEW from \in 1..n, NEW end \in from..n
  PROVE  NewItem(from, end) \in ItemType /\ Inside(NewItem(from, end), n)
<1>1. PICK blank : blank = Blank(Nul(content, end), from)
  OBVIOUS
<1>2. blank \in Nat /\ (blank # 0 => blank \in from..(n - 2))
  <2>1. PICK text : text = Nul(content, end)
    OBVIOUS
  <2>2. DOMAIN text = 1..n
    BY <2>1 DEF Nul
  <2>3. Len(text) = n
    BY <2>2
  <2> DEFINE I == {i \in from..(Len(text) - 2) : text[i] = "CRLF" /\ text[i + 1] = "CRLF"}
  <2>4. blank = FirstOf(I)
    BY <1>1, <2>1 DEF Blank
  <2>5. I \in SUBSET Nat /\ I \subseteq from..(n - 2)
    BY <2>3
  <2> HIDE DEF I
  <2>6. CASE I = {}
    BY <2>4, <2>5, <2>6, FirstOfNumbers
  <2>7. CASE I # {}
    <3>1. blank \in I
      BY <2>4, <2>5, <2>7, FirstOfNumbers
    <3> QED BY <3>1, <2>5
  <2> QED BY <2>6, <2>7
<1>3. PICK d : d = After(from, end, "Content-Disposition")
  OBVIOUS
<1>4. PICK a : a = After(from, end, "name=")
  OBVIOUS
<1>5. PICK f : f = After(from, end, "filename=")
  OBVIOUS
<1>6. PICK t : t = After(from, end, "Content-Type")
  OBVIOUS
<1>7. \A key : After(from, end, key) \in 0..n
  <2>1. from \in Nat /\ end \in Nat
    OBVIOUS
  <2>2. ASSUME NEW key PROVE After(from, end, key) \in 0..n
    <3>1. /\ After(from, end, key) \in Nat
          /\ After(from, end, key) # 0 => After(from, end, key) \in from..end
      BY <2>1, AfterTyped
    <3> QED BY <3>1
  <2> QED BY <2>2
<1>8. d \in 0..n /\ a \in 0..n /\ f \in 0..n /\ t \in 0..n
  BY <1>3, <1>4, <1>5, <1>6, <1>7
<1>9. PICK b : b = IF blank = 0 THEN 0 ELSE blank + 2
  OBVIOUS
<1>10. PICK s : s = IF blank = 0 THEN 0 ELSE end - (blank + 2)
  OBVIOUS
<1>11. b \in 0..n /\ s \in Int
  BY <1>2, <1>9, <1>10
<1>12. NewItem(from, end) =
         [disposition |-> d, name |-> a, filename |-> f, type |-> t, buff |-> b, size |-> s]
  BY <1>1, <1>3, <1>4, <1>5, <1>6, <1>9, <1>10 DEF NewItem
<1> QED BY <1>8, <1>11, <1>12 DEF ItemType, Inside

\* A turn writes NULs into its section only.
LEMMA NewTextCuts ==
  ASSUME NEW n \in Nat, NEW T, "NUL" \in T, content \in [1..n -> T],
         NEW from \in 1..n, NEW end \in from..n, content[end] # "boundary"
  PROVE  NewText(from, end) \in [1..n -> T] /\ CutIn(content, NewText(from, end), from, end)
<1>1. from \in Nat /\ end \in Nat /\ from \in Int /\ end \in Int /\ end \in 1..n
  OBVIOUS
<1> DEFINE Ok(text) == /\ text \in [1..n -> T] /\ CutIn(content, text, from, end)
                       /\ text[end] = "NUL"
<1>2. \A text, new :
        Ok(text) /\ CutIn(text, new, from, end) /\ new = [i \in 1..n |-> new[i]] => Ok(new)
  <2> SUFFICES ASSUME NEW text, NEW new, Ok(text), CutIn(text, new, from, end),
                      new = [i \in 1..n |-> new[i]]
               PROVE  Ok(new)
    OBVIOUS
  <2>1. CutIn(content, new, from, end)
    BY CutInTwice
  <2>2. \A i \in 1..n : new[i] = text[i] \/ new[i] = "NUL"
    BY DEF CutIn
  <2>3. new \in [1..n -> T] /\ new[end] = "NUL"
    BY <1>1, <2>2
  <2> QED BY <2>1, <2>3
<1>3. Ok(Nul(content, end))
  <2>1. CutIn(content, Nul(content, end), from, end)
    BY <1>1, CutInNul
  <2>2. Nul(content, end) \in [1..n -> T] /\ Nul(content, end)[end] = "NUL"
    BY <1>1 DEF Nul
  <2> QED BY <2>1, <2>2
<1>4. ASSUME NEW text, Ok(text), NEW key, NEW char, char # "NUL", char # "boundary"
      PROVE  Ok(CutAt(text, After(from, end, key), char))
  <2>1. PICK a \in Nat : a = After(from, end, key) /\ (a # 0 => a \in from..end)
    BY <1>1, AfterTyped
  <2>2. PICK new : new = CutAt(text, a, char)
    OBVIOUS
  <2>3. CutIn(text, new, from, end)
    BY <1>1, <1>4, <2>1, <2>2, CutAtStays
  <2>4. new = [i \in 1..n |-> new[i]]
    <3>1. new = text \/ \E i : new = [text EXCEPT ![i] = "NUL"]
      BY <2>2 DEF CutAt
    <3>2. text \in [1..n -> T]
      BY <1>4
    <3> QED BY <3>1, <3>2
  <2>5. Ok(new)
    <3> HIDE DEF Ok
    <3> QED BY <1>2, <1>4, <2>3, <2>4
  <2> QED BY <2>1, <2>2, <2>5
<1>5. PICK t1 :
        t1 = CutAt(Nul(content, end), After(from, end, "Content-Disposition"), "semicolon")
  OBVIOUS
<1>6. PICK t2 : t2 = CutAt(t1, After(from, end, "name="), "quote")
  OBVIOUS
<1>7. PICK t3 : t3 = CutAt(t2, After(from, end, "filename="), "quote")
  OBVIOUS
<1>8. PICK t4 : t4 = CutAt(t3, After(from, end, "Content-Type"), "CRLF")
  OBVIOUS
<1>9. Ok(t1) /\ Ok(t2) /\ Ok(t3) /\ Ok(t4)
  <2>1. /\ "semicolon" # "NUL" /\ "semicolon" # "boundary" /\ "quote" # "NUL"
        /\ "quote" # "boundary" /\ "CRLF" # "NUL" /\ "CRLF" # "boundary"
    OBVIOUS
  <2> HIDE DEF Ok
  <2>2. Ok(t1)
    BY <1>3, <1>4, <1>5, <2>1
  <2>3. Ok(t2)
    BY <1>4, <1>6, <2>1, <2>2
  <2>4. Ok(t3)
    BY <1>4, <1>7, <2>1, <2>3
  <2>5. Ok(t4)
    BY <1>4, <1>8, <2>1, <2>4
  <2> QED BY <2>2, <2>3, <2>4, <2>5
<1>10. NewText(from, end) = t4
  BY <1>5, <1>6, <1>7, <1>8 DEF NewText
<1> QED BY <1>9, <1>10

-----------------------------------------------------------------------------
(* The keys of a part.                                                     *)

\* Where the keys and the blank line are in the text of a part.
HasKeys(p, t) ==
  /\ t[2] = "Content-Disposition" /\ t[5] = "name=" /\ \A j \in 2..4 : ~Matches(t[j], "name=")
  /\ p.file => t[9] = "filename=" /\ \A j \in 2..8 : t[j] # "filename="
  /\ ~p.file => \A j \in 2..Len(t) : t[j] # "filename="
  /\ p.type => /\ t[NamesLen(p) + 3] = "Content-Type"
               /\ \A j \in 2..(NamesLen(p) + 2) : t[j] # "Content-Type"
  /\ ~p.type => \A j \in 2..Len(t) : t[j] # "Content-Type"
  /\ t[FieldsLen(p)] = "CRLF" /\ t[FieldsLen(p) + 1] = "CRLF"
  /\ \A j \in 2..(FieldsLen(p) - 1) : ~(t[j] = "CRLF" /\ t[j + 1] = "CRLF")

\* Without lookalikes each key is there once, in the fields.
LEMMA PartKeys ==
  ASSUME NEW p \in FormParts, Plain(p)
  PROVE  HasKeys(p, PartText(p))
<1>1. PICK t : t = PartText(p)
  OBVIOUS
<1>2. HasTokens(p, t)
  BY <1>1, PartTokens
<1>3. PICK n \in {6, 10} : n = NamesLen(p)
  BY FieldsLenTyped
<1>4. PICK h \in 8..15 : h = FieldsLen(p)
  BY FieldsLenTyped
<1>5. /\ p.file => n = 10
      /\ ~p.file => n = 6
      /\ p.type => h = n + 5
      /\ ~p.type => h = n + 2
  BY <1>3, <1>4 DEF NamesLen, FieldsLen
<1>6. p.data \in Seq(Words \cup Keys) /\ Len(p.data) \in Nat
  <2>1. p.data \in Seq(Words \cup Keys)
    BY DEF FormParts
  <2> QED BY <2>1, SequenceFacts
<1>7. PICK l \in Nat : l = Len(p.data)
  BY <1>6
<1>8. /\ ~p.file => \A i \in 1..l : p.data[i] # "filename="
      /\ ~p.type => \A i \in 1..l : p.data[i] # "Content-Type"
  <2>1. \A i \in 1..l : p.data[i] \in ToSet(p.data)
    BY <1>6, <1>7, SequenceFacts DEF ToSet
  <2> QED BY <2>1 DEF Plain
<1>9. /\ t[2] = "Content-Disposition" /\ t[3] = "form-data"
      /\ t[4] = "semicolon" /\ t[5] = "name=" /\ t[6] = "field" /\ t[7] = "quote"
      /\ p.file => t[8] = "semicolon" /\ t[9] = "filename=" /\ t[10] = "path" /\ t[11] = "quote"
      /\ t[n + 2] = "CRLF" /\ t[h + 1] = "CRLF"
      /\ p.type => t[n + 3] = "Content-Type" /\ t[n + 4] = "mime" /\ t[n + 5] = "CRLF"
  BY <1>2, <1>3, <1>4 DEF HasTokens
<1>10. /\ Len(t) = h + l + 2 /\ t[h + l + 2] = "CRLF"
       /\ \A i \in 1..l : t[h + 1 + i] = p.data[i]
  BY <1>2, <1>4, <1>7 DEF HasTokens
<1>11. \A j \in 2..4 : ~Matches(t[j], "name=")
  BY <1>9 DEF Matches
<1>12. p.file => \A j \in 2..8 : t[j] # "filename="
  BY <1>9
<1>13. ASSUME NEW j \in 2..(h + l + 2), j > h + 1
       PROVE  /\ ~p.file => t[j] # "filename="
              /\ ~p.type => t[j] # "Content-Type"
  <2>1. CASE j = h + l + 2
    BY <1>10, <2>1
  <2>2. CASE j # h + l + 2
    <3>1. j - h - 1 \in 1..l /\ h + 1 + (j - h - 1) = j
      BY <1>13, <2>2
    <3> QED BY <3>1, <1>8, <1>10
  <2> QED BY <2>1, <2>2
<1>14. CASE p.type
  <2>1. h = n + 5 /\ n \in {6, 10}
    BY <1>5, <1>14
  <2>2. t[n + 3] = "Content-Type" /\ t[n + 4] = "mime" /\ t[n + 5] = "CRLF" /\ t[n + 6] = "CRLF"
    BY <1>9, <1>14, <2>1
  <2>3. CASE p.file
    <3>1. n = 10 /\ h = 15
      BY <1>5, <2>1, <2>3
    <3>2. /\ t[8] = "semicolon" /\ t[9] = "filename=" /\ t[10] = "path" /\ t[11] = "quote"
          /\ t[12] = "CRLF" /\ t[13] = "Content-Type" /\ t[14] = "mime"
          /\ t[15] = "CRLF" /\ t[16] = "CRLF"
      BY <1>9, <2>2, <2>3, <3>1
    <3>3. \A j \in 2..12 : t[j] # "Content-Type"
      BY <1>9, <3>2
    <3>4. \A j \in 2..14 : ~(t[j] = "CRLF" /\ t[j + 1] = "CRLF")
      BY <1>9, <3>2
    <3> QED BY <1>1, <1>3, <1>4, <1>9, <1>11, <1>12, <1>14, <2>3, <3>1, <3>2, <3>3, <3>4
               DEF HasKeys
  <2>4. CASE ~p.file
    <3>1. n = 6 /\ h = 11
      BY <1>5, <2>1, <2>4
    <3>2. /\ t[8] = "CRLF" /\ t[9] = "Content-Type" /\ t[10] = "mime"
          /\ t[11] = "CRLF" /\ t[12] = "CRLF"
      BY <1>9, <2>2, <3>1
    <3>3. \A j \in 2..8 : t[j] # "Content-Type"
      BY <1>9, <3>2
    <3>4. \A j \in 2..10 : ~(t[j] = "CRLF" /\ t[j + 1] = "CRLF")
      BY <1>9, <3>2
    <3>5. \A j \in 2..12 : t[j] # "filename="
      BY <1>9, <3>2
    <3>6. \A j \in 2..Len(t) : t[j] # "filename="
      <4>1. ASSUME NEW j \in 2..Len(t) PROVE t[j] # "filename="
        <5>1. j \in 2..12 \/ (j \in 2..(h + l + 2) /\ j > h + 1)
          BY <1>10, <3>1
        <5> QED BY <5>1, <3>5, <1>13, <2>4
      <4> QED BY <4>1
    <3> QED BY <1>1, <1>3, <1>4, <1>9, <1>11, <1>14, <2>4, <3>1, <3>2, <3>3, <3>4, <3>6
               DEF HasKeys
  <2> QED BY <2>3, <2>4
<1>15. CASE ~p.type
  <2>1. h = n + 2 /\ n \in {6, 10}
    BY <1>5, <1>15
  <2>2. t[n + 2] = "CRLF" /\ t[n + 3] = "CRLF"
    BY <1>9, <2>1
  <2>3. CASE p.file
    <3>1. n = 10 /\ h = 12
      BY <1>5, <2>1, <2>3
    <3>2. /\ t[8] = "semicolon" /\ t[9] = "filename=" /\ t[10] = "path" /\ t[11] = "quote"
          /\ t[12] = "CRLF" /\ t[13] = "CRLF"
      BY <1>9, <2>2, <2>3, <3>1
    <3>3. \A j \in 2..13 : t[j] # "Content-Type"
      BY <1>9, <3>2
    <3>4. \A j \in 2..11 : ~(t[j] = "CRLF" /\ t[j + 1] = "CRLF")
      BY <1>9, <3>2
    <3>5. \A j \in 2..Len(t) : t[j] # "Content-Type"
      <4>1. ASSUME NEW j \in 2..Len(t) PROVE t[j] # "Content-Type"
        <5>1. j \in 2..13 \/ (j \in 2..(h + l + 2) /\ j > h + 1)
          BY <1>10, <3>1
        <5> QED BY <5>1, <3>3, <1>13, <1>15
      <4> QED BY <4>1
    <3> QED BY <1>1, <1>3, <1>4, <1>9, <1>11, <1>12, <1>15, <2>3, <3>1, <3>2, <3>4, <3>5
               DEF HasKeys
  <2>4. CASE ~p.file
    <3>1. n = 6 /\ h = 8
      BY <1>5, <2>1, <2>4
    <3>2. t[8] = "CRLF" /\ t[9] = "CRLF"
      BY <2>2, <3>1
    <3>3. \A j \in 2..9 : t[j] # "Content-Type" /\ t[j] # "filename="
      BY <1>9, <3>2
    <3>4. \A j \in 2..7 : ~(t[j] = "CRLF" /\ t[j + 1] = "CRLF")
      BY <1>9, <3>2
    <3>5. \A j \in 2..Len(t) : t[j] # "Content-Type" /\ t[j] # "filename="
      <4>1. ASSUME NEW j \in 2..Len(t) PROVE t[j] # "Content-Type" /\ t[j] # "filename="
        <5>1. j \in 2..9 \/ (j \in 2..(h + l + 2) /\ j > h + 1)
          BY <1>10, <3>1
        <5> QED BY <5>1, <3>3, <1>13, <1>15, <2>4
      <4> QED BY <4>1
    <3> QED BY <1>1, <1>3, <1>4, <1>9, <1>11, <1>15, <2>4, <3>1, <3>2, <3>4, <3>5 DEF HasKeys
  <2> QED BY <2>3, <2>4
<1> QED BY <1>14, <1>15

-----------------------------------------------------------------------------
(* The cuts of a turn.                                                     *)

\* Where a turn cuts the text of a part.
Cuts(p) ==
  {4, 7} \cup (IF p.file THEN {11} ELSE {}) \cup (IF p.type THEN {NamesLen(p) + 5} ELSE {})
  \cup {Len(PartText(p))}

\* After s, the text has that of part p, but for cuts.
HasPartAt(text, p, s) ==
  \A i \in 1..Len(PartText(p)) :
    \/ text[s + i] = PartText(p)[i]
    \/ i \in Cuts(p) /\ text[s + i] = "NUL"

\* Sizes of the text of a part.
LEMMA PartSizes ==
  ASSUME NEW p \in FormParts
  PROVE  /\ NamesLen(p) \in {6, 10} /\ FieldsLen(p) \in 8..15
         /\ p.file => NamesLen(p) = 10
         /\ ~p.file => NamesLen(p) = 6
         /\ p.type => FieldsLen(p) = NamesLen(p) + 5
         /\ ~p.type => FieldsLen(p) = NamesLen(p) + 2
         /\ Len(PartText(p)) \in Nat /\ Len(p.data) \in Nat
         /\ Len(PartText(p)) = FieldsLen(p) + Len(p.data) + 2
<1>1. p.data \in Seq(Words \cup Keys)
  BY DEF FormParts
<1>2. Len(p.data) \in Nat
  BY <1>1, SequenceFacts
<1>3. PICK h \in 8..15 : h = FieldsLen(p)
  BY FieldsLenTyped
<1>4. Len(PartText(p)) = FieldsLen(p) + Len(p.data) + 2
  BY PartTokens DEF HasTokens
<1>5. Len(PartText(p)) \in Nat
  BY <1>2, <1>3, <1>4
<1>6. /\ p.file => NamesLen(p) = 10
      /\ ~p.file => NamesLen(p) = 6
      /\ p.type => FieldsLen(p) = NamesLen(p) + 5
      /\ ~p.type => FieldsLen(p) = NamesLen(p) + 2
  BY DEF NamesLen, FieldsLen
<1> QED BY <1>2, <1>4, <1>5, <1>6, FieldsLenTyped

\* The keys of a part without lookalikes are found where they are.
LEMMA KeysFound ==
  ASSUME NEW p \in FormParts, Plain(p), NEW s \in Nat, HasPartAt(content, p, s),
         NEW from, from = s + 2, NEW end, end = s + Len(PartText(p))
  PROVE  /\ After(from, end, "Content-Disposition") = s + 3
         /\ After(from, end, "name=") = s + 6
         /\ After(from, end, "filename=") = IF p.file THEN s + 10 ELSE 0
         /\ After(from, end, "Content-Type") = IF p.type THEN s + NamesLen(p) + 4 ELSE 0
<1>1. PICK t : t = PartText(p)
  OBVIOUS
<1>2. PICK n \in {6, 10} : n = NamesLen(p)
  BY PartSizes
<1>3. PICK l \in Nat : l = Len(p.data)
  BY PartSizes
<1>4. PICK h \in 8..15 : h = FieldsLen(p)
  BY PartSizes
<1>5. PICK L \in Nat : L = Len(t)
  BY <1>1, PartSizes
<1>6. /\ L = h + l + 2
      /\ p.file => n = 10
      /\ ~p.file => n = 6
      /\ p.type => h = n + 5
      /\ ~p.type => h = n + 2
  BY <1>1, <1>2, <1>3, <1>4, <1>5, PartSizes
<1>7. \A i \in 1..L : content[s + i] = t[i] \/ (i \in Cuts(p) /\ content[s + i] = "NUL")
  BY <1>1, <1>5 DEF HasPartAt
<1>8. \A i \in 1..L : content[s + i] \in {t[i], "NUL"}
  BY <1>7
<1>9. Cuts(p) = {4, 7} \cup (IF p.file THEN {11} ELSE {})
                \cup (IF p.type THEN {n + 5} ELSE {}) \cup {L}
  BY <1>1, <1>2, <1>5 DEF Cuts
<1>10. HasKeys(p, t)
  BY <1>1, PartKeys
<1>11. /\ \A i \in from..(end - 2) : i - s \in 2..(L - 2) /\ s + (i - s) = i
       /\ \A i \in 2..(L - 2) : s + i \in from..(end - 2)
       /\ from \in Nat /\ end - 2 \in Int /\ L >= 10
  BY <1>1, <1>5, <1>6
<1>12. \A key : After(from, end, key) = IF Found(content, key, from, end - 2) = 0 THEN 0
                                        ELSE Found(content, key, from, end - 2) + 1
  BY DEF After, Section
<1>13. ASSUME NEW key \in {"Content-Disposition", "name=", "filename=", "Content-Type"},
              NEW m \in 2..(L - 2), m \notin Cuts(p), Matches(t[m], key),
              \A j \in 2..(m - 1) : ~Matches(t[j], key)
       PROVE  After(from, end, key) = s + m + 1
  <2>1. content[s + m] = t[m] /\ s + m \in from..(end - 2)
    <3>1. m \in 1..L
      OBVIOUS
    <3> QED BY <3>1, <1>7, <1>11, <1>13
  <2>2. ASSUME NEW i \in from..(s + m - 1) PROVE ~Matches(content[i], key)
    <3>1. i - s \in 2..(m - 1) /\ s + (i - s) = i /\ i - s \in 1..L
      BY <1>11
    <3>2. content[i] \in {t[i - s], "NUL"} /\ ~Matches(t[i - s], key)
      BY <3>1, <1>8, <1>13
    <3>3. ~Matches("NUL", key)
      BY <1>13 DEF Matches
    <3> QED BY <3>2, <3>3
  <2>3. PICK q \in Nat : q = s + m
    OBVIOUS
  <2>4. Found(content, key, from, end - 2) = q
    <3>1. q \in from..(end - 2) /\ Matches(content[q], key)
      BY <1>13, <2>1, <2>3
    <3>2. \A i \in from..(q - 1) : ~Matches(content[i], key)
      BY <2>2, <2>3
    <3> QED BY <1>11, <3>1, <3>2, FoundAt
  <2>5. q # 0 /\ q + 1 = s + m + 1
    BY <2>3
  <2> QED BY <1>12, <2>4, <2>5
<1>14. ASSUME NEW key \in {"filename=", "Content-Type"}, \A j \in 2..L : t[j] # key
       PROVE  After(from, end, key) = 0
  <2>1. ASSUME NEW i \in from..(end - 2) PROVE ~Matches(content[i], key)
    <3>1. i - s \in 1..L /\ i - s \in 2..L /\ s + (i - s) = i
      BY <1>11
    <3>2. content[i] \in {t[i - s], "NUL"} /\ t[i - s] # key
      BY <3>1, <1>8, <1>14
    <3> QED BY <3>2, <1>14 DEF Matches
  <2>2. Found(content, key, from, end - 2) = 0
    BY <1>11, <2>1, FoundNowhere
  <2> QED BY <1>12, <2>2
<1>15. After(from, end, "Content-Disposition") = s + 3
  <2>1. /\ 2 \in 2..(L - 2) /\ 2 \notin Cuts(p) /\ Matches(t[2], "Content-Disposition")
        /\ \A j \in 2..(2 - 1) : ~Matches(t[j], "Content-Disposition")
    BY <1>6, <1>9, <1>10, <1>11 DEF HasKeys, Matches
  <2>2. After(from, end, "Content-Disposition") = s + 2 + 1
    BY <1>13, <2>1
  <2> QED BY <2>2
<1>16. After(from, end, "name=") = s + 6
  <2>1. 5 \in 2..(L - 2) /\ 5 \notin Cuts(p)
    BY <1>6, <1>9, <1>11
  <2>2. Matches(t[5], "name=") /\ \A j \in 2..(5 - 1) : ~Matches(t[j], "name=")
    BY <1>10 DEF HasKeys, Matches
  <2>3. After(from, end, "name=") = s + 5 + 1
    BY <1>13, <2>1, <2>2
  <2> QED BY <2>3
<1>17. After(from, end, "filename=") = IF p.file THEN s + 10 ELSE 0
  <2>1. CASE p.file
    <3>1. 9 \in 2..(L - 2) /\ 9 \notin Cuts(p)
      BY <1>6, <1>9, <1>11, <2>1
    <3>2. t[9] = "filename=" /\ \A j \in 2..(9 - 1) : t[j] # "filename="
      BY <1>10, <2>1 DEF HasKeys
    <3>3. Matches(t[9], "filename=") /\ \A j \in 2..(9 - 1) : ~Matches(t[j], "filename=")
      BY <3>2 DEF Matches
    <3>4. After(from, end, "filename=") = s + 9 + 1
      BY <1>13, <3>1, <3>3
    <3> QED BY <2>1, <3>4
  <2>2. CASE ~p.file
    <3>1. \A j \in 2..L : t[j] # "filename="
      BY <1>5, <1>10, <2>2 DEF HasKeys
    <3> QED BY <1>14, <2>2, <3>1
  <2> QED BY <2>1, <2>2
<1>18. After(from, end, "Content-Type") = IF p.type THEN s + n + 4 ELSE 0
  <2>1. CASE p.type
    <3>1. PICK m \in {9, 13} : m = n + 3
      OBVIOUS
    <3>2. m \in 2..(L - 2) /\ m \notin Cuts(p)
      <4>1. h = n + 5
        BY <1>6, <2>1
      <4>2. m <= L - 2 /\ m # L /\ m # n + 5 /\ m \notin {4, 7}
        BY <1>6, <3>1, <4>1
      <4>3. p.file => m # 11
        OBVIOUS
      <4> QED BY <1>9, <4>2, <4>3
    <3>3. t[m] = "Content-Type" /\ \A j \in 2..(m - 1) : t[j] # "Content-Type"
      <4>1. m - 1 = n + 2
        BY <3>1
      <4> QED BY <1>2, <1>10, <2>1, <3>1, <4>1 DEF HasKeys
    <3>4. Matches(t[m], "Content-Type") /\ \A j \in 2..(m - 1) : ~Matches(t[j], "Content-Type")
      BY <3>3 DEF Matches
    <3>5. After(from, end, "Content-Type") = s + m + 1
      BY <1>13, <3>2, <3>4
    <3> QED BY <2>1, <3>1, <3>5
  <2>2. CASE ~p.type
    <3>1. \A j \in 2..L : t[j] # "Content-Type"
      BY <1>5, <1>10, <2>2 DEF HasKeys
    <3> QED BY <1>14, <2>2, <3>1
  <2> QED BY <2>1, <2>2
<1> QED BY <1>2, <1>15, <1>16, <1>17, <1>18

\* A NUL changes one token.
LEMMA NulAt ==
  ASSUME NEW n \in Nat, NEW T, "NUL" \in T, NEW text, text \in [1..n -> T], NEW i \in 1..n
  PROVE  /\ Nul(text, i) \in [1..n -> T]
         /\ \A j \in 1..n : Nul(text, i)[j] = IF j = i THEN "NUL" ELSE text[j]
BY DEF Nul

\* In the L tokens after s, the one at m has become a NUL.
CutOnce(new, text, s, L, m) ==
  \A i \in 1..L : new[s + i] = IF i = m THEN "NUL" ELSE text[s + i]

\* a is the place before m in the L tokens after s; at m is the character or a NUL,
\* and neither of them before it.
CanCut(n, T, text, s, L, m, a, char) ==
  /\ n \in Nat /\ "NUL" \in T /\ text \in [1..n -> T]
  /\ s \in Nat /\ L \in Nat /\ s + L <= n /\ m \in 2..L
  /\ a \in Nat /\ a + 1 = s + m
  /\ text[s + m] = char \/ text[s + m] = "NUL"
  /\ text[a] # char /\ text[a] # "NUL"

\* Such a cut changes the token at m only.
LEMMA OneCut ==
  ASSUME NEW n, NEW T, NEW text, NEW s, NEW L, NEW m, NEW a, NEW char,
         CanCut(n, T, text, s, L, m, a, char)
  PROVE  CutAt(text, a, char) \in [1..n -> T] /\ CutOnce(CutAt(text, a, char), text, s, L, m)
<1>1. /\ n \in Nat /\ "NUL" \in T /\ text \in [1..n -> T]
      /\ s \in Nat /\ L \in Nat /\ s + L <= n /\ m \in 2..L
      /\ a \in Nat /\ a + 1 = s + m
      /\ text[s + m] = char \/ text[s + m] = "NUL"
      /\ text[a] # char /\ text[a] # "NUL"
  BY DEF CanCut
<1>2. PICK b \in 1..n : b = s + m
  BY <1>1
<1>3. a \in 1..n /\ b \in a..n /\ b - 1 = a
  BY <1>1, <1>2
<1>4. (text[b] = char \/ text[b] = "NUL")
      /\ \A j \in a..(b - 1) : text[j] # char /\ text[j] # "NUL"
  BY <1>1, <1>2, <1>3
<1>5. StrChr(text, a, b, char)
  <2>1. Len(text) = n /\ text \in [1..n -> Range(text)]
    BY <1>1 DEF Range
  <2> QED BY <1>1, <1>3, <1>4, <2>1 DEF StrChr
<1>6. CutAt(text, a, char) = Nul(text, b)
  BY <1>5, CutAtFirst
<1>7. /\ Nul(text, b) \in [1..n -> T]
      /\ \A j \in 1..n : Nul(text, b)[j] = IF j = b THEN "NUL" ELSE text[j]
  BY <1>1, NulAt
<1>8. \A i \in 1..L : s + i \in 1..n /\ (s + i = b <=> i = m)
  BY <1>1, <1>2
<1> QED BY <1>6, <1>7, <1>8 DEF CutOnce

\* The text of part p after s has become new, cut where Cuts says.
IsCut(new, text, p, s) ==
  \A i \in 1..Len(PartText(p)) : new[s + i] = IF i \in Cuts(p) THEN "NUL" ELSE text[s + i]

\* A turn cuts the text of a part where Cuts says.
LEMMA PartIsCut ==
  ASSUME TextInv,
         NEW p \in FormParts, Plain(p), NEW s \in Nat, HasPartAt(content, p, s),
         NEW from, from = s + 2, NEW end, end = s + Len(PartText(p)), end <= Len(content)
  PROVE  IsCut(NewText(from, end), content, p, s)
<1>1. PICK n \in Nat : n = Len(content)
  BY TextFacts
<1>2. PICK T : T = Tokens \cup {"NUL"}
  OBVIOUS
<1>3. content \in [1..n -> T] /\ "NUL" \in T
  BY <1>1, <1>2, TextFacts
<1>4. PICK t : t = PartText(p)
  OBVIOUS
<1>5. PICK q \in {6, 10} : q = NamesLen(p)
  BY PartSizes
<1>6. PICK L \in Nat : L = Len(t)
  BY <1>4, PartSizes
<1>7. /\ L >= q + 4 /\ (p.type => L >= q + 7)
      /\ p.file => q = 10
      /\ ~p.file => q = 6
      /\ p.file \in BOOLEAN /\ p.type \in BOOLEAN
  <2>1. PICK l \in Nat : l = Len(p.data)
    BY PartSizes
  <2>2. PICK h \in 8..15 : h = FieldsLen(p)
    BY PartSizes
  <2>3. /\ L = h + l + 2
        /\ p.file => q = 10
        /\ ~p.file => q = 6
        /\ p.type => h = q + 5
        /\ ~p.type => h = q + 2
    BY <1>4, <1>5, <1>6, <2>1, <2>2, PartSizes
  <2>4. p.file \in BOOLEAN /\ p.type \in BOOLEAN
    BY DEF FormParts
  <2> QED BY <2>3, <2>4
<1>8. \A i \in 1..L : content[s + i] = t[i] \/ (i \in Cuts(p) /\ content[s + i] = "NUL")
  BY <1>4, <1>6 DEF HasPartAt
<1>9. \A i \in 1..L : content[s + i] \in {t[i], "NUL"}
  BY <1>8
<1>10. Cuts(p) = {4, 7} \cup (IF p.file THEN {11} ELSE {})
                \cup (IF p.type THEN {q + 5} ELSE {}) \cup {L}
  BY <1>4, <1>5, <1>6 DEF Cuts
<1>11. /\ t[3] = "form-data" /\ t[4] = "semicolon" /\ t[6] = "field" /\ t[7] = "quote"
       /\ p.file => t[10] = "path" /\ t[11] = "quote"
       /\ p.type => t[q + 4] = "mime" /\ t[q + 5] = "CRLF"
  BY <1>4, <1>5, PartTokens DEF HasTokens
<1>12. /\ \A i \in 1..L : s + i \in 1..n
       /\ end = s + L /\ end \in 1..n
  BY <1>1, <1>4, <1>6, <1>7
<1>13. /\ After(from, end, "Content-Disposition") = s + 3
       /\ After(from, end, "name=") = s + 6
       /\ After(from, end, "filename=") = IF p.file THEN s + 10 ELSE 0
       /\ After(from, end, "Content-Type") = IF p.type THEN s + q + 4 ELSE 0
  BY <1>5, KeysFound
<1>14. PICK t0 : t0 = Nul(content, end)
  OBVIOUS
<1>15. PICK t1 : t1 = CutAt(t0, s + 3, "semicolon")
  OBVIOUS
<1>16. PICK t2 : t2 = CutAt(t1, s + 6, "quote")
  OBVIOUS
<1>17. PICK t3 : t3 = CutAt(t2, IF p.file THEN s + 10 ELSE 0, "quote")
  OBVIOUS
<1>18. PICK t4 : t4 = CutAt(t3, IF p.type THEN s + q + 4 ELSE 0, "CRLF")
  OBVIOUS
<1>19. NewText(from, end) = t4
  BY <1>13, <1>14, <1>15, <1>16, <1>17, <1>18 DEF NewText
<1>20. /\ t0 \in [1..n -> T]
       /\ \A i \in 1..L : t0[s + i] = IF i = L THEN "NUL" ELSE content[s + i]
  <2>1. /\ Nul(content, end) \in [1..n -> T]
        /\ \A j \in 1..n : Nul(content, end)[j] = IF j = end THEN "NUL" ELSE content[j]
    BY <1>3, <1>12, NulAt
  <2>2. \A i \in 1..L : s + i \in 1..n /\ (s + i = end <=> i = L)
    BY <1>12
  <2> QED BY <1>14, <2>1, <2>2
<1>21. /\ t1 \in [1..n -> T]
       /\ \A i \in 1..L : t1[s + i] = IF i = 4 THEN "NUL" ELSE t0[s + i]
  <2>1. 4 \in 2..L /\ 4 \in 1..L /\ 3 \in 1..L /\ 3 # L /\ 4 # L /\ 3 \notin Cuts(p)
    BY <1>7, <1>10
  <2>2. t0[s + 4] = content[s + 4] /\ t0[s + 3] = content[s + 3] /\ content[s + 3] = t[3]
    BY <1>8, <1>20, <2>1
  <2>3. t0[s + 4] \in {"semicolon", "NUL"} /\ t0[s + 3] \notin {"semicolon", "NUL"}
    BY <1>9, <1>11, <2>1, <2>2
  <2>4. s + 3 \in Nat /\ (s + 3) + 1 = s + 4 /\ s + L <= n
    BY <1>12
  <2>5. CanCut(n, T, t0, s, L, 4, s + 3, "semicolon")
    BY <1>3, <1>20, <2>1, <2>3, <2>4 DEF CanCut
  <2>6. t1 \in [1..n -> T] /\ CutOnce(t1, t0, s, L, 4)
    BY <1>15, <2>5, OneCut
  <2> QED BY <2>6 DEF CutOnce
<1>22. /\ t2 \in [1..n -> T]
       /\ \A i \in 1..L : t2[s + i] = IF i = 7 THEN "NUL" ELSE t1[s + i]
  <2>1. /\ 7 \in 2..L /\ 7 \in 1..L /\ 6 \in 1..L /\ 6 # L /\ 7 # L /\ 6 \notin Cuts(p)
    BY <1>7, <1>10
  <2>2. t1[s + 7] = content[s + 7] /\ t1[s + 6] = content[s + 6] /\ content[s + 6] = t[6]
    BY <1>8, <1>20, <1>21, <2>1
  <2>3. t1[s + 7] \in {"quote", "NUL"} /\ t1[s + 6] \notin {"quote", "NUL"}
    BY <1>9, <1>11, <2>1, <2>2
  <2>4. s + 6 \in Nat /\ (s + 6) + 1 = s + 7 /\ s + L <= n
    BY <1>12
  <2>5. CanCut(n, T, t1, s, L, 7, s + 6, "quote")
    BY <1>3, <1>21, <2>1, <2>3, <2>4 DEF CanCut
  <2>6. t2 \in [1..n -> T] /\ CutOnce(t2, t1, s, L, 7)
    BY <1>16, <2>5, OneCut
  <2> QED BY <2>6 DEF CutOnce
<1>23. /\ t3 \in [1..n -> T]
       /\ \A i \in 1..L : t3[s + i] = IF p.file /\ i = 11 THEN "NUL" ELSE t2[s + i]
  <2>1. CASE p.file
    <3>1. /\ 11 \in 2..L /\ 11 \in 1..L /\ 10 \in 1..L /\ 10 # L /\ 11 # L /\ 10 \notin Cuts(p)
      BY <1>7, <1>10, <2>1
    <3>2. t2[s + 11] = content[s + 11] /\ t2[s + 10] = content[s + 10] /\ content[s + 10] = t[10]
      BY <1>8, <1>20, <1>21, <1>22, <3>1
    <3>3. t2[s + 11] \in {"quote", "NUL"} /\ t2[s + 10] \notin {"quote", "NUL"}
      BY <1>9, <1>11, <2>1, <3>1, <3>2
    <3>4. s + 10 \in Nat /\ (s + 10) + 1 = s + 11 /\ s + L <= n
      BY <1>12
    <3>5. t3 = CutAt(t2, s + 10, "quote")
      BY <1>17, <2>1
    <3>6. CanCut(n, T, t2, s, L, 11, s + 10, "quote")
      BY <1>3, <1>22, <3>1, <3>3, <3>4 DEF CanCut
    <3>7. t3 \in [1..n -> T] /\ CutOnce(t3, t2, s, L, 11)
      BY <3>5, <3>6, OneCut
    <3> QED BY <2>1, <3>7 DEF CutOnce
  <2>2. CASE ~p.file
    <3>1. CutAt(t2, 0, "quote") = t2
      BY DEF CutAt
    <3> QED BY <1>17, <1>22, <2>2, <3>1
  <2> QED BY <2>1, <2>2
<1>24. \A i \in 1..L : t4[s + i] = IF p.type /\ i = q + 5 THEN "NUL" ELSE t3[s + i]
  <2>1. CASE p.type
    <3>1. PICK m \in {11, 15} : m = q + 5
      OBVIOUS
    <3>2. /\ m \in 2..L /\ m \in 1..L /\ m - 1 \in 1..L /\ m - 1 # L /\ m # L
          /\ m - 1 \notin Cuts(p) /\ m - 1 = q + 4
      <4>1. m + 2 <= L /\ m - 1 = q + 4 /\ m - 1 # q + 5 /\ m - 1 \notin {4, 7, 11}
        BY <1>7, <2>1, <3>1
      <4> QED BY <1>10, <3>1, <4>1
    <3>3. (p.file => m # 11) /\ m # 4 /\ m # 7 /\ m - 1 # 4 /\ m - 1 # 7 /\ m - 1 # 11
      BY <1>7, <3>1
    <3>4. \A i \in {m - 1, m} : t3[s + i] = content[s + i]
      <4> SUFFICES ASSUME NEW i \in {m - 1, m} PROVE t3[s + i] = content[s + i]
        OBVIOUS
      <4>1. i \in 1..L /\ i # L /\ i # 4 /\ i # 7 /\ ~(p.file /\ i = 11)
        BY <3>2, <3>3
      <4>2. t3[s + i] = t2[s + i]
        BY <1>23, <4>1
      <4>3. t2[s + i] = t1[s + i]
        BY <1>22, <4>1
      <4>4. t1[s + i] = t0[s + i]
        BY <1>21, <4>1
      <4>5. t0[s + i] = content[s + i]
        BY <1>20, <4>1
      <4> QED BY <4>2, <4>3, <4>4, <4>5
    <3>5. t[m - 1] = "mime" /\ t[m] = "CRLF" /\ content[s + (m - 1)] = t[m - 1]
      BY <1>8, <1>11, <2>1, <3>1, <3>2
    <3>6. t3[s + m] \in {"CRLF", "NUL"} /\ t3[s + (m - 1)] \notin {"CRLF", "NUL"}
      <4>1. t3[s + m] = content[s + m] /\ t3[s + (m - 1)] = content[s + (m - 1)]
        BY <3>4
      <4>2. content[s + m] \in {t[m], "NUL"}
        BY <1>9, <3>2
      <4> QED BY <3>5, <4>1, <4>2
    <3>7. PICK a \in Nat : a = s + (m - 1)
      OBVIOUS
    <3>8. a + 1 = s + m /\ s + L <= n /\ a = s + q + 4
      BY <1>12, <3>2, <3>7
    <3>9. t4 = CutAt(t3, a, "CRLF")
      BY <1>18, <2>1, <3>8
    <3>10. CutOnce(t4, t3, s, L, m)
      <4>1. t3[s + m] \in {"CRLF", "NUL"} /\ t3[a] \notin {"CRLF", "NUL"}
        BY <3>6, <3>7
      <4>2. CanCut(n, T, t3, s, L, m, a, "CRLF")
        BY <1>3, <1>23, <3>2, <3>7, <3>8, <4>1 DEF CanCut
      <4> QED BY <3>9, <4>2, OneCut
    <3> QED BY <2>1, <3>1, <3>10 DEF CutOnce
  <2>2. CASE ~p.type
    <3>1. CutAt(t3, 0, "CRLF") = t3
      BY DEF CutAt
    <3> QED BY <1>18, <2>2, <3>1
  <2> QED BY <2>1, <2>2
<1>25. ASSUME NEW i \in 1..L
       PROVE  t4[s + i] = IF i \in Cuts(p) THEN "NUL" ELSE content[s + i]
  <2>1. i \in Cuts(p) <=> i = 4 \/ i = 7 \/ (p.file /\ i = 11) \/ (p.type /\ i = q + 5) \/ i = L
    <3>1. CASE p.file /\ p.type
      BY <1>10, <3>1
    <3>2. CASE p.file /\ ~p.type
      BY <1>10, <3>2
    <3>3. CASE ~p.file /\ p.type
      BY <1>10, <3>3
    <3>4. CASE ~p.file /\ ~p.type
      BY <1>10, <3>4
    <3> QED BY <1>7, <3>1, <3>2, <3>3, <3>4
  <2>2. /\ t4[s + i] = IF p.type /\ i = q + 5 THEN "NUL" ELSE t3[s + i]
        /\ t3[s + i] = IF p.file /\ i = 11 THEN "NUL" ELSE t2[s + i]
        /\ t2[s + i] = IF i = 7 THEN "NUL" ELSE t1[s + i]
        /\ t1[s + i] = IF i = 4 THEN "NUL" ELSE t0[s + i]
        /\ t0[s + i] = IF i = L THEN "NUL" ELSE content[s + i]
    BY <1>20, <1>21, <1>22, <1>23, <1>24
  <2>3. CASE i \in Cuts(p)
    BY <2>1, <2>2, <2>3, Zenon
  <2>4. CASE i \notin Cuts(p)
    BY <2>1, <2>2, <2>4, Zenon
  <2> QED BY <2>3, <2>4
<1> QED BY <1>4, <1>6, <1>19, <1>25 DEF IsCut

-----------------------------------------------------------------------------
(* The item of a turn.                                                     *)

\* The item of part p, whose text is after s.
ItemAt(p, s) ==
  [disposition |-> s + 3, name |-> s + 6, filename |-> IF p.file THEN s + 10 ELSE 0,
   type |-> IF p.type THEN s + NamesLen(p) + 4 ELSE 0,
   buff |-> s + FieldsLen(p) + 2, size |-> Len(p.data)]

\* After s is the text of part p.
Untouched(text, p, s) == \A i \in 1..Len(PartText(p)) : text[s + i] = PartText(p)[i]

\* The first turn for a part finds its item.
LEMMA ItemIsFound ==
  ASSUME TextInv,
         NEW p \in FormParts, Plain(p), NEW s \in Nat, Untouched(content, p, s),
         NEW from, from = s + 2, NEW end, end = s + Len(PartText(p)), end <= Len(content)
  PROVE  NewItem(from, end) = ItemAt(p, s)
<1>1. PICK n \in Nat : n = Len(content)
  BY TextFacts
<1>2. PICK T : T = Tokens \cup {"NUL"}
  OBVIOUS
<1>3. content \in [1..n -> T] /\ "NUL" \in T
  BY <1>1, <1>2, TextFacts
<1>4. \A i \in 1..Len(PartText(p)) : content[s + i] = PartText(p)[i]
  BY DEF Untouched
<1>5. PICK t : t = PartText(p)
  OBVIOUS
<1>6. PICK l \in Nat : l = Len(p.data)
  BY PartSizes
<1>7. PICK h \in 8..15 : h = FieldsLen(p)
  BY PartSizes
<1>8. PICK L \in Nat : L = Len(t)
  BY <1>5, PartSizes
<1>9. L = h + l + 2
  BY <1>5, <1>6, <1>7, <1>8, PartSizes
<1>10. HasPartAt(content, p, s)
  BY <1>4 DEF HasPartAt
<1>11. /\ After(from, end, "Content-Disposition") = s + 3
       /\ After(from, end, "name=") = s + 6
       /\ After(from, end, "filename=") = IF p.file THEN s + 10 ELSE 0
       /\ After(from, end, "Content-Type") = IF p.type THEN s + NamesLen(p) + 4 ELSE 0
  BY <1>10, KeysFound
<1>12. /\ t[h] = "CRLF" /\ t[h + 1] = "CRLF"
       /\ \A j \in 2..(h - 1) : ~(t[j] = "CRLF" /\ t[j + 1] = "CRLF")
  BY <1>5, <1>7, PartKeys DEF HasKeys
<1>13. PICK text : text = Nul(content, end)
  OBVIOUS
<1>14. /\ text \in [1..n -> T]
       /\ \A i \in 1..(h + 1) : text[s + i] = t[i]
  <2>1. end \in 1..n /\ end = s + L
    BY <1>1, <1>5, <1>8, <1>9
  <2>2. /\ text \in [1..n -> T]
        /\ \A j \in 1..n : text[j] = IF j = end THEN "NUL" ELSE content[j]
    BY <1>3, <1>13, <2>1, NulAt
  <2>3. \A i \in 1..(h + 1) : s + i \in 1..n /\ s + i # end /\ i \in 1..L
    BY <1>9, <2>1
  <2> QED BY <1>4, <1>5, <1>8, <2>2, <2>3
<1>15. Len(text) = n
  BY <1>14
<1> DEFINE I == {i \in from..(n - 2) : text[i] = "CRLF" /\ text[i + 1] = "CRLF"}
<1>16. Blank(text, from) = FirstOf(I)
  BY <1>15 DEF Blank
<1>17. s + h \in I
  <2>1. h \in 1..(h + 1) /\ h + 1 \in 1..(h + 1) /\ s + (h + 1) = (s + h) + 1
    OBVIOUS
  <2>2. text[s + h] = "CRLF" /\ text[(s + h) + 1] = "CRLF"
    BY <1>12, <1>14, <2>1
  <2>3. s + h \in from..(n - 2)
    BY <1>1, <1>5, <1>8, <1>9
  <2> QED BY <2>2, <2>3
<1>18. ASSUME NEW i \in I PROVE s + h <= i
  <2>1. i \in from..(n - 2) /\ text[i] = "CRLF" /\ text[i + 1] = "CRLF"
    OBVIOUS
  <2>2. ASSUME i < s + h PROVE FALSE
    <3>1. PICK j \in 2..(h - 1) : s + j = i /\ s + (j + 1) = i + 1
      <4>1. i - s \in 2..(h - 1) /\ s + (i - s) = i /\ s + ((i - s) + 1) = i + 1
        BY <2>1, <2>2
      <4> QED BY <4>1
    <3>2. j \in 1..(h + 1) /\ j + 1 \in 1..(h + 1)
      OBVIOUS
    <3>3. t[j] = "CRLF" /\ t[j + 1] = "CRLF"
      BY <1>14, <2>1, <3>1, <3>2
    <3> QED BY <3>3, <1>12
  <2> QED BY <2>1, <2>2
<1>19. I \in SUBSET Nat
  OBVIOUS
<1>20. PICK blank \in Nat : blank = s + h
  OBVIOUS
<1>21. Blank(text, from) = blank
  <2> HIDE DEF I
  <2> QED BY <1>16, <1>17, <1>18, <1>19, <1>20, FirstIs
<1>22. blank # 0 /\ blank + 2 = s + h + 2 /\ end - (blank + 2) = l
  BY <1>5, <1>8, <1>9, <1>20
<1> QED BY <1>6, <1>7, <1>11, <1>13, <1>21, <1>22 DEF NewItem, ItemAt

-----------------------------------------------------------------------------
(* What holds of a form while its items are extracted.                     *)

\* The number of parts.
Count == Len(form.parts)

\* The running call has extracted k parts.
Turn(k) ==
  /\ Len(items) = calls * Count + k
  /\ item_ptr = IF k = 0 THEN 1 ELSE Ends(form)[k - 1] + 2

\* Each call appends the items of the parts, one after the other.
ItemsInv ==
  /\ calling \in {"none", "get_ranges", "extract"}
  /\ calling = "get_ranges" => form = NoForm
  /\ items \in Seq(ItemType)
  /\ \A j \in 1..Len(items) : Inside(items[j], Len(content))
  /\ item_ptr \in 1..Len(content)
  /\ calling # "extract" => Len(items) = calls * Count
  /\ calling = "extract" => \E k \in 0..Count : Turn(k)

\* The item of part p has been extracted, and its text after s is cut.
Extracted(text, item, p, s) ==
  /\ item = ItemAt(p, s)
  /\ \A i \in Cuts(p) : text[s + i] = "NUL"

\* Closed parts without lookalikes are as posted, but for the cuts of their item.
PartInv(k) ==
  Plain(form.parts[k]) /\ Closed(k) =>
    /\ HasPartAt(content, form.parts[k], Ends(form)[k - 1])
    /\ k > Len(items) => Untouched(content, form.parts[k], Ends(form)[k - 1])
    /\ k <= Len(items) => Extracted(content, items[k], form.parts[k], Ends(form)[k - 1])

\* Every part is as posted or cut.
PartsInv == \A k \in 1..Count : PartInv(k)

\* The inductive invariant.
FormInv == TextInv /\ ItemsInv /\ PartsInv

\* At first nothing is cut.
LEMMA InitForm == Init => FormInv
<1> SUFFICES ASSUME Init PROVE FormInv
  OBVIOUS
<1>1. /\ content = Posted(form) /\ item_ptr = 1 /\ items = <<>>
      /\ calling = "none" /\ calls = 0
  BY DEF Init
<1>2. IsForm(form)
  <2>1. CASE form \in Forms
    BY <2>1, FormsAssumption DEF IsForm
  <2>2. CASE form = NoForm
    <3>1. <<>> \in Seq(FormParts)
      OBVIOUS
    <3> QED BY <2>2, <3>1 DEF IsForm, NoForm
  <2> QED BY <2>1, <2>2 DEF Init
<1>3. PICK n \in Nat : n = Count
  BY <1>2, SequenceFacts DEF IsForm, Count
<1>4. PICK e : e = Ends(form)
  OBVIOUS
<1>5. /\ e \in [0..n -> Nat] /\ e[0] = 0
      /\ \A j, k \in 0..n : j <= k => e[j] <= e[k]
  BY <1>2, <1>3, <1>4, EndsOrdered DEF Count
<1>6. /\ content \in Seq(Tokens) /\ HasParts(content, form, n)
      /\ content[e[n] + 1] = "boundary_last"
      /\ Len(content) = e[n] + (IF form.crlf THEN 2 ELSE 1)
  BY <1>1, <1>2, <1>3, <1>4, PostedLayout DEF Count
<1>7. TextInv
  <2>1. content \in [1..Len(content) -> Tokens \cup {"NUL"}]
    <3>1. /\ DOMAIN content = 1..Len(content) /\ \A i \in DOMAIN content : content[i] \in Tokens
          /\ content \in [1..Len(content) -> Tokens]
      BY <1>6, SequenceFacts
    <3> QED BY <3>1
  <2> QED BY <1>1, <1>2, <1>3, <1>4, <1>6, <2>1 DEF TextInv, Count
<1>8. ItemsInv
  <2>1. Len(content) \in Nat /\ Len(content) >= 1
    <3>1. PICK l \in Nat : l = e[n]
      BY <1>5
    <3> QED BY <1>6, <3>1
  <2>2. items \in Seq(ItemType) /\ Len(items) = 0
    BY <1>1
  <2>3. calls * n = 0
    BY <1>1
  <2> QED BY <1>1, <1>3, <2>1, <2>2, <2>3 DEF ItemsInv
<1>9. ASSUME NEW k \in 1..n PROVE PartInv(k)
  <2>1. Untouched(content, form.parts[k], e[k - 1])
    BY <1>4, <1>6 DEF HasParts, Untouched
  <2>2. HasPartAt(content, form.parts[k], e[k - 1])
    BY <2>1 DEF Untouched, HasPartAt
  <2>3. k > Len(items) /\ ~(k <= Len(items))
    BY <1>1
  <2> QED BY <1>4, <2>1, <2>2, <2>3 DEF PartInv
<1> QED BY <1>3, <1>7, <1>8, <1>9 DEF FormInv, PartsInv

\* The items of the calls before this one are as many as the parts, or there are none.
LEMMA EarlierItems ==
  ASSUME NEW c \in Nat, NEW n \in Nat, NEW k \in Nat, NEW l \in Nat, l = c * n + k
  PROVE  (c = 0 /\ l = k) \/ l >= n + k
<1>1. CASE c = 0
  BY <1>1
<1>2. CASE c # 0
  <2>1. PICK d \in Nat : c = d + 1
    <3>1. c - 1 \in Nat /\ c = (c - 1) + 1
      BY <1>2
    <3> QED BY <3>1
  <2>2. c * n = d * n + n /\ d * n \in Nat
    BY <2>1
  <2> QED BY <2>2
<1> QED BY <1>1, <1>2

\* The sections of other parts are elsewhere.
LEMMA OtherParts ==
  ASSUME TextInv, NEW m \in 1..Count, NEW j \in 1..Count, j # m, Closed(j),
         NEW from, from = Ends(form)[m - 1] + 2, NEW end, end = EndOf(from),
         NEW i \in 1..Len(PartText(form.parts[j]))
  PROVE  Ends(form)[j - 1] + i \in (1..Len(content)) \ (from..end)
<1>1. PICK n \in Nat : n = Count
  BY TextFacts DEF Count
<1>2. PICK e : e = Ends(form)
  OBVIOUS
<1>3. /\ e \in [0..n -> Nat] /\ e[0] = 0
      /\ \A k \in 1..n : e[k] = e[k - 1] + Len(PartText(form.parts[k]))
                         /\ Len(PartText(form.parts[k])) \in Nat
      /\ \A h, k \in 0..n : h <= k => e[h] <= e[k]
  BY <1>1, <1>2, EndsOrdered DEF TextInv, Count
<1>4. /\ j \in 0..n /\ j - 1 \in 0..n /\ m \in 0..n /\ m - 1 \in 0..n /\ n \in 0..n
      /\ j <= n
  BY <1>1
<1>5. PICK a \in Nat, b \in Nat, c \in Nat : a = e[j - 1] /\ b = e[j] /\ c = e[m - 1]
  BY <1>3, <1>4
<1>6. a + i <= b /\ b <= e[n] /\ e[n] \in Nat
  BY <1>1, <1>3, <1>4, <1>5
<1>7. Len(content) = e[n] + (IF form.crlf THEN 2 ELSE 1)
  BY <1>1, <1>2, TextFacts DEF Count
<1>8. a + i \in 1..Len(content)
  <2>1. PICK z \in Nat : z = e[n]
    BY <1>6
  <2>2. Len(content) = z + 2 \/ Len(content) = z + 1
    BY <1>7, <2>1
  <2>3. i \in Nat /\ i >= 1 /\ a + i <= z
    BY <1>1, <1>3, <1>6, <2>1
  <2> QED BY <2>2, <2>3
<1>9. CASE j < m
  <2>1. j <= m - 1
    BY <1>1, <1>9
  <2>2. b <= c
    BY <1>3, <1>4, <1>5, <2>1
  <2>3. from = c + 2 /\ i \in Nat
    BY <1>1, <1>2, <1>3, <1>5
  <2>4. a + i \notin from..end
    BY <1>6, <2>2, <2>3
  <2> QED BY <1>2, <1>5, <1>8, <2>4
<1>10. CASE m < j
  <2>1. m <= j - 1 /\ Closed(m)
    BY <1>1, <1>10 DEF Closed, Count
  <2>2. end = e[m]
    BY <1>1, <1>2, <2>1, SectionEnds DEF Count
  <2>3. e[m] <= a /\ e[m] \in Nat
    BY <1>3, <1>4, <1>5, <2>1
  <2> QED BY <1>2, <1>5, <1>8, <2>2, <2>3
<1> QED BY <1>1, <1>9, <1>10

-----------------------------------------------------------------------------
(* A turn keeps the invariant.                                             *)

\* The turn for part m, whose section is from..end.
TurnOf(m, from, end) ==
  /\ Turn(m - 1) /\ calling = "extract"
  /\ from = Ends(form)[m - 1] + 2 /\ end = EndOf(from)
  /\ content' = NewText(from, end) /\ items' = Append(items, NewItem(from, end))
  /\ item_ptr' = from
  /\ UNCHANGED <<calling, calls, form>>

\* A turn is always for the part after those that the call has extracted.
LEMMA TurnTaken ==
  ASSUME FormInv, ExtractItem
  PROVE  \E m \in 1..Count : \E from, end : TurnOf(m, from, end)
<1>1. calling = "extract" /\ Boundary("boundary", item_ptr) # 0
  BY DEF ExtractItem
<1>2. PICK k \in 0..Count : Turn(k)
  BY <1>1 DEF FormInv, ItemsInv
<1>3. PICK n \in Nat : n = Count
  BY TextFacts DEF FormInv, Count
<1>4. Boundary("boundary", item_ptr) = IF k < n THEN Ends(form)[k] + 1 ELSE 0
  BY <1>2, <1>3, NextBoundary DEF FormInv, Turn, Count
<1>5. k < n /\ Boundary("boundary", item_ptr) = Ends(form)[k] + 1
  BY <1>1, <1>4
<1>6. PICK m \in 1..n : m = k + 1 /\ m - 1 = k
  BY <1>2, <1>3, <1>5
<1>7. Ends(form)[k] \in Nat
  <2>1. Ends(form) \in [0..n -> Nat] /\ k \in 0..n
    BY <1>2, <1>3, TextFacts DEF FormInv, Count
  <2> QED BY <2>1
<1>8. PICK from : from = Boundary("boundary", item_ptr) + 1
  OBVIOUS
<1>9. PICK end : end = EndOf(from)
  OBVIOUS
<1>10. from = Ends(form)[m - 1] + 2
  BY <1>5, <1>6, <1>7, <1>8
<1>11. /\ content' = NewText(from, end) /\ items' = Append(items, NewItem(from, end))
       /\ item_ptr' = from
       /\ UNCHANGED <<calling, calls, form>>
  BY <1>8, <1>9, ExtractItemSteps
<1>12. TurnOf(m, from, end)
  BY <1>1, <1>2, <1>6, <1>9, <1>10, <1>11 DEF TurnOf
<1> QED BY <1>3, <1>6, <1>12

\* The text stays a form with NULs.
LEMMA TurnText ==
  ASSUME FormInv, NEW m \in 1..Count, NEW from, NEW end, TurnOf(m, from, end)
  PROVE  /\ TextInv' /\ CutIn(content, content', from, end)
         /\ Len(content') = Len(content) /\ DOMAIN content = 1..Len(content)
         /\ Len(content) \in Nat
         /\ from \in 2..Len(content) /\ end \in from..Len(content)
         /\ NewItem(from, end) \in ItemType /\ Inside(NewItem(from, end), Len(content))
<1>1. PICK N \in Nat : N = Len(content)
  BY TextFacts DEF FormInv
<1>2. /\ DOMAIN content = 1..N /\ N = Len(Posted(form))
      /\ content \in [1..N -> Tokens \cup {"NUL"}]
  BY <1>1, TextFacts DEF FormInv
<1>3. /\ from \in 2..N /\ end \in from..N
      /\ end <= N - (IF Closed(m) THEN 1 ELSE 0)
      /\ content[end] # "boundary"
  BY <1>1, SectionPlace DEF FormInv, TurnOf, Count
<1>4. from \in 1..N
  BY <1>3
<1>5. /\ NewText(from, end) \in [1..N -> Tokens \cup {"NUL"}]
      /\ CutIn(content, NewText(from, end), from, end)
  <2>1. "NUL" \in Tokens \cup {"NUL"}
    OBVIOUS
  <2> QED BY <1>2, <1>3, <1>4, <2>1, NewTextCuts
<1>6. NewItem(from, end) \in ItemType /\ Inside(NewItem(from, end), N)
  BY <1>2, <1>3, <1>4, NewItemTyped
<1>7. /\ content' \in [1..N -> Tokens \cup {"NUL"}] /\ CutIn(content, content', from, end)
      /\ form' = form
  BY <1>5 DEF TurnOf
<1>8. /\ \A i \in 1..N : content[i] = Posted(form)[i] \/ content[i] = "NUL"
      /\ \A i \in 1..N : Posted(form)[i] = "boundary" => content[i] = "boundary"
      /\ IsForm(form)
  BY <1>2 DEF FormInv, TextInv
<1>9. \A i \in 1..N : content'[i] = content[i]
                      \/ (i \in from..end /\ content'[i] = "NUL" /\ content[i] # "boundary")
  BY <1>2, <1>7 DEF CutIn
<1>10. \A i \in 1..N : content'[i] = Posted(form)[i] \/ content'[i] = "NUL"
  BY <1>8, <1>9
<1>11. \A i \in 1..N : Posted(form)[i] = "boundary" => content'[i] = "boundary"
  BY <1>8, <1>9
<1>12. form.crlf => content'[Ends(form)[Count] + 1] = "boundary_last"
  <2> SUFFICES ASSUME form.crlf PROVE content'[Ends(form)[Count] + 1] = "boundary_last"
    OBVIOUS
  <2>1. PICK n \in Nat : n = Count
    BY TextFacts DEF FormInv, Count
  <2>2. PICK z \in Nat : z = Ends(form)[n]
    <3>1. Ends(form) \in [0..n -> Nat] /\ n \in 0..n
      BY <2>1, TextFacts DEF FormInv, Count
    <3> QED BY <3>1
  <2>3. content[z + 1] = "boundary_last"
    BY <2>1, <2>2 DEF FormInv, TextInv, Count
  <2>4. N = z + 2
    BY <1>1, <2>1, <2>2, TextFacts DEF FormInv, Count
  <2>5. end <= z
    <3>1. end = Ends(form)[m]
      BY SectionEnds DEF FormInv, TurnOf, Closed, Count
    <3>2. m \in 0..n /\ n \in 0..n /\ m <= n
      BY <2>1
    <3>3. Ends(form)[m] <= Ends(form)[n]
      BY <1>8, <2>1, <3>2, EndsOrdered DEF Count
    <3> QED BY <2>2, <3>1, <3>3
  <2>6. z + 1 \in 1..N /\ z + 1 \notin from..end
    BY <1>3, <2>4, <2>5
  <2> QED BY <1>9, <2>1, <2>2, <2>3, <2>6
<1>13. TextInv'
  BY <1>2, <1>7, <1>8, <1>10, <1>11, <1>12 DEF TextInv, Count
<1>14. Len(content') = N
  BY <1>7
<1> QED BY <1>1, <1>2, <1>3, <1>6, <1>7, <1>13, <1>14

\* The call goes on after the part, with one more item.
LEMMA TurnItems ==
  ASSUME FormInv, calls \in Nat, NEW m \in 1..Count, NEW from, NEW end, TurnOf(m, from, end)
  PROVE  /\ ItemsInv' /\ Len(items) \in Nat /\ Len(items') = Len(items) + 1
         /\ Len(items) = calls * Count + (m - 1)
         /\ \A j \in 1..Len(items) : items'[j] = items[j]
         /\ items'[Len(items) + 1] = NewItem(from, end)
<1>1. /\ Len(content') = Len(content) /\ Len(content) \in Nat
      /\ from \in 2..Len(content)
      /\ NewItem(from, end) \in ItemType /\ Inside(NewItem(from, end), Len(content))
  BY TurnText
<1>2. items \in Seq(ItemType) /\ \A j \in 1..Len(items) : Inside(items[j], Len(content))
  BY DEF FormInv, ItemsInv
<1>3. PICK l \in Nat : l = Len(items)
  BY <1>2, SequenceFacts
<1>4. items' = Append(items, NewItem(from, end))
  BY DEF TurnOf
<1>5. /\ items' \in Seq(ItemType) /\ Len(items') = l + 1
      /\ \A j \in 1..l : items'[j] = items[j]
      /\ items'[l + 1] = NewItem(from, end)
  BY <1>1, <1>2, <1>3, <1>4
<1>6. ASSUME NEW j \in 1..(l + 1) PROVE Inside(items'[j], Len(content'))
  <2>1. j \in 1..l \/ j = l + 1
    OBVIOUS
  <2> QED BY <1>1, <1>2, <1>3, <1>5, <2>1
<1>7. item_ptr' \in 1..Len(content')
  BY <1>1 DEF TurnOf
<1>8. PICK n \in Nat : n = Count
  BY TextFacts DEF FormInv, Count
<1>9. l = calls * n + (m - 1)
  BY <1>3, <1>8 DEF TurnOf, Turn
<1>10. /\ calling' = calling /\ calling = "extract" /\ calls' = calls /\ form' = form
       /\ item_ptr' = Ends(form)[m - 1] + 2
  BY DEF TurnOf
<1>11. m \in 0..Count' /\ Turn(m)'
  <2>1. Count' = n /\ Ends(form)' = Ends(form)
    BY <1>8, <1>10 DEF Count
  <2>2. Len(items') = calls * n + m
    <3>1. PICK c \in Nat : c = calls * n
      OBVIOUS
    <3> QED BY <1>5, <1>8, <1>9, <3>1
  <2>3. m \in 0..n /\ m # 0
    BY <1>8
  <2> QED BY <1>10, <2>1, <2>2, <2>3 DEF Turn
<1>12. ItemsInv'
  BY <1>5, <1>6, <1>7, <1>10, <1>11 DEF ItemsInv
<1> QED BY <1>3, <1>5, <1>8, <1>9, <1>12

\* The cuts are inside the part.
LEMMA CutsInside ==
  ASSUME NEW p \in FormParts
  PROVE  \A i \in Cuts(p) : i \in 1..Len(PartText(p))
<1>1. /\ NamesLen(p) \in {6, 10} /\ FieldsLen(p) \in 8..15
      /\ p.file => NamesLen(p) = 10
      /\ ~p.file => NamesLen(p) = 6
      /\ p.type => FieldsLen(p) = NamesLen(p) + 5
      /\ ~p.type => FieldsLen(p) = NamesLen(p) + 2
      /\ Len(PartText(p)) \in Nat /\ Len(p.data) \in Nat
      /\ Len(PartText(p)) = FieldsLen(p) + Len(p.data) + 2
  BY PartSizes
<1>2. PICK q \in {6, 10} : q = NamesLen(p)
  BY <1>1
<1>3. PICK L \in Nat : L = Len(PartText(p))
  BY <1>1
<1>4. L >= 10 /\ (p.file => L >= 14) /\ (p.type => L >= q + 7)
  BY <1>1, <1>2, <1>3
<1>5. Cuts(p) = {4, 7} \cup (IF p.file THEN {11} ELSE {})
                \cup (IF p.type THEN {q + 5} ELSE {}) \cup {L}
  BY <1>2, <1>3 DEF Cuts
<1> QED BY <1>3, <1>4, <1>5

\* Its own part is cut as its item says, by this call or by an earlier one.
LEMMA TurnOfPart ==
  ASSUME FormInv, calls \in Nat, NEW m \in 1..Count, NEW from, NEW end, TurnOf(m, from, end)
  PROVE  PartInv(m)'
<1>1. PICK p : p = form.parts[m]
  OBVIOUS
<1>2. PICK n \in Nat : n = Count
  BY TextFacts DEF FormInv, Count
<1>3. PICK s \in Nat : s = Ends(form)[m - 1]
  <2>1. m - 1 \in 0..n
    BY <1>2
  <2> QED BY <1>2, <2>1, TextFacts DEF FormInv, Count
<1>4. form' = form /\ from = s + 2 /\ end = EndOf(from) /\ content' = NewText(from, end)
  BY <1>3 DEF TurnOf
<1>5. p \in FormParts
  BY <1>1, SequenceFacts DEF FormInv, TextInv, IsForm, Count
<1> SUFFICES ASSUME Plain(p), Closed(m)
             PROVE  /\ HasPartAt(content', p, s)
                    /\ m > Len(items') => Untouched(content', p, s)
                    /\ m <= Len(items') => Extracted(content', items'[m], p, s)
  BY <1>1, <1>3, <1>4 DEF PartInv, Closed
<1>6. /\ HasPartAt(content, p, s)
      /\ m > Len(items) => Untouched(content, p, s)
      /\ m <= Len(items) => Extracted(content, items[m], p, s)
  BY <1>1, <1>3 DEF FormInv, PartsInv, PartInv
<1>7. end = s + Len(PartText(p))
  <2>1. end = Ends(form)[m]
    BY <1>3, <1>4, SectionEnds DEF FormInv, Count
  <2> QED BY <1>1, <1>3, <2>1, EndsOrdered DEF FormInv, TextInv, Count
<1>8. PICK N \in Nat : N = Len(content)
  BY TurnText
<1>9. end <= Len(content)
  BY <1>8, TurnText
<1>10. TextInv
  BY DEF FormInv
<1>11. \A i \in 1..Len(PartText(p)) :
         content'[s + i] = IF i \in Cuts(p) THEN "NUL" ELSE content[s + i]
  <2>1. IsCut(NewText(from, end), content, p, s)
    BY <1>4, <1>5, <1>6, <1>7, <1>9, <1>10, PartIsCut
  <2> QED BY <1>4, <2>1 DEF IsCut
<1>12. HasPartAt(content', p, s)
  BY <1>6, <1>11 DEF HasPartAt
<1>13. \A i \in Cuts(p) : content'[s + i] = "NUL"
  <2>1. \A i \in Cuts(p) : i \in 1..Len(PartText(p))
    BY <1>5, CutsInside
  <2> QED BY <1>11, <2>1
<1>14. /\ Len(items) \in Nat /\ Len(items') = Len(items) + 1
       /\ Len(items) = calls * Count + (m - 1)
       /\ \A j \in 1..Len(items) : items'[j] = items[j]
       /\ items'[Len(items) + 1] = NewItem(from, end)
  BY TurnItems
<1>15. Len(items) = m - 1 \/ m <= Len(items)
  <2>1. m - 1 \in Nat /\ m <= n
    BY <1>2
  <2>2. Len(items) = m - 1 \/ Len(items) >= n + (m - 1)
    BY <1>2, <1>14, <2>1, EarlierItems
  <2> QED BY <1>14, <2>1, <2>2
<1>16. CASE Len(items) = m - 1
  <2>1. m > Len(items) /\ Len(items) + 1 = m
    BY <1>16
  <2>2. Untouched(content, p, s)
    BY <1>6, <2>1
  <2>3. NewItem(from, end) = ItemAt(p, s)
    BY <1>4, <1>5, <1>7, <1>9, <1>10, <2>2, ItemIsFound
  <2>4. Len(items') = m /\ items'[m] = ItemAt(p, s)
    BY <1>14, <2>1, <2>3
  <2> QED BY <1>12, <1>13, <2>4 DEF Extracted
<1>17. CASE m <= Len(items)
  <2>1. m \in 1..Len(items) /\ ~(m > Len(items'))
    BY <1>14, <1>17
  <2>2. items'[m] = ItemAt(p, s)
    BY <1>6, <1>14, <1>17, <2>1 DEF Extracted
  <2> QED BY <1>12, <1>13, <2>1, <2>2 DEF Extracted
<1> QED BY <1>15, <1>16, <1>17

\* The other parts stay as they are.
LEMMA TurnOfOther ==
  ASSUME FormInv, calls \in Nat, NEW m \in 1..Count, NEW from, NEW end, TurnOf(m, from, end),
         NEW j \in 1..Count, j # m
  PROVE  PartInv(j)'
<1>1. PICK p : p = form.parts[j]
  OBVIOUS
<1>2. PICK n \in Nat : n = Count
  BY TextFacts DEF FormInv, Count
<1>3. PICK s : s = Ends(form)[j - 1]
  OBVIOUS
<1>4. form' = form /\ from = Ends(form)[m - 1] + 2 /\ end = EndOf(from)
  BY DEF TurnOf
<1> SUFFICES ASSUME Plain(p), Closed(j)
             PROVE  /\ HasPartAt(content', p, s)
                    /\ j > Len(items') => Untouched(content', p, s)
                    /\ j <= Len(items') => Extracted(content', items'[j], p, s)
  BY <1>1, <1>3, <1>4 DEF PartInv, Closed
<1>5. /\ HasPartAt(content, p, s)
      /\ j > Len(items) => Untouched(content, p, s)
      /\ j <= Len(items) => Extracted(content, items[j], p, s)
  BY <1>1, <1>3 DEF FormInv, PartsInv, PartInv
<1>6. ASSUME NEW i \in 1..Len(PartText(p)) PROVE content'[s + i] = content[s + i]
  <2>1. s + i \in (1..Len(content)) \ (from..end)
    BY <1>1, <1>3, <1>4, OtherParts DEF FormInv
  <2>2. CutIn(content, content', from, end) /\ DOMAIN content = 1..Len(content)
    BY TurnText
  <2> QED BY <2>1, <2>2 DEF CutIn
<1>7. HasPartAt(content', p, s)
  BY <1>5, <1>6 DEF HasPartAt
<1>8. Untouched(content, p, s) => Untouched(content', p, s)
  BY <1>6 DEF Untouched
<1>9. p \in FormParts
  BY <1>1, SequenceFacts DEF FormInv, TextInv, IsForm, Count
<1>10. \A i \in Cuts(p) : i \in 1..Len(PartText(p))
  BY <1>9, CutsInside
<1>11. /\ Len(items) \in Nat /\ Len(items') = Len(items) + 1
       /\ Len(items) = calls * Count + (m - 1)
       /\ \A i \in 1..Len(items) : items'[i] = items[i]
  BY TurnItems
<1>12. j # Len(items) + 1
  <2>1. m - 1 \in Nat /\ j <= n
    BY <1>2
  <2>2. Len(items) = m - 1 \/ Len(items) >= n + (m - 1)
    BY <1>2, <1>11, <2>1, EarlierItems
  <2> QED BY <1>11, <2>1, <2>2
<1>13. CASE j > Len(items)
  <2>1. ~(j <= Len(items'))
    BY <1>11, <1>12, <1>13
  <2> QED BY <1>5, <1>7, <1>8, <1>13, <2>1
<1>14. CASE j <= Len(items)
  <2>1. j \in 1..Len(items) /\ ~(j > Len(items'))
    BY <1>11, <1>14
  <2>2. Extracted(content', items'[j], p, s)
    BY <1>5, <1>6, <1>10, <1>11, <1>14, <2>1 DEF Extracted
  <2> QED BY <1>7, <2>1, <2>2
<1>15. Len(items) \in Nat /\ j \in Nat
  BY <1>11
<1> QED BY <1>13, <1>14, <1>15

\* A turn keeps the invariant: its own part is cut, the others stay.
LEMMA ExtractForm ==
  ASSUME FormInv, calls \in Nat, ExtractItem
  PROVE  FormInv'
<1>1. PICK m \in 1..Count : \E from, end : TurnOf(m, from, end)
  BY TurnTaken
<1>2. PICK from, end : TurnOf(m, from, end)
  BY <1>1
<1>3. TextInv' /\ ItemsInv'
  BY <1>2, TurnText, TurnItems
<1>4. ASSUME NEW j \in 1..Count PROVE PartInv(j)'
  <2>1. CASE j = m
    BY <1>2, <2>1, TurnOfPart
  <2>2. CASE j # m
    BY <1>2, <2>2, TurnOfOther
  <2> QED BY <2>1, <2>2
<1>5. Count' = Count
  BY <1>2 DEF TurnOf, Count
<1> QED BY <1>3, <1>4, <1>5 DEF FormInv, PartsInv

\* The other steps leave the text and the items alone.
LEMMA OthersForm ==
  ASSUME FormInv, calls \in Nat,
         \/ \E size \in Sizes : GetRanges(size)
         \/ TakeRange \/ ReturnRanges \/ Extract \/ ReturnItems \/ UNCHANGED vars
  PROVE  FormInv'
<1>1. UNCHANGED <<form, content, items>>
  BY DEF GetRanges, TakeRange, ReturnRanges, Extract, ReturnItems, vars, itemVars
<1>2. TextInv'
  BY <1>1 DEF FormInv, TextInv
<1>3. PartsInv'
  BY <1>1 DEF FormInv, PartsInv, PartInv, Count, Closed
<1>4. PICK n \in Nat : n = Count
  BY TextFacts DEF FormInv, Count
<1>5. Count' = n
  BY <1>1, <1>4 DEF Count
<1>6. PICK l \in Nat : l = Len(items)
  BY SequenceFacts DEF FormInv, ItemsInv
<1>7. /\ items' \in Seq(ItemType) /\ Len(items') = l
      /\ \A j \in 1..Len(items') : Inside(items'[j], Len(content'))
  BY <1>1, <1>6 DEF FormInv, ItemsInv
<1>8. item_ptr \in 1..Len(content)
  BY DEF FormInv, ItemsInv
<1>9. ItemsInv'
  <2>1. CASE \E size \in Sizes : GetRanges(size)
    <3>1. /\ calling = "none" /\ calling' = "get_ranges" /\ form = NoForm
          /\ calls' = calls /\ item_ptr' = item_ptr
      BY <2>1 DEF GetRanges, itemVars
    <3>2. l = calls * n
      BY <1>4, <1>6, <3>1 DEF FormInv, ItemsInv
    <3> QED BY <1>1, <1>5, <1>7, <1>8, <3>1, <3>2 DEF ItemsInv
  <2>2. CASE TakeRange
    <3>1. /\ calling = "get_ranges" /\ calling' = calling
          /\ calls' = calls /\ item_ptr' = item_ptr
      BY <2>2 DEF TakeRange, itemVars
    <3>2. l = calls * n /\ form = NoForm
      BY <1>4, <1>6, <3>1 DEF FormInv, ItemsInv
    <3> QED BY <1>1, <1>5, <1>7, <1>8, <3>1, <3>2 DEF ItemsInv
  <2>3. CASE ReturnRanges
    <3>1. /\ calling = "get_ranges" /\ calling' = "none"
          /\ calls' = calls + 1 /\ item_ptr' = item_ptr
      BY <2>3 DEF ReturnRanges, itemVars
    <3>2. l = calls * n /\ form = NoForm
      BY <1>4, <1>6, <3>1 DEF FormInv, ItemsInv
    <3>3. n = 0
      BY <1>4, <3>2 DEF Count, NoForm
    <3>4. l = (calls + 1) * n
      BY <3>2, <3>3
    <3> QED BY <1>1, <1>5, <1>7, <1>8, <3>1, <3>4 DEF ItemsInv
  <2>4. CASE Extract
    <3>1. /\ calling = "none" /\ calling' = "extract"
          /\ calls' = calls /\ item_ptr' = 1
      BY <2>4 DEF Extract
    <3>2. l = calls * n
      BY <1>4, <1>6, <3>1 DEF FormInv, ItemsInv
    <3>3. 0 \in 0..n /\ 1 \in 1..Len(content)
      BY <1>8, TextFacts DEF FormInv
    <3>4. Turn(0)'
      BY <1>5, <1>7, <3>1, <3>2 DEF Turn
    <3> QED BY <1>1, <1>5, <1>7, <3>1, <3>3, <3>4 DEF ItemsInv
  <2>5. CASE ReturnItems
    <3>1. /\ calling = "extract" /\ calling' = "none" /\ calls' = calls + 1
          /\ item_ptr' = item_ptr /\ Boundary("boundary", item_ptr) = 0
      BY <2>5 DEF ReturnItems, itemVars
    <3>2. PICK k \in 0..n : Turn(k)
      BY <1>4, <3>1 DEF FormInv, ItemsInv
    <3>3. Boundary("boundary", item_ptr) = IF k < n THEN Ends(form)[k] + 1 ELSE 0
      BY <1>4, <3>2, NextBoundary DEF FormInv, Turn, Count
    <3>4. k = n
      <4>1. Ends(form)[k] \in Nat
        <5>1. Ends(form) \in [0..n -> Nat]
          BY <1>4, TextFacts DEF FormInv, Count
        <5> QED BY <5>1
      <4> QED BY <3>1, <3>3, <4>1
    <3>5. l = calls * n + n
      BY <1>4, <1>6, <3>2, <3>4 DEF Turn
    <3>6. l = (calls + 1) * n
      BY <3>5
    <3> QED BY <1>1, <1>5, <1>7, <1>8, <3>1, <3>6 DEF ItemsInv
  <2>6. CASE UNCHANGED vars
    <3>1. calling' = calling /\ calls' = calls /\ item_ptr' = item_ptr
      BY <2>6 DEF vars
    <3> QED BY <1>1, <1>8, <3>1 DEF FormInv, ItemsInv, Turn, Count
  <2> QED BY <2>1, <2>2, <2>3, <2>4, <2>5, <2>6
<1> QED BY <1>2, <1>3, <1>9 DEF FormInv

-----------------------------------------------------------------------------
(* What the application reads.                                             *)

\* A subsequence of one element.
LEMMA OneElement ==
  ASSUME NEW s, NEW a \in Int
  PROVE  SubSeq(s, a, a) = <<s[a]>>
<1>1. PICK S : S = {s[a]}
  OBVIOUS
<1>2. PICK b \in Int : b = a
  OBVIOUS
<1>3. PICK u : u = SubSeq(s, a, b)
  OBVIOUS
<1>4. /\ u \in Seq(S) /\ Len(u) = IF a <= b THEN b - a + 1 ELSE 0
      /\ \A i \in 1..(b - a + 1) : u[i] = s[a + i - 1]
  <2>1. \A i \in a..b : s[i] \in S
    BY <1>1, <1>2
  <2> QED BY <1>3, <2>1, SubSeqProperties
<1>5. u \in Seq(S) /\ Len(u) = 1 /\ u[1] = s[a]
  <2>1. a <= b /\ b - a + 1 = 1 /\ 1 \in 1..(b - a + 1) /\ a + 1 - 1 = a
    BY <1>2
  <2>2. Len(u) = 1
    BY <1>4, <2>1
  <2>3. u[1] = s[a + 1 - 1]
    BY <1>4, <2>1
  <2> QED BY <1>4, <2>1, <2>2, <2>3
<1>6. <<s[a]>> \in Seq(S) /\ Len(<<s[a]>>) = 1 /\ <<s[a]>>[1] = s[a]
  BY <1>1
<1>7. \A i \in 1..Len(u) : u[i] = <<s[a]>>[i]
  BY <1>5, <1>6
<1>8. u = <<s[a]>>
  BY <1>5, <1>6, <1>7, SeqEqual
<1> QED BY <1>2, <1>3, <1>8

\* The C string at a token before a NUL.
LEMMA TextIs ==
  ASSUME TextInv, NEW a \in Nat, a >= 1, a + 1 <= Len(content),
         content[a] # "NUL", content[a + 1] = "NUL"
  PROVE  Text(a) = <<content[a]>>
<1>1. PICK n \in Nat : n = Len(content)
  BY TextFacts
<1> DEFINE I == {i \in a..n : content[i] = "NUL"}
<1>2. Text(a) = SubSeq(content, a, FirstOf(I) - 1)
  BY <1>1 DEF Text
<1>3. PICK b \in Nat : b = a + 1
  OBVIOUS
<1>4. I \in SUBSET Nat /\ b \in I
  BY <1>1, <1>3
<1>5. ASSUME NEW i \in I PROVE b <= i
  <2>1. i \in a..n /\ i # a
    OBVIOUS
  <2> QED BY <1>3, <2>1
<1>6. FirstOf(I) = b
  <2> HIDE DEF I
  <2> QED BY <1>4, <1>5, FirstIs
<1>7. SubSeq(content, a, a) = <<content[a]>>
  BY OneElement
<1>8. b - 1 = a
  BY <1>3
<1> HIDE DEF I
<1> QED BY <1>2, <1>6, <1>7, <1>8

\* An item that has been extracted is what the application should find.
LEMMA ExtractedIsItem ==
  ASSUME TextInv, NEW p \in FormParts, NEW s \in Nat, NEW item,
         HasPartAt(content, p, s), Extracted(content, item, p, s),
         s + Len(PartText(p)) <= Len(content)
  PROVE  IsItemOf(item, p)
<1>1. PICK t : t = PartText(p)
  OBVIOUS
<1>2. PICK q \in {6, 10} : q = NamesLen(p)
  BY PartSizes
<1>3. PICK l \in Nat : l = Len(p.data)
  BY PartSizes
<1>4. PICK h \in 8..15 : h = FieldsLen(p)
  BY PartSizes
<1>5. PICK L \in Nat : L = Len(t)
  BY <1>1, PartSizes
<1>6. /\ L = h + l + 2
      /\ p.file => q = 10
      /\ ~p.file => q = 6
      /\ p.type => h = q + 5
      /\ ~p.type => h = q + 2
  BY <1>1, <1>2, <1>3, <1>4, <1>5, PartSizes
<1>7. p.file \in BOOLEAN /\ p.type \in BOOLEAN /\ p.data \in Seq(Words \cup Keys)
  BY DEF FormParts
<1>8. Cuts(p) = {4, 7} \cup (IF p.file THEN {11} ELSE {})
                \cup (IF p.type THEN {q + 5} ELSE {}) \cup {L}
  BY <1>1, <1>2, <1>5 DEF Cuts
<1>9. /\ t[3] = "form-data" /\ t[6] = "field"
      /\ p.file => t[10] = "path"
      /\ p.type => t[q + 4] = "mime"
      /\ \A i \in 1..l : t[h + 1 + i] = p.data[i]
  BY <1>1, <1>2, <1>3, <1>4, PartTokens DEF HasTokens
<1>10. \A i \in 1..L : i \notin Cuts(p) => content[s + i] = t[i]
  BY <1>1, <1>5 DEF HasPartAt
<1>11. \A i \in Cuts(p) : content[s + i] = "NUL"
  BY DEF Extracted
<1>12. item = ItemAt(p, s)
  BY DEF Extracted
<1>13. /\ item.disposition = s + 3 /\ item.name = s + 6
       /\ item.filename = IF p.file THEN s + 10 ELSE 0
       /\ item.type = IF p.type THEN s + q + 4 ELSE 0
       /\ item.buff = s + h + 2 /\ item.size = l
  BY <1>2, <1>3, <1>4, <1>12 DEF ItemAt
<1>14. s + L <= Len(content)
  BY <1>1, <1>5
<1>15. Text(item.disposition) = <<"form-data">>
  <2>1. 3 \in 1..L /\ 3 \notin Cuts(p) /\ 4 \in Cuts(p)
    BY <1>6, <1>8
  <2>2. content[s + 3] = "form-data" /\ content[s + 4] = "NUL"
    BY <1>9, <1>10, <1>11, <2>1
  <2>3. PICK a \in Nat : a = s + 3 /\ a + 1 = s + 4
    OBVIOUS
  <2>4. a >= 1 /\ a + 1 <= Len(content)
    BY <1>6, <1>14, <2>3, TextFacts
  <2>5. Text(a) = <<content[a]>>
    BY <2>2, <2>3, <2>4, TextIs
  <2> QED BY <1>13, <2>2, <2>3, <2>5
<1>16. Text(item.name) = <<"field">>
  <2>1. 6 \in 1..L /\ 6 \notin Cuts(p) /\ 7 \in Cuts(p)
    BY <1>6, <1>8
  <2>2. content[s + 6] = "field" /\ content[s + 7] = "NUL"
    BY <1>9, <1>10, <1>11, <2>1
  <2>3. PICK a \in Nat : a = s + 6 /\ a + 1 = s + 7
    OBVIOUS
  <2>4. a >= 1 /\ a + 1 <= Len(content)
    BY <1>6, <1>14, <2>3, TextFacts
  <2>5. Text(a) = <<content[a]>>
    BY <2>2, <2>3, <2>4, TextIs
  <2> QED BY <1>13, <2>2, <2>3, <2>5
<1>17. IF p.file THEN Text(item.filename) = <<"path">> ELSE item.filename = 0
  <2>1. CASE p.file
    <3>1. 10 \in 1..L /\ 10 \notin Cuts(p) /\ 11 \in Cuts(p)
      BY <1>6, <1>8, <2>1
    <3>2. content[s + 10] = "path" /\ content[s + 11] = "NUL"
      BY <1>9, <1>10, <1>11, <2>1, <3>1
    <3>3. PICK a \in Nat : a = s + 10 /\ a + 1 = s + 11
      OBVIOUS
    <3>4. a >= 1 /\ a + 1 <= Len(content)
      BY <1>6, <1>14, <2>1, <3>3, TextFacts
    <3>5. Text(a) = <<content[a]>>
      BY <3>2, <3>3, <3>4, TextIs
    <3> QED BY <1>13, <2>1, <3>2, <3>3, <3>5
  <2>2. CASE ~p.file
    BY <1>13, <2>2
  <2> QED BY <2>1, <2>2
<1>18. IF p.type THEN Text(item.type) = <<"mime">> ELSE item.type = 0
  <2>1. CASE p.type
    <3>1. PICK m \in {10, 14} : m = q + 4 /\ m + 1 = q + 5
      OBVIOUS
    <3>2. m + 3 <= L /\ (p.file => m # 11) /\ m # 4 /\ m # 7 /\ m # 11 /\ m # q + 5 /\ m # L
      BY <1>6, <2>1, <3>1
    <3>3. m \in 1..L /\ m \notin Cuts(p) /\ m + 1 \in Cuts(p)
      BY <1>8, <2>1, <3>1, <3>2
    <3>4. content[s + m] = "mime" /\ content[s + (m + 1)] = "NUL"
      BY <1>9, <1>10, <1>11, <2>1, <3>1, <3>3
    <3>5. PICK a \in Nat : a = s + m /\ a + 1 = s + (m + 1)
      OBVIOUS
    <3>6. a >= 1 /\ a + 1 <= Len(content) /\ a = s + q + 4
      BY <1>14, <3>1, <3>2, <3>5, TextFacts
    <3>7. Text(a) = <<content[a]>>
      BY <3>4, <3>5, <3>6, TextIs
    <3> QED BY <1>13, <2>1, <3>4, <3>5, <3>6, <3>7
  <2>2. CASE ~p.type
    BY <1>13, <2>2
  <2> QED BY <2>1, <2>2
<1>19. SubSeq(content, item.buff, item.buff + item.size - 1) = p.data
  <2>1. PICK a \in Nat, b \in Int : a = s + h + 2 /\ b = a + l - 1
    OBVIOUS
  <2>2. ASSUME NEW i \in 1..l PROVE content[a + i - 1] = p.data[i]
    <3>1. PICK j \in 1..L : j = h + 1 + i
      BY <1>6
    <3>2. j \notin Cuts(p)
      <4>1. j # 4 /\ j # 7 /\ j # L /\ (p.file => j # 11) /\ (p.type => j # q + 5)
        BY <1>6, <3>1
      <4> QED BY <1>8, <4>1
    <3>3. content[s + j] = p.data[i]
      BY <1>9, <1>10, <3>1, <3>2
    <3>4. a + i - 1 = s + j
      BY <2>1, <3>1
    <3> QED BY <3>3, <3>4
  <2>3. \A i \in a..b : content[i] \in Words \cup Keys
    <3> SUFFICES ASSUME NEW i \in a..b PROVE content[i] \in Words \cup Keys
      OBVIOUS
    <3>1. PICK j \in 1..l : i = a + j - 1
      <4>1. (i - a) + 1 \in 1..l /\ i = a + ((i - a) + 1) - 1
        BY <2>1
      <4> QED BY <4>1
    <3>2. p.data[j] \in Words \cup Keys
      BY <1>3, <1>7
    <3> QED BY <2>2, <3>1, <3>2
  <2>4. /\ SubSeq(content, a, b) \in Seq(Words \cup Keys)
        /\ Len(SubSeq(content, a, b)) = IF a <= b THEN b - a + 1 ELSE 0
        /\ \A i \in 1..(b - a + 1) : SubSeq(content, a, b)[i] = content[a + i - 1]
    BY <2>3, SubSeqProperties
  <2>5. Len(SubSeq(content, a, b)) = l
    BY <2>1, <2>4
  <2>6. \A i \in 1..l : SubSeq(content, a, b)[i] = p.data[i]
    BY <2>1, <2>2, <2>4
  <2>7. SubSeq(content, a, b) = p.data
    BY <1>3, <1>7, <2>4, <2>5, <2>6, SeqEqual
  <2> QED BY <1>13, <2>1, <2>7
<1> QED BY <1>15, <1>16, <1>17, <1>18, <1>19 DEF IsItemOf

-----------------------------------------------------------------------------
\* The invariant of the forms, with that of the ranges for the number of calls.
LEMMA FormInvariance == Spec => []FormInv
<1>1. IInv /\ FormInv /\ [Next]_vars => FormInv'
  <2> SUFFICES ASSUME IInv, FormInv, [Next]_vars PROVE FormInv'
    OBVIOUS
  <2>1. calls \in Nat
    BY DEF IInv, RangesTyped
  <2>2. CASE ExtractItem
    BY <2>1, <2>2, ExtractForm
  <2>3. CASE \/ \E size \in Sizes : GetRanges(size)
             \/ TakeRange \/ ReturnRanges \/ Extract \/ ReturnItems \/ UNCHANGED vars
    BY <2>1, <2>3, OthersForm
  <2> QED BY <2>2, <2>3 DEF Next
<1> QED BY InitForm, Invariance, <1>1, PTL DEF Spec

\* Whatever text a client posts, the pointers of items stay inside it.
THEOREM PointersStayInside == Spec => []TypeOK
<1>1. IInv /\ FormInv => TypeOK
  <2> SUFFICES ASSUME IInv, FormInv PROVE TypeOK
    OBVIOUS
  <2>1. RangesTyped
    BY DEF IInv
  <2>2. DOMAIN items = 1..Len(items)
    BY SequenceFacts DEF FormInv, ItemsInv
  <2> QED BY <2>1, <2>2 DEF FormInv, ItemsInv, Inside, TypeOK
<1> QED BY Invariance, FormInvariance, <1>1, PTL

\* However often a form is extracted and whatever is in its data, each call appends
\* one item for each part.
THEOREM OneItemForEachPart == Spec => []OneItemEach
<1>1. FormInv => OneItemEach
  BY DEF FormInv, ItemsInv, OneItemEach, Count
<1> QED BY FormInvariance, <1>1, PTL

\* The NULs of a turn damage no other part, and no later call damages an item of the
\* first one: it keeps the names and the data of its part.
THEOREM ItemsAreThePosted == Spec => []ItemsAreParts
<1>1. FormInv => ItemsAreParts
  <2> SUFFICES ASSUME FormInv, NEW k \in DOMAIN items \cap DOMAIN form.parts,
                      Plain(form.parts[k]) /\ (k < Len(form.parts) \/ form.crlf)
               PROVE  IsItemOf(items[k], form.parts[k])
    BY DEF ItemsAreParts
  <2>1. PICK p : p = form.parts[k]
    OBVIOUS
  <2>2. PICK n \in Nat : n = Count
    BY TextFacts DEF FormInv, Count
  <2>3. PICK l \in Nat : l = Len(items)
    BY SequenceFacts DEF FormInv, ItemsInv
  <2>4. k \in 1..n /\ k <= l /\ p \in FormParts
    <3>1. k \in 1..Len(items)
      BY SequenceFacts DEF FormInv, ItemsInv
    <3>2. k \in 1..Len(form.parts) /\ form.parts[k] \in FormParts
      BY SequenceFacts DEF FormInv, TextInv, IsForm
    <3> QED BY <2>1, <2>2, <2>3, <3>1, <3>2 DEF Count
  <2>5. PICK s \in Nat : s = Ends(form)[k - 1]
    <3>1. k - 1 \in 0..n
      BY <2>4
    <3> QED BY <2>2, <3>1, TextFacts DEF FormInv, Count
  <2>6. HasPartAt(content, p, s) /\ Extracted(content, items[k], p, s)
    BY <2>1, <2>2, <2>3, <2>4, <2>5 DEF FormInv, PartsInv, PartInv, Closed
  <2>7. s + Len(PartText(p)) <= Len(content)
    <3>1. IsForm(form)
      BY DEF FormInv, TextInv
    <3>2. /\ k \in 0..n /\ n \in 0..n /\ k <= n
      BY <2>4
    <3>3. s + Len(PartText(p)) = Ends(form)[k] /\ Ends(form)[k] <= Ends(form)[n]
      BY <2>1, <2>2, <2>4, <2>5, <3>1, <3>2, EndsOrdered DEF Count
    <3>4. PICK z \in Nat : z = Ends(form)[n]
      BY <2>2, <3>2, TextFacts DEF FormInv, Count
    <3>5. Len(content) = z + 2 \/ Len(content) = z + 1
      BY <2>2, <3>4, TextFacts DEF FormInv, Count
    <3>6. PICK y \in Nat : y = Ends(form)[k]
      BY <2>2, <3>2, TextFacts DEF FormInv, Count
    <3> QED BY <3>3, <3>4, <3>5, <3>6
  <2>8. TextInv
    BY DEF FormInv
  <2> QED BY <2>1, <2>4, <2>6, <2>7, <2>8, ExtractedIsItem
<1> QED BY FormInvariance, <1>1, PTL
=============================================================================
