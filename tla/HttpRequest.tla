----------------------------- MODULE HttpRequest -----------------------------
(***************************************************************************)
(* An http_request after its header has been parsed                        *)
(* (src/http_request.cpp): get_ranges, which http_send_file calls with the *)
(* size of a file, and extract_post_data_items, which an application calls *)
(* for a form.  Both scan text with a pointer, one piece for each turn of  *)
(* their loop, and the second one changes the text while it scans: it ends *)
(* names and values by writing NULs into it.                               *)
(*                                                                         *)
(* Text is a sequence of tokens: the keys that the code searches for, the  *)
(* characters at which it cuts, and words.                                 *)
(***************************************************************************)
EXTENDS Integers, SequencesExt

CONSTANTS
  RangeStrs,  \* range_str after "bytes=": sequences of specs
  Words,      \* other text in the data of forms
  Forms,      \* forms that clients post
  Sizes,      \* max_size of get_ranges
  Word,       \* number of values of size_t, and of long
  IntMax,     \* INT_MAX
  MaxCalls,   \* bound on the calls of the two methods
  None,       \* a number that is left out
  Junk        \* text without a number where one is expected

\* Values of size_t.
Numbers == 0..(Word - 1)

\* A spec "first-last": "first-" without last, "-last" without first, where last may have
\* a sign.  Their numbers are as large as the client likes.
Specs ==
  [first : Nat \cup {None, Junk}, last : Nat \cup {None, Junk}] \cup
  [first : {None}, last : Int]

\* What the code searches for and cuts at in a part.
Keys ==
  {"Content-Disposition", "name=", "filename=", "Content-Type", "semicolon", "quote", "CRLF"}

FormParts == [file : BOOLEAN, type : BOOLEAN, data : Seq(Words \cup Keys)]

ASSUME WordAssumption == Word \in Nat \ {0} /\ Sizes \subseteq Numbers
\* An int is narrower than long and size_t.
ASSUME IntAssumption == IntMax \in Nat /\ 2 * (IntMax + 1) < Word
ASSUME RangeStrsAssumption == RangeStrs \subseteq Seq(Specs) /\ MaxCalls \in Nat
\* A browser chooses a boundary that is not in the data.
ASSUME WordsAssumption == {"boundary", "boundary_last"} \cap Words = {}
ASSUME FormsAssumption == Forms \subseteq [parts : Seq(FormParts), crlf : BOOLEAN]
ASSUME NumbersAssumption == None \notin Int /\ Junk \notin Int /\ None # Junk

VARIABLES
  calling,    \* the method that is running
  calls,      \* calls that have returned
  range_str,
  tok,        \* the spec that strtok_r returns next
  max_size,
  ranges,
  valid,      \* *valid_range
  form,       \* what the client posted
  content,    \* the text of the form
  item_ptr,
  items

rangeVars == <<range_str, tok, max_size, ranges, valid>>
itemVars == <<form, content, item_ptr, items>>
vars == <<calling, calls, range_str, tok, max_size, ranges, valid,
          form, content, item_ptr, items>>

-----------------------------------------------------------------------------
(* A form: its parts, and whether a line break follows its last boundary.  *)

\* What a browser writes before the data of a part.
Fields(p) ==
  <<"Content-Disposition", "form-data", "semicolon", "name=", "field", "quote">>
  \o (IF p.file THEN <<"semicolon", "filename=", "path", "quote">> ELSE <<>>) \o <<"CRLF">>
  \o (IF p.type THEN <<"Content-Type", "mime", "CRLF">> ELSE <<>>) \o <<"CRLF">>

\* boundary_str contains its line break, boundary_last_str does not.
PartText(p) == <<"boundary">> \o Fields(p) \o p.data \o <<"CRLF">>

\* Per number of parts, their text.
PartsText(parts) ==
  LET text[n \in 0..Len(parts)] ==
        IF n = 0 THEN <<>> ELSE text[n - 1] \o PartText(parts[n])
  IN text

Posted(f) ==
  PartsText(f.parts)[Len(f.parts)] \o <<"boundary_last">>
  \o (IF f.crlf THEN <<"CRLF">> ELSE <<>>)

NoForm == [parts |-> <<>>, crlf |-> TRUE]

-----------------------------------------------------------------------------
(* get_ranges.                                                             *)

\* Mutant of Minus: the numbers are signed.
MinusSigned(a, b) == a - b

\* Subtraction of size_t.
Minus(a, b) == IF a >= b THEN a - b ELSE a - b + Word

\* max_size - 1
LastByte == Minus(max_size, 1)

\* What atoi makes of a number that an int does not hold: strtol returns the next one
\* that long holds, of which the lower bits are left.
Cut(n) ==
  LET longMax == Word \div 2 - 1
      long == IF n > longMax THEN longMax ELSE IF n < -longMax - 1 THEN -longMax - 1 ELSE n
      bits == long % (2 * (IntMax + 1))
  IN IF bits > IntMax THEN bits - 2 * (IntMax + 1) ELSE bits

Atoi(x) ==
  IF x = Junk THEN 0 ELSE IF x \in (-IntMax - 1)..IntMax THEN x ELSE Cut(x)

\* The int that atoi returns, as a size_t.
Value(x) == IF Atoi(x) < 0 THEN Atoi(x) + Word ELSE Atoi(x)

\* Mutant of Unsatisfiable: off by one more.
UnsatisfiableEarly(s) == s.first # None /\ Value(s.first) + 1 >= LastByte

\* Tested before the spec is known to be a number.
Unsatisfiable(s) == s.first # None /\ Value(s.first) >= LastByte

\* A zero that is not written as one; for a suffix, any zero.
Malformed(s) ==
  IF s.first # None
  THEN \E x \in {s.first, s.last} \ {None, 0} : Value(x) = 0
  ELSE s.last # None /\ Value(s.last) = 0

\* Mutant of SuffixStart: the length of the suffix is taken for its first byte.
SuffixStartAt(n) == n

SuffixStart(n) == Minus(LastByte, n)

\* Mutant of EndOrLast: a length for an index.
EndOrSize(last) == IF last = None THEN max_size ELSE Value(last)

EndOrLast(last) == IF last = None THEN LastByte ELSE Value(last)

\* The bytes that are announced for spec s: both ends count.
RangeOf(s) ==
  IF s.first # None THEN [start |-> Value(s.first), end |-> EndOrLast(s.last)]
  ELSE IF s.last = None THEN [start |-> 0, end |-> 0]
  ELSE [start |-> SuffixStart(Value(s.last)), end |-> LastByte]

\* The application asks for a file with a GET request, for items with a POST.
GetRanges(size) ==
  /\ calling = "none" /\ calls < MaxCalls /\ form = NoForm
  /\ calling' = "get_ranges"
  /\ max_size' = size
  /\ tok' = 1 /\ ranges' = <<>> /\ valid' = TRUE
  /\ UNCHANGED <<calls, range_str, itemVars>>

TakeRange ==
  /\ calling = "get_ranges" /\ tok <= Len(range_str)
  /\ ~Unsatisfiable(range_str[tok]) /\ ~Malformed(range_str[tok])
  /\ ranges' = Append(ranges, RangeOf(range_str[tok]))
  /\ tok' = tok + 1
  /\ UNCHANGED <<calling, calls, range_str, max_size, valid, itemVars>>

\* The loop is left at the end, at a malformed spec, which leaves the request with
\* the ranges before it, and at one that cannot be satisfied.
ReturnRanges ==
  /\ calling = "get_ranges"
  /\ \/ tok > Len(range_str) /\ UNCHANGED valid
     \/ /\ tok <= Len(range_str) /\ Unsatisfiable(range_str[tok])
        /\ valid' = FALSE
     \/ /\ tok <= Len(range_str) /\ ~Unsatisfiable(range_str[tok])
        /\ Malformed(range_str[tok]) /\ UNCHANGED valid
  /\ calling' = "none" /\ calls' = calls + 1
  /\ UNCHANGED <<range_str, tok, max_size, ranges, itemVars>>

-----------------------------------------------------------------------------
(* extract_post_data_items.                                                *)

FirstOf(I) == IF I = {} THEN 0 ELSE Min(I)

\* memmem in tokens from to to of text; "filename=" contains "name=".
Found(text, key, from, to) ==
  FirstOf({i \in from..to : text[i] = key \/ (key = "name=" /\ text[i] = "filename=")})

\* The next boundary.  max_ptr is the last byte of the content, so that the last
\* token is searched without its last byte.
Boundary(key, from) == Found(content, key, from, Len(content) - 1)

\* Mutant of EndOf: the last boundary is not looked for.
EndOfNoLast(from) ==
  LET next == Boundary("boundary", from) IN IF next # 0 THEN next - 1 ELSE Len(content)

\* The token that next - break_len points to.  Without any boundary that is inside
\* the last token, which then stands for what is left of it.
EndOf(from) ==
  LET next == Boundary("boundary", from)
      last == Boundary("boundary_last", from)
  IN IF next # 0 THEN next - 1
     ELSE IF last # 0 THEN last - 1 ELSE Len(content)

\* The first blank line, which may be that of a later part.
Blank(text, from) ==
  FirstOf({i \in from..(Len(text) - 2) : text[i] = "CRLF" /\ text[i + 1] = "CRLF"})

\* strchr stops at NULs, so it stays in the section.
CutAt(text, from, char) ==
  LET i == FirstOf({i \in from..Len(text) : text[i] \in {char, "NUL"}})
  IN IF from = 0 \/ i = 0 \/ text[i] = "NUL" THEN text ELSE [text EXCEPT ![i] = "NUL"]

\* Mutant of Section: keys are looked for up to the end of the content.
SectionOpen(end) == Len(content) - 1

\* The last token in which a key can be found: the section's length is one too
\* short, so the token before the break does not count.
Section(end) == end - 2

\* Mutant of NextFrom: the next boundary is skipped with this section.
NextFromEnd(from, end) == end + 2

\* item_ptr moves past the boundary only.
NextFrom(from, end) == from

\* One turn of the loop: the text of a part is cut into C strings, and the item
\* points to them.  A negative size is a size_t that wrapped.
ExtractItem ==
  /\ calling = "extract" /\ Boundary("boundary", item_ptr) # 0
  /\ LET from == Boundary("boundary", item_ptr) + 1
         end == EndOf(from)
         After(key) == LET i == Found(content, key, from, Section(end))
                       IN IF i = 0 THEN 0 ELSE i + 1
         disposition == After("Content-Disposition")
         name == After("name=")
         filename == After("filename=")
         type == After("Content-Type")
         closed == [content EXCEPT ![end] = "NUL"]
         blank == Blank(closed, from)
         cut1 == CutAt(closed, disposition, "semicolon")
         cut2 == CutAt(cut1, name, "quote")
         cut3 == CutAt(cut2, filename, "quote")
     IN /\ content' = CutAt(cut3, type, "CRLF")
        /\ items' = Append(items,
             [disposition |-> disposition, name |-> name, filename |-> filename,
              type |-> type,
              buff |-> IF blank = 0 THEN 0 ELSE blank + 2,
              size |-> IF blank = 0 THEN 0 ELSE end - (blank + 2)])
        /\ item_ptr' = NextFrom(from, end)
  /\ UNCHANGED <<calling, calls, rangeVars, form>>

\* items keeps what earlier calls have found.
Extract ==
  /\ calling = "none" /\ calls < MaxCalls /\ form # NoForm
  /\ calling' = "extract"
  /\ item_ptr' = 1
  /\ UNCHANGED <<calls, rangeVars, form, content, items>>

ReturnItems ==
  /\ calling = "extract" /\ Boundary("boundary", item_ptr) = 0
  /\ calling' = "none" /\ calls' = calls + 1
  /\ UNCHANGED <<rangeVars, itemVars>>

-----------------------------------------------------------------------------
\* A request for a file, or one that posts a form.
Init ==
  /\ calling = "none" /\ calls = 0
  /\ range_str \in RangeStrs /\ form \in Forms \cup {NoForm}
  /\ range_str = <<>> \/ form = NoForm
  /\ tok = 1 /\ max_size = 0 /\ ranges = <<>> /\ valid = TRUE
  /\ content = Posted(form) /\ item_ptr = 1 /\ items = <<>>

Next ==
  \/ \E size \in Sizes : GetRanges(size)
  \/ TakeRange \/ ReturnRanges
  \/ Extract \/ ExtractItem \/ ReturnItems

Spec == Init /\ [][Next]_vars

-----------------------------------------------------------------------------
(* Properties.                                                             *)

RangesTyped ==
  /\ calls \in Nat
  /\ range_str \in Seq(Specs)
  /\ tok \in 1..(Len(range_str) + 1) /\ max_size \in Numbers
  /\ ranges \in Seq([start : Numbers, end : Numbers]) /\ Len(ranges) = tok - 1
  /\ valid \in BOOLEAN

\* Pointers stay inside the content, and get_ranges has one range for each spec
\* that it has got past, though many a spec makes it stop.
TypeOK ==
  /\ calling \in {"none", "get_ranges", "extract"}
  /\ RangesTyped
  /\ item_ptr \in 1..Len(content)
  /\ \A k \in DOMAIN items :
       {items[k].disposition, items[k].name, items[k].filename, items[k].type,
        items[k].buff} \subseteq 0..Len(content)

\* The bytes of a file of size bytes that spec s asks for.
Wanted(s, size) ==
  IF s.first # None
  THEN {b \in 0..(size - 1) : b >= s.first /\ (s.last = None \/ b <= s.last)}
  ELSE {b \in 0..(size - 1) : s.last # None /\ b >= size - s.last}

\* x is left out, or a number without sign that an int holds.
Fits(x) == x \in Nat => x <= IntMax

\* A suffix of the whole file, or of more, wraps, and so does one with a sign.
Shorter(s) == s.first = None /\ s.last # None => s.last \in 0..(max_size - 1)

\* However the specs of a request are mixed, each range has all bytes of the file that
\* its spec asks for, unless that is a suffix that is not shorter than it, or a number
\* of the spec does not fit into an int.
AskedBytesCovered ==
  \A k \in DOMAIN ranges :
    LET s == range_str[k]
    IN Shorter(s) /\ Fits(s.first) /\ Fits(s.last) =>
         Wanted(s, max_size) \subseteq ranges[k].start..ranges[k].end

\* http_send_file takes start for an offset into the file.  It is one as long as the
\* file is not empty, whatever the first byte is that a request asks for; and only an end
\* written in the request, or one that is cut because it does not fit into an int,
\* leaves the file.
RangesInsideFile ==
  \A k \in DOMAIN ranges :
    LET s == range_str[k]
    IN max_size > 0 /\ Shorter(s) /\ (s.first = None => Fits(s.last)) =>
         /\ ranges[k].start < max_size
         /\ \/ ranges[k].end < max_size
            \/ s.first # None /\ (Fits(s.last) => ranges[k].end = s.last)

\* A request is refused as a whole only for a spec that is malformed, asks for nothing
\* but, perhaps, the last byte of the file, or starts at a number that does not fit into
\* an int.
RefusedForCause ==
  ~valid =>
    LET s == range_str[tok]
    IN /\ tok <= Len(range_str) /\ s.first # None
       /\ \/ Malformed(s) \/ ~Fits(s.first)
          \/ Wanted(s, max_size) \subseteq {max_size - 1}

\* The C string at p.
Text(p) ==
  SubSeq(content, p, FirstOf({i \in p..Len(content) : content[i] = "NUL"}) - 1)

\* No text in the data looks like a header field that the part has not got.
Plain(p) ==
  /\ p.file \/ "filename=" \notin ToSet(p.data)
  /\ p.type \/ "Content-Type" \notin ToSet(p.data)

\* What the application should find in the item of part p.
IsItemOf(item, p) ==
  /\ Text(item.disposition) = <<"form-data">> /\ Text(item.name) = <<"field">>
  /\ IF p.file THEN Text(item.filename) = <<"path">> ELSE item.filename = 0
  /\ IF p.type THEN Text(item.type) = <<"mime">> ELSE item.type = 0
  /\ SubSeq(content, item.buff, item.buff + item.size - 1) = p.data

\* The items of the first call are the parts of the form, in order, with the data
\* byte for byte: no NUL written for one part, or in a later call, damages another.
\* The exceptions are data with something like a header field in it, and the last
\* part of a form that ends without a line break.
ItemsAreParts ==
  \A k \in DOMAIN items \cap DOMAIN form.parts :
    Plain(form.parts[k]) /\ (k < Len(form.parts) \/ form.crlf)
      => IsItemOf(items[k], form.parts[k])

\* Every call appends one item for each part, whatever earlier ones wrote into the
\* text and whatever data there is.
OneItemEach ==
  calling = "none" /\ form # NoForm => Len(items) = calls * Len(form.parts)
=============================================================================
