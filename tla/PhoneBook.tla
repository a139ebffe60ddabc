------------------------------- MODULE PhoneBook -------------------------------
(***************************************************************************)
(* How the phone book is read: each line of the answer to +CPBR is split   *)
(* at its commas (Util.cpp, SplitString), freed of its quotes, and the     *)
(* entries named "aux-<number>" are kept, the lowest numbers first and no  *)
(* more than there is room for (PhonebookReader, PhoneEntryArray).         *)
(*                                                                         *)
(* SplitString works in place, on a text that ends in 0: it writes 0 over  *)
(* the commas and hands out pointers.  A text is a sequence of symbols     *)
(* here, each a character or a piece of text whose characters do not       *)
(* matter; a pointer is a position.                                        *)
(***************************************************************************)
EXTENDS Integers, Sequences, FiniteSets

CONSTANTS
  Comma, Quote,       (* the separator and the quotation mark               *)
  Phone,              (* numbers of entries                                 *)
  AuxNumber,          (* what is read from the pieces "aux-<number>"        *)
  Other,              (* any other piece                                    *)
  MAX_PHONES_STORE,   (* capacity of entryArray                             *)
  SortMod,            (* sortIndex is 8 bits: 256                           *)
  Line,               (* bound: lines that are not of the phone book        *)
  Size,               (* sizes of the arrays the parts are written to       *)
  Name,               (* bound: names in the phone book                     *)
  MaxRead             (* bound: entries that are read                       *)

Aux == DOMAIN AuxNumber
Zero == "0"
Symbol == {Comma, Quote, Other} \cup Phone \cup Aux

ASSUME BookAssumption ==
  /\ Cardinality({Comma, Quote, Other, Zero}) = 4
  /\ {Comma, Quote, Other, Zero} \cap (Phone \cup Aux) = {} /\ Phone \cap Aux = {}
  /\ AuxNumber \in [Aux -> Nat]
  /\ MAX_PHONES_STORE \in Nat \ {0} /\ SortMod \in Nat \ {0}
  /\ Line \subseteq Seq(Symbol) /\ Name \subseteq Seq(Symbol)
  /\ Size \subseteq Nat /\ MaxRead \in Nat

VARIABLES
  line,         (* the text, with 0 for the commas where it was split        *)
  pChr,         (* where SplitString is                                      *)
  inQuotation,
  subStrArray,  (* where the parts begin                                     *)
  arraySize, skipEmpty,
  running,      (* SplitString has not returned                              *)
  book,         (* entryArray                                                *)
  whole,        (* history: the line before it was split                     *)
  read          (* history: every entry "aux-" since the book was cleared    *)

split == <<pChr, inQuotation, subStrArray, running>>
reading == <<line, split, arraySize, skipEmpty, book, whole, read>>

-----------------------------------------------------------------------------
\* The text that begins at i: up to the next 0.
Text(i) ==
  LET ends == {j \in i .. Len(line) : line[j] = Zero}
  IN SubSeq(line, i, IF ends = {} THEN Len(line) ELSE (CHOOSE j \in ends : \A k \in ends : j <= k) - 1)

\* Mutant: only the quotation mark in front.
ShiftQuotationsFront(s) ==
  IF s # <<>> /\ Head(s) = Quote THEN Tail(s) ELSE s

\* Without the quotes around it.
ShiftQuotations(s) ==
  IF s # <<>> /\ s[1] = Quote /\ s[Len(s)] = Quote THEN SubSeq(s, 2, Len(s) - 1) ELSE s

\* Mutant: an equal number goes in front.
PlaceFirst(b, item) ==
  LET after == {i \in DOMAIN b : b[i].sortIndex >= item.sortIndex}
  IN IF after = {} THEN Len(b) + 1 ELSE CHOOSE i \in after : \A j \in after : i <= j

\* PhoneEntryArray::Append puts the item in front of the first with a higher number;
\* what then has no room is freed.
Place(b, item) ==
  LET after == {i \in DOMAIN b : b[i].sortIndex > item.sortIndex}
  IN IF after = {} THEN Len(b) + 1 ELSE CHOOSE i \in after : \A j \in after : i <= j

AppendEntry(b, item) ==
  LET p == Place(b, item)
      all == SubSeq(b, 1, p - 1) \o <<item>> \o SubSeq(b, p, Len(b))
  IN SubSeq(all, 1, IF Len(all) < MAX_PHONES_STORE THEN Len(all) ELSE MAX_PHONES_STORE)

-----------------------------------------------------------------------------
\* SplitString is called for a text.
Calls(text, size, skip) ==
  /\ line' = text /\ whole' = text
  /\ arraySize' = size /\ skipEmpty' = skip
  /\ pChr' = 1 /\ inQuotation' = FALSE
  /\ subStrArray' = IF size = 0 THEN <<>> ELSE <<1>>
  /\ running' = (size > 1)

PBInit ==
  /\ line = <<>> /\ whole = <<>>
  /\ arraySize = 0 /\ skipEmpty = FALSE
  /\ pChr = 1 /\ inQuotation = FALSE /\ subStrArray = <<>> /\ running = FALSE
  /\ book = <<>> /\ read = <<>>

\* +CPBR: 1,"+372111111",145,"ilja aux-1", read into an array of four.
Entry(phone, name) ==
  <<Other, Comma, Quote, phone, Quote, Comma, Other, Comma, Quote>> \o name \o <<Quote>>

\* What "lines that are not of the phone book" means.
ASSUME LineAssumption ==
  \A text \in Line, phone \in Phone, name \in Name : text # Entry(phone, name)

IsEntry == \E phone \in Phone, name \in Name : whole = Entry(phone, name)

ReceiveEntry(phone, name) ==
  /\ ~running /\ ~IsEntry /\ Len(read) < MaxRead
  /\ Calls(Entry(phone, name), 4, FALSE)
  /\ UNCHANGED <<book, read>>

\* A line of another kind: the first of all (a bound).
ReceiveLine(text, size, skip) ==
  /\ ~running /\ whole = <<>> /\ read = <<>>
  /\ Calls(text, size, skip)
  /\ UNCHANGED <<book, read>>

AtEnd == pChr > Len(line)
Here == line[pChr]

\* A character that separates nothing.
Skip ==
  /\ running /\ ~AtEnd
  /\ Here # Comma \/ inQuotation
  /\ inQuotation' = (IF Here = Quote THEN ~inQuotation ELSE inQuotation)
  /\ pChr' = pChr + 1
  /\ UNCHANGED <<line, subStrArray, arraySize, skipEmpty, running, book, whole, read>>

\* Mutant: one part more than the array has room for, and none is dropped.
SeparateLate ==
  /\ running /\ ~AtEnd /\ Here = Comma /\ ~inQuotation
  /\ line' = [line EXCEPT ![pChr] = Zero]
  /\ pChr' = pChr + 1
  /\ subStrArray' = IF pChr = Len(line) THEN subStrArray ELSE Append(subStrArray, pChr + 1)
  /\ running' = (pChr # Len(line) /\ Len(subStrArray') <= arraySize)
  /\ UNCHANGED <<inQuotation, arraySize, skipEmpty, book, whole, read>>

Separate ==
  /\ running /\ ~AtEnd /\ Here = Comma /\ ~inQuotation
  /\ line' = [line EXCEPT ![pChr] = Zero]
  /\ pChr' = pChr + 1
  /\ LET n == Len(subStrArray)
         kept == IF skipEmpty /\ subStrArray[n] = pChr THEN SubSeq(subStrArray, 1, n - 1) ELSE subStrArray
     IN subStrArray' = IF pChr = Len(line) THEN kept ELSE Append(kept, pChr + 1)
  /\ running' = (pChr # Len(line) /\ Len(subStrArray') < arraySize)
  /\ UNCHANGED <<inQuotation, arraySize, skipEmpty, book, whole, read>>

Piece(i) == ShiftQuotations(Text(subStrArray[i]))

\* HandleDataResponse of a line of the phone book, once it is split: the first piece
\* "aux-" of the name counts.
HandleEntriy ==
  LET phone == Piece(2)[1]
      name == Piece(4)
      aux == {i \in DOMAIN name : name[i] \in Aux}
  IN IF aux = {} THEN UNCHANGED <<book, read>>
     ELSE LET number == AuxNumber[name[CHOOSE i \in aux : \A j \in aux : i <= j]]
              item == [sortIndex |-> number % SortMod, phone |-> phone]
          IN book' = AppendEntry(book, item) /\ read' = Append(read, item)

\* The text is over.
Return ==
  /\ running /\ AtEnd
  /\ running' = FALSE
  /\ UNCHANGED <<line, pChr, inQuotation, subStrArray, arraySize, skipEmpty, book, whole, read>>

ReadEntry ==
  /\ ~running /\ IsEntry
  /\ HandleEntriy
  /\ line' = <<>> /\ whole' = <<>> /\ arraySize' = 0 /\ skipEmpty' = FALSE
  /\ pChr' = 1 /\ inQuotation' = FALSE /\ subStrArray' = <<>> /\ UNCHANGED running

\* The phone book is to be read (again).
ClearBook ==
  /\ ~running /\ ~IsEntry /\ book # <<>>
  /\ book' = <<>> /\ read' = <<>>
  /\ UNCHANGED <<line, split, arraySize, skipEmpty, whole>>

PBNext ==
  \/ \E phone \in Phone, name \in Name : ReceiveEntry(phone, name)
  \/ \E text \in Line, size \in Size, skip \in BOOLEAN : ReceiveLine(text, size, skip)
  \/ Skip \/ Separate \/ Return \/ ReadEntry \/ ClearBook

PBSpec == PBInit /\ [][PBNext]_reading

-----------------------------------------------------------------------------
PBTypeOK ==
  /\ line \in Seq(Symbol \cup {Zero}) /\ Len(line) = Len(whole) /\ whole \in Seq(Symbol)
  /\ pChr \in 1 .. Len(line) + 1
  /\ inQuotation \in BOOLEAN /\ skipEmpty \in BOOLEAN /\ running \in BOOLEAN
  /\ arraySize \in Nat
  /\ \A i \in DOMAIN subStrArray : subStrArray[i] \in 1 .. Len(line) + 1
  /\ \A i \in DOMAIN book : book[i].sortIndex \in 0 .. SortMod - 1 /\ book[i].phone \in Phone
  /\ Len(book) <= MAX_PHONES_STORE /\ Len(subStrArray) <= arraySize

\* What the line says: commas outside quotation marks separate, a comma at its end
\* ends the part before it, and empty parts do not count if they are to be skipped.
Separators ==
  {i \in DOMAIN whole :
     whole[i] = Comma /\ Cardinality({j \in 1 .. i - 1 : whole[j] = Quote}) % 2 = 0}
Begins == {1} \cup {i + 1 : i \in Separators \ {Len(whole)}}
Counts(b) == ~(skipEmpty /\ b \in Separators)
Before(b) == Cardinality({c \in Begins : c < b /\ Counts(c)})
Parts ==
  {b \in Begins :
     \/ Before(b) < arraySize - 1 /\ Counts(b)
     \/ Before(b) = arraySize - 1 /\ \A c \in Begins : c < b => Before(c) < arraySize - 1}

\* SplitString finds the parts the line says, in order, as many as there is room for,
\* the last of them being the rest of the line; the commas between the parts, and
\* nothing else, are replaced.
SplitIsFields ==
  ~running =>
    /\ {subStrArray[i] : i \in DOMAIN subStrArray} = Parts
    /\ \A i, j \in DOMAIN subStrArray : i < j => subStrArray[i] < subStrArray[j]
    /\ line = [i \in DOMAIN whole |->
                 IF i \in Separators
                    /\ (Len(subStrArray) < arraySize \/ \E j \in DOMAIN subStrArray : i < subStrArray[j])
                 THEN Zero ELSE whole[i]]

\* The number and the name of an entry are read as they were stored, whatever commas
\* and quotation marks the name holds.
EntryAsStored ==
  \A phone \in Phone, name \in Name :
    ~running /\ whole = Entry(phone, name) =>
      Len(subStrArray) = 4 /\ Piece(2) = <<phone>> /\ Piece(4) = name

\* Where an entry stands among those read: lower numbers first, then earlier ones.
Rank(i) ==
  Cardinality({j \in DOMAIN read :
    \/ read[j].sortIndex < read[i].sortIndex
    \/ read[j].sortIndex = read[i].sortIndex /\ j <= i})

\* The book holds the first of all entries read, in order: who is left out was never
\* among them, and the first is the primary phone.  (Every variable keeps its type.)
BookIsFirst ==
  /\ PBTypeOK
  /\ Len(book) = IF Len(read) < MAX_PHONES_STORE THEN Len(read) ELSE MAX_PHONES_STORE
  /\ \A i \in DOMAIN read : Rank(i) \in DOMAIN book => book[Rank(i)] = read[i]

=============================================================================
