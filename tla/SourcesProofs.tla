--------------------------- MODULE SourcesProofs ---------------------------
(***************************************************************************)
(* Proofs about the sources of documents. A program: what is left in the   *)
(* pipe is always the rest of one document's lines and all of the others', *)
(* so nothing of one document is taken for another's (StreamInv). Files:   *)
(* what a directory entered asks for has been met or is still to be        *)
(* visited (FsInv), so when nothing is left all of it has been.            *)
(*                                                                         *)
(* The spider. robots.txt: behind each line the parser is where the        *)
(* records say (ParsedTo), so it keeps the rules of the right records. The *)
(* crawl: what is met is met under one name, listed or retrieved once;     *)
(* what is listed is as near the start as its depth says; the links of     *)
(* what was retrieved are met, or, with a MaxDepth, pages are retrieved in *)
(* the order of their distance (SpiderInv).                                *)
(***************************************************************************)
EXTENDS Sources, InductionLemmas

-----------------------------------------------------------------------------
(* Sequences.                                                              *)

(* Concatenation is associative.                                           *)
Cat(y, z) == y \o z
LEMMA Associative ==
  ASSUME NEW X, NEW r \in Seq(X), NEW s \in Seq(X), NEW t \in Seq(X)
  PROVE  Cat(r, s) \in Seq(X) /\ Cat(Cat(r, s), t) = Cat(r, Cat(s, t))
BY DEF Cat

(* An empty sequence adds nothing.                                         *)
LEMMA EmptySequence ==
  ASSUME NEW X, NEW s \in Seq(X)
  PROVE  <<>> \in Seq(X) /\ <<>> \o s = s /\ s \o <<>> = s
OBVIOUS

-----------------------------------------------------------------------------
(* A program: what it prints, in parts.                                    *)

(* The lines and units there are.                                          *)
PartNames ==
  {"Path-Name", "Content-Length", "Last-Mtime", "No-Contents",
   "Document-Type", "Update-Mode", "blank", "content"}
ToPrint ==
  {Header(name, value) : name \in PartNames, value \in Nat}
    \cup {Text(name, text) : name \in PartNames,
                             text \in {d.type : d \in Documents}
                                        \cup {d.mode : d \in Documents}}

(* A document from its blank line on, from its Update-Mode, if it has one, *)
(* and so on; FromFirst is all of it.                                      *)
FromBlank(d) == <<Blank>> \o [i \in 1..d.size |-> Content]
FromMode(d) ==
  Optional(d.mode # "run", Text("Update-Mode", d.mode)) \o FromBlank(d)
FromType(d) ==
  Optional(d.type # NoType, Text("Document-Type", d.type)) \o FromMode(d)
FromNoContents(d) ==
  Optional(d.noContents, Header("No-Contents", 0)) \o FromType(d)
FromMtime(d) ==
  Optional(d.mtime # 0, Header("Last-Mtime", d.mtime)) \o FromNoContents(d)
FromLength(d) ==
  Optional(d.hasLength, Header("Content-Length", d.size)) \o FromMtime(d)
FromFirst(d, n) == <<Header("Path-Name", n)>> \o FromLength(d)

(* A line that may be there or not, and what follows it.                   *)
LEMMA OptionalThen ==
  ASSUME NEW given \in BOOLEAN, NEW line \in ToPrint, NEW t \in Seq(ToPrint)
  PROVE  /\ Optional(given, line) \in Seq(ToPrint)
         /\ Optional(given, line) \o t \in Seq(ToPrint)
         /\ given => Optional(given, line) \o t = <<line>> \o t
         /\ ~given => Optional(given, line) \o t = t
<1>1. CASE given
  <2>1. Optional(given, line) = <<line>>
    BY <1>1 DEF Optional
  <2>2. <<line>> \in Seq(ToPrint)
    OBVIOUS
  <2> QED
    BY <1>1, <2>1, <2>2, Prefixed
<1>2. CASE ~given
  <2>1. Optional(given, line) = <<>>
    BY <1>2 DEF Optional
  <2> QED
    BY <1>2, <2>1, EmptySequence
<1> QED
  BY <1>1, <1>2

(* The lines of a document.                                                *)
LEMMA LinesToPrint ==
  ASSUME NEW d \in Documents, NEW n \in Nat
  PROVE  /\ {Blank, Content, Header("Path-Name", n), Header("Content-Length", d.size),
             Header("Last-Mtime", d.mtime), Header("No-Contents", 0),
             Text("Document-Type", d.type), Text("Update-Mode", d.mode)}
              \subseteq ToPrint
         /\ [i \in 1..d.size |-> Content] \in Seq(ToPrint)
         /\ Len([i \in 1..d.size |-> Content]) = d.size
<1>1. d.size \in Nat /\ d.mtime \in Nat
  BY DocumentsAssumption
<1>2. \A name \in PartNames, value \in Nat : Header(name, value) \in ToPrint
  BY DEF ToPrint
<1>3. \A name \in PartNames : Text(name, d.type) \in ToPrint /\ Text(name, d.mode) \in ToPrint
  BY DEF ToPrint
<1>4. Blank \in ToPrint /\ Content \in ToPrint
  <2>1. "blank" \in PartNames /\ "content" \in PartNames /\ 0 \in Nat
    BY DEF PartNames
  <2> QED
    BY <1>2, <2>1, Zenon DEF Blank, Content
<1>5. [i \in 1..d.size |-> Content] \in Seq(ToPrint)
  BY <1>1, <1>4
<1>6. Len([i \in 1..d.size |-> Content]) = d.size
  BY <1>1
<1>7. n \in Nat /\ 0 \in Nat /\ {"Path-Name", "Content-Length", "Last-Mtime",
        "No-Contents", "Document-Type", "Update-Mode"} \subseteq PartNames
  BY DEF PartNames
<1>8. /\ Header("Path-Name", n) \in ToPrint /\ Header("Content-Length", d.size) \in ToPrint
      /\ Header("Last-Mtime", d.mtime) \in ToPrint /\ Header("No-Contents", 0) \in ToPrint
  BY <1>1, <1>2, <1>7, Zenon
<1>9. Text("Document-Type", d.type) \in ToPrint /\ Text("Update-Mode", d.mode) \in ToPrint
  BY <1>3, <1>7, Zenon
<1> QED
  BY <1>4, <1>5, <1>6, <1>8, <1>9

(* Every part is a sequence of lines.                                      *)
LEMMA PartsToPrint ==
  ASSUME NEW d \in Documents, NEW n \in Nat
  PROVE  /\ FromBlank(d) \in Seq(ToPrint) /\ FromMode(d) \in Seq(ToPrint)
         /\ FromType(d) \in Seq(ToPrint) /\ FromNoContents(d) \in Seq(ToPrint)
         /\ FromMtime(d) \in Seq(ToPrint) /\ FromLength(d) \in Seq(ToPrint)
         /\ FromFirst(d, n) \in Seq(ToPrint)
<1>1. d.hasLength \in BOOLEAN /\ d.noContents \in BOOLEAN
  BY DocumentsAssumption
<1>2. FromBlank(d) \in Seq(ToPrint)
  BY LinesToPrint, Prefixed DEF FromBlank
<1>3. FromMode(d) \in Seq(ToPrint)
  BY <1>2, LinesToPrint, OptionalThen DEF FromMode
<1>4. FromType(d) \in Seq(ToPrint)
  BY <1>3, LinesToPrint, OptionalThen DEF FromType
<1>5. FromNoContents(d) \in Seq(ToPrint)
  BY <1>1, <1>4, LinesToPrint, OptionalThen DEF FromNoContents
<1>6. FromMtime(d) \in Seq(ToPrint)
  BY <1>5, LinesToPrint, OptionalThen DEF FromMtime
<1>7. FromLength(d) \in Seq(ToPrint)
  BY <1>1, <1>6, LinesToPrint, OptionalThen DEF FromLength
<1>8. FromFirst(d, n) \in Seq(ToPrint)
  BY <1>7, LinesToPrint, Prefixed DEF FromFirst
<1> QED
  BY <1>2, <1>3, <1>4, <1>5, <1>6, <1>7, <1>8

(* A part whose line may be missing: with it, and without.                 *)
LEMMA OptionalParts ==
  ASSUME NEW d \in Documents
  PROVE  /\ d.hasLength => FromLength(d) = <<Header("Content-Length", d.size)>> \o FromMtime(d)
         /\ ~d.hasLength => FromLength(d) = FromMtime(d)
         /\ d.mtime # 0 => FromMtime(d) = <<Header("Last-Mtime", d.mtime)>> \o FromNoContents(d)
         /\ d.mtime = 0 => FromMtime(d) = FromNoContents(d)
         /\ d.noContents => FromNoContents(d) = <<Header("No-Contents", 0)>> \o FromType(d)
         /\ ~d.noContents => FromNoContents(d) = FromType(d)
         /\ d.type # NoType => FromType(d) = <<Text("Document-Type", d.type)>> \o FromMode(d)
         /\ d.type = NoType => FromType(d) = FromMode(d)
         /\ d.mode # "run" => FromMode(d) = <<Text("Update-Mode", d.mode)>> \o FromBlank(d)
         /\ d.mode = "run" => FromMode(d) = FromBlank(d)
<1>1. d.hasLength \in BOOLEAN /\ d.noContents \in BOOLEAN
  BY DocumentsAssumption
<1>2. 0 \in Nat
  OBVIOUS
<1>3. /\ d.hasLength => FromLength(d) = <<Header("Content-Length", d.size)>> \o FromMtime(d)
      /\ ~d.hasLength => FromLength(d) = FromMtime(d)
  <2>1. FromMtime(d) \in Seq(ToPrint)
    BY <1>2, PartsToPrint
  <2>2. Header("Content-Length", d.size) \in ToPrint
    BY <1>2, LinesToPrint
  <2>3. (d.hasLength) \in BOOLEAN
    BY <1>1
  <2>4. /\ d.hasLength => Optional(d.hasLength, Header("Content-Length", d.size)) \o FromMtime(d) = <<Header("Content-Length", d.size)>> \o FromMtime(d)
        /\ ~d.hasLength => Optional(d.hasLength, Header("Content-Length", d.size)) \o FromMtime(d) = FromMtime(d)
    BY <2>1, <2>2, <2>3, OptionalThen
  <2> QED
    BY <2>4 DEF FromLength
<1>4. /\ d.mtime # 0 => FromMtime(d) = <<Header("Last-Mtime", d.mtime)>> \o FromNoContents(d)
      /\ d.mtime = 0 => FromMtime(d) = FromNoContents(d)
  <2>1. FromNoContents(d) \in Seq(ToPrint)
    BY <1>2, PartsToPrint
  <2>2. Header("Last-Mtime", d.mtime) \in ToPrint
    BY <1>2, LinesToPrint
  <2>3. (d.mtime # 0) \in BOOLEAN
    BY <1>1
  <2>4. /\ d.mtime # 0 => Optional(d.mtime # 0, Header("Last-Mtime", d.mtime)) \o FromNoContents(d) = <<Header("Last-Mtime", d.mtime)>> \o FromNoContents(d)
        /\ d.mtime = 0 => Optional(d.mtime # 0, Header("Last-Mtime", d.mtime)) \o FromNoContents(d) = FromNoContents(d)
    BY <2>1, <2>2, <2>3, OptionalThen
  <2> QED
    BY <2>4 DEF FromMtime
<1>5. /\ d.noContents => FromNoContents(d) = <<Header("No-Contents", 0)>> \o FromType(d)
      /\ ~d.noContents => FromNoContents(d) = FromType(d)
  <2>1. FromType(d) \in Seq(ToPrint)
    BY <1>2, PartsToPrint
  <2>2. Header("No-Contents", 0) \in ToPrint
    BY <1>2, LinesToPrint
  <2>3. (d.noContents) \in BOOLEAN
    BY <1>1
  <2>4. /\ d.noContents => Optional(d.noContents, Header("No-Contents", 0)) \o FromType(d) = <<Header("No-Contents", 0)>> \o FromType(d)
        /\ ~d.noContents => Optional(d.noContents, Header("No-Contents", 0)) \o FromType(d) = FromType(d)
    BY <2>1, <2>2, <2>3, OptionalThen
  <2> QED
    BY <2>4 DEF FromNoContents
<1>6. /\ d.type # NoType => FromType(d) = <<Text("Document-Type", d.type)>> \o FromMode(d)
      /\ d.type = NoType => FromType(d) = FromMode(d)
  <2>1. FromMode(d) \in Seq(ToPrint)
    BY <1>2, PartsToPrint
  <2>2. Text("Document-Type", d.type) \in ToPrint
    BY <1>2, LinesToPrint
  <2>3. (d.type # NoType) \in BOOLEAN
    BY <1>1
  <2>4. /\ d.type # NoType => Optional(d.type # NoType, Text("Document-Type", d.type)) \o FromMode(d) = <<Text("Document-Type", d.type)>> \o FromMode(d)
        /\ d.type = NoType => Optional(d.type # NoType, Text("Document-Type", d.type)) \o FromMode(d) = FromMode(d)
    BY <2>1, <2>2, <2>3, OptionalThen
  <2> QED
    BY <2>4 DEF FromType
<1>7. /\ d.mode # "run" => FromMode(d) = <<Text("Update-Mode", d.mode)>> \o FromBlank(d)
      /\ d.mode = "run" => FromMode(d) = FromBlank(d)
  <2>1. FromBlank(d) \in Seq(ToPrint)
    BY <1>2, PartsToPrint
  <2>2. Text("Update-Mode", d.mode) \in ToPrint
    BY <1>2, LinesToPrint
  <2>3. (d.mode # "run") \in BOOLEAN
    BY <1>1
  <2>4. /\ d.mode # "run" => Optional(d.mode # "run", Text("Update-Mode", d.mode)) \o FromBlank(d) = <<Text("Update-Mode", d.mode)>> \o FromBlank(d)
        /\ d.mode = "run" => Optional(d.mode # "run", Text("Update-Mode", d.mode)) \o FromBlank(d) = FromBlank(d)
    BY <2>1, <2>2, <2>3, OptionalThen
  <2> QED
    BY <2>4 DEF FromMode
<1> QED
  BY <1>3, <1>4, <1>5, <1>6, <1>7

(* A document printed is its parts from the first on.                      *)
LEMMA LinesAreParts ==
  ASSUME NEW d \in Documents, NEW n \in Nat
  PROVE  Lines(d, n) = FromFirst(d, n)
<1> DEFINE p == <<Header("Path-Name", n)>>
           l == Optional(d.hasLength, Header("Content-Length", d.size))
           m == Optional(d.mtime # 0, Header("Last-Mtime", d.mtime))
           c == Optional(d.noContents, Header("No-Contents", 0))
           t == Optional(d.type # NoType, Text("Document-Type", d.type))
           u == Optional(d.mode # "run", Text("Update-Mode", d.mode))
           b == <<Blank>>
           x == [i \in 1..d.size |-> Content]
           S == Seq(ToPrint)
<1>1. d.hasLength \in BOOLEAN /\ d.noContents \in BOOLEAN
  BY DocumentsAssumption
<1>2. p \in S /\ b \in S
  <2>1. Header("Path-Name", n) \in ToPrint /\ Blank \in ToPrint
    BY LinesToPrint
  <2> QED
    BY <2>1
<1>3. x \in S
  BY LinesToPrint
<1>4. l \in S /\ c \in S
  BY <1>1, <1>3, LinesToPrint, OptionalThen
<1>5. m \in S /\ t \in S /\ u \in S
  BY <1>3, LinesToPrint, OptionalThen
<1>6. Lines(d, n) = Cat(Cat(Cat(Cat(Cat(Cat(Cat(p, l), m), c), t), u), b), x)
  BY DEF Lines, Cat
<1>7. FromFirst(d, n) = Cat(p, Cat(l, Cat(m, Cat(c, Cat(t, Cat(u, Cat(b, x)))))))
  BY DEF FromFirst, FromLength, FromMtime, FromNoContents, FromType, FromMode, FromBlank, Cat
<1>8. Cat(Cat(Cat(Cat(Cat(Cat(Cat(p, l), m), c), t), u), b), x)
        = Cat(p, Cat(l, Cat(m, Cat(c, Cat(t, Cat(u, Cat(b, x)))))))
  <2> HIDE DEF p, l, m, c, t, u, b, x
  <2>1. /\ p \in Seq(ToPrint) /\ l \in Seq(ToPrint) /\ m \in Seq(ToPrint)
        /\ c \in Seq(ToPrint) /\ t \in Seq(ToPrint) /\ u \in Seq(ToPrint)
        /\ b \in Seq(ToPrint) /\ x \in Seq(ToPrint)
    BY <1>2, <1>3, <1>4, <1>5
  <2>2. Cat(p, l) \in Seq(ToPrint)
    BY <2>1, Associative
  <2>3. Cat(Cat(p, l), m) \in Seq(ToPrint)
    BY <2>1, Associative, <2>2
  <2>4. Cat(Cat(Cat(p, l), m), c) \in Seq(ToPrint)
    BY <2>1, Associative, <2>3
  <2>5. Cat(Cat(Cat(Cat(p, l), m), c), t) \in Seq(ToPrint)
    BY <2>1, Associative, <2>4
  <2>6. Cat(Cat(Cat(Cat(Cat(p, l), m), c), t), u) \in Seq(ToPrint)
    BY <2>1, Associative, <2>5
  <2>7. Cat(b, x) \in Seq(ToPrint)
    BY <2>1, Associative
  <2>8. Cat(u, Cat(b, x)) \in Seq(ToPrint)
    BY <2>1, Associative, <2>7
  <2>9. Cat(t, Cat(u, Cat(b, x))) \in Seq(ToPrint)
    BY <2>1, Associative, <2>8
  <2>10. Cat(c, Cat(t, Cat(u, Cat(b, x)))) \in Seq(ToPrint)
    BY <2>1, Associative, <2>9
  <2>11. Cat(m, Cat(c, Cat(t, Cat(u, Cat(b, x))))) \in Seq(ToPrint)
    BY <2>1, Associative, <2>10
  <2> QED
    BY <2>1, Associative, <2>2, <2>3, <2>4, <2>5, <2>6, <2>7, <2>8, <2>9, <2>10, <2>11
<1> QED
  BY <1>6, <1>7, <1>8

-----------------------------------------------------------------------------
(* The pipe while headers are read.                                        *)

(* What reading the headers of the n-th document, d, has set when j - 1    *)
(* of the seven parts of its lines are behind.                             *)
HeadersRead(j, d, n) ==
  /\ path = IF j > 1 THEN n ELSE 0
  /\ fsize = IF j > 2 /\ d.hasLength THEN d.size ELSE IF n = 1 THEN Missing ELSE 0
  /\ mtime = IF j > 3 THEN d.mtime ELSE 0
  /\ noContents \in BOOLEAN /\ (noContents <=> j > 4 /\ d.noContents)
  /\ docType = IF j > 5 THEN d.type ELSE NoType
  /\ updateMode = IF j > 6 THEN d.mode ELSE "run"

(* The parts from the j-th on.                                             *)
From(j, d, n) ==
  CASE j = 1 -> FromFirst(d, n) [] j = 2 -> FromLength(d) [] j = 3 -> FromMtime(d)
    [] j = 4 -> FromNoContents(d) [] j = 5 -> FromType(d) [] j = 6 -> FromMode(d)
    [] j = 7 -> FromBlank(d)

(* The j-th part is the next to be read, and rest comes after document d.  *)
At(j, d, n, rest) ==
  HeadersRead(j, d, n) /\ pipe = From(j, d, n) \o rest

(* A part that is not there may be passed over.                            *)
LEMMA PassedOver ==
  ASSUME NEW d \in Documents, NEW n \in Nat, NEW rest
  PROVE  /\ At(2, d, n, rest) /\ ~d.hasLength => At(3, d, n, rest)
         /\ At(3, d, n, rest) /\ d.mtime = 0 => At(4, d, n, rest)
         /\ At(4, d, n, rest) /\ ~d.noContents => At(5, d, n, rest)
         /\ At(5, d, n, rest) /\ d.type = NoType => At(6, d, n, rest)
         /\ At(6, d, n, rest) /\ d.mode = "run" => At(7, d, n, rest)
<1>1. d.hasLength \in BOOLEAN /\ d.noContents \in BOOLEAN
  BY DocumentsAssumption
<1>2. ~d.hasLength => FromLength(d) = FromMtime(d)
  BY OptionalParts
<1>3. d.mtime = 0 => FromMtime(d) = FromNoContents(d)
  BY OptionalParts
<1>4. ~d.noContents => FromNoContents(d) = FromType(d)
  BY OptionalParts
<1>5. d.type = NoType => FromType(d) = FromMode(d)
  BY OptionalParts
<1>6. d.mode = "run" => FromMode(d) = FromBlank(d)
  BY OptionalParts
<1> USE DEF At, From, HeadersRead
<1>7. At(2, d, n, rest) /\ ~d.hasLength => At(3, d, n, rest)
  BY <1>2
<1>8. At(3, d, n, rest) /\ d.mtime = 0 => At(4, d, n, rest)
  BY <1>3
<1>9. At(4, d, n, rest) /\ ~d.noContents => At(5, d, n, rest)
  BY <1>1, <1>4
<1>10. At(5, d, n, rest) /\ d.type = NoType => At(6, d, n, rest)
  BY <1>5
<1>11. At(6, d, n, rest) /\ d.mode = "run" => At(7, d, n, rest)
  BY <1>6
<1> QED
  BY <1>7, <1>8, <1>9, <1>10, <1>11

(* A part that is there begins with its line.                              *)
LEMMA PartsBegin ==
  ASSUME NEW d \in Documents, NEW n \in Nat, NEW rest \in Seq(ToPrint)
  PROVE  /\ FromFirst(d, n) \o rest = <<Header("Path-Name", n)>> \o (FromLength(d) \o rest)
         /\ d.hasLength => FromLength(d) \o rest
              = <<Header("Content-Length", d.size)>> \o (FromMtime(d) \o rest)
         /\ d.mtime # 0 => FromMtime(d) \o rest
              = <<Header("Last-Mtime", d.mtime)>> \o (FromNoContents(d) \o rest)
         /\ d.noContents => FromNoContents(d) \o rest
              = <<Header("No-Contents", 0)>> \o (FromType(d) \o rest)
         /\ d.type # NoType => FromType(d) \o rest
              = <<Text("Document-Type", d.type)>> \o (FromMode(d) \o rest)
         /\ d.mode # "run" => FromMode(d) \o rest
              = <<Text("Update-Mode", d.mode)>> \o (FromBlank(d) \o rest)
         /\ FromBlank(d) \o rest
              = <<Blank>> \o ([i \in 1..d.size |-> Content] \o rest)
<1>0. ASSUME NEW x \in ToPrint, NEW s \in Seq(ToPrint)
      PROVE  (<<x>> \o s) \o rest = <<x>> \o (s \o rest)
  <2>1. <<x>> \in Seq(ToPrint)
    OBVIOUS
  <2> QED
    BY <2>1, Associative DEF Cat
<1>2. d.hasLength => FromLength(d) = <<Header("Content-Length", d.size)>> \o FromMtime(d)
  BY OptionalParts
<1>3. d.mtime # 0 => FromMtime(d) = <<Header("Last-Mtime", d.mtime)>> \o FromNoContents(d)
  BY OptionalParts
<1>4. d.noContents => FromNoContents(d) = <<Header("No-Contents", 0)>> \o FromType(d)
  BY OptionalParts
<1>5. d.type # NoType => FromType(d) = <<Text("Document-Type", d.type)>> \o FromMode(d)
  BY OptionalParts
<1>6. d.mode # "run" => FromMode(d) = <<Text("Update-Mode", d.mode)>> \o FromBlank(d)
  BY OptionalParts
<1>7. FromFirst(d, n) \o rest = <<Header("Path-Name", n)>> \o (FromLength(d) \o rest)
  BY <1>0, PartsToPrint, LinesToPrint DEF FromFirst
<1>8. FromBlank(d) \o rest = <<Blank>> \o ([i \in 1..d.size |-> Content] \o rest)
  BY <1>0, LinesToPrint DEF FromBlank
<1>9. d.hasLength => FromLength(d) \o rest
              = <<Header("Content-Length", d.size)>> \o (FromMtime(d) \o rest)
  <2>1. FromMtime(d) \in Seq(ToPrint)
    BY PartsToPrint
  <2>2. Header("Content-Length", d.size) \in ToPrint
    BY LinesToPrint
  <2>3. (<<Header("Content-Length", d.size)>> \o FromMtime(d)) \o rest
          = <<Header("Content-Length", d.size)>> \o (FromMtime(d) \o rest)
    BY <1>0, <2>1, <2>2
  <2> QED
    BY <1>2, <2>3
<1>10. d.mtime # 0 => FromMtime(d) \o rest
              = <<Header("Last-Mtime", d.mtime)>> \o (FromNoContents(d) \o rest)
  <2>1. FromNoContents(d) \in Seq(ToPrint)
    BY PartsToPrint
  <2>2. Header("Last-Mtime", d.mtime) \in ToPrint
    BY LinesToPrint
  <2>3. (<<Header("Last-Mtime", d.mtime)>> \o FromNoContents(d)) \o rest
          = <<Header("Last-Mtime", d.mtime)>> \o (FromNoContents(d) \o rest)
    BY <1>0, <2>1, <2>2
  <2> QED
    BY <1>3, <2>3
<1>11. d.noContents => FromNoContents(d) \o rest
              = <<Header("No-Contents", 0)>> \o (FromType(d) \o rest)
  <2>1. FromType(d) \in Seq(ToPrint)
    BY PartsToPrint
  <2>2. Header("No-Contents", 0) \in ToPrint
    BY LinesToPrint
  <2>3. (<<Header("No-Contents", 0)>> \o FromType(d)) \o rest
          = <<Header("No-Contents", 0)>> \o (FromType(d) \o rest)
    BY <1>0, <2>1, <2>2
  <2> QED
    BY <1>4, <2>3
<1>12. d.type # NoType => FromType(d) \o rest
              = <<Text("Document-Type", d.type)>> \o (FromMode(d) \o rest)
  <2>1. FromMode(d) \in Seq(ToPrint)
    BY PartsToPrint
  <2>2. Text("Document-Type", d.type) \in ToPrint
    BY LinesToPrint
  <2>3. (<<Text("Document-Type", d.type)>> \o FromMode(d)) \o rest
          = <<Text("Document-Type", d.type)>> \o (FromMode(d) \o rest)
    BY <1>0, <2>1, <2>2
  <2> QED
    BY <1>5, <2>3
<1>13. d.mode # "run" => FromMode(d) \o rest
              = <<Text("Update-Mode", d.mode)>> \o (FromBlank(d) \o rest)
  <2>1. FromBlank(d) \in Seq(ToPrint)
    BY PartsToPrint
  <2>2. Text("Update-Mode", d.mode) \in ToPrint
    BY LinesToPrint
  <2>3. (<<Text("Update-Mode", d.mode)>> \o FromBlank(d)) \o rest
          = <<Text("Update-Mode", d.mode)>> \o (FromBlank(d) \o rest)
    BY <1>0, <2>1, <2>2
  <2> QED
    BY <1>6, <2>3
<1> QED
  BY <1>7, <1>8, <1>9, <1>10, <1>11, <1>12, <1>13

(* The parts by their numbers.                                             *)
LEMMA FromParts ==
  ASSUME NEW d, NEW n
  PROVE  /\ From(1, d, n) = FromFirst(d, n) /\ From(2, d, n) = FromLength(d)
         /\ From(3, d, n) = FromMtime(d) /\ From(4, d, n) = FromNoContents(d)
         /\ From(5, d, n) = FromType(d) /\ From(6, d, n) = FromMode(d)
         /\ From(7, d, n) = FromBlank(d)
BY DEF From

(* While headers are read: the next line is none of the content, it is the *)
(* blank one only when all headers are behind, and reading one of them     *)
(* leads to a later part.                                                  *)
HeadersInStep(d, n, rest) ==
  /\ pipe # <<>> /\ Head(pipe).part # "content"
  /\ AtBlank => At(7, d, n, rest)
  /\ ~AtBlank /\ ReadHeader => \E k \in 1..7 : At(k, d, n, rest)'

(* The parts of headers, from the last to the first.                       *)
LEMMA NextHeader ==
  ASSUME NEW d \in Documents, NEW n \in Nat \ {0}, NEW rest \in Seq(ToPrint),
         NEW j \in 1..7, At(j, d, n, rest)
  PROVE  HeadersInStep(d, n, rest)
<1>1. ASSUME NEW line \in ToPrint, NEW t \in Seq(ToPrint), pipe = <<line>> \o t
      PROVE  pipe # <<>> /\ Head(pipe) = line /\ Tail(pipe) = t
  BY <1>1, Prefixed
<1>2. d.hasLength \in BOOLEAN /\ d.noContents \in BOOLEAN
  BY DocumentsAssumption
<1>3. ASSUME NEW s \in Seq(ToPrint) PROVE s \o rest \in Seq(ToPrint)
  OBVIOUS
<1>4. n # 0 /\ n \in Nat
  OBVIOUS
<1>5. At(7, d, n, rest) => HeadersInStep(d, n, rest)
  <2> SUFFICES ASSUME At(7, d, n, rest) PROVE HeadersInStep(d, n, rest)
    OBVIOUS
  <2>1. pipe = <<Blank>> \o ([i \in 1..d.size |-> Content] \o rest)
    <3>1. pipe = FromBlank(d) \o rest
      BY FromParts DEF At
    <3> QED
      BY <1>4, <3>1, PartsBegin
  <2>2. Blank \in ToPrint /\ [i \in 1..d.size |-> Content] \in Seq(ToPrint)
    BY <1>4, LinesToPrint
  <2>3. [i \in 1..d.size |-> Content] \o rest \in Seq(ToPrint)
    BY <1>3, <2>2
  <2>4. pipe # <<>> /\ Head(pipe) = Blank
    BY <1>1, <2>1, <2>2, <2>3
  <2>5. Blank.part = "blank"
    BY DEF Blank, Header
  <2> QED
    BY <2>4, <2>5 DEF HeadersInStep, AtBlank
<1>6. ASSUME At(6, d, n, rest), d.mode # "run"
      PROVE  HeadersInStep(d, n, rest)
  <2> DEFINE line == Text("Update-Mode", d.mode)
             t == FromBlank(d) \o rest
  <2>1. pipe = <<line>> \o t
    <3>1. pipe = FromMode(d) \o rest
      BY <1>6, FromParts DEF At
    <3> QED
      BY <1>4, <1>6, <3>1, PartsBegin
  <2>2. line \in ToPrint /\ FromBlank(d) \in Seq(ToPrint)
    BY <1>4, LinesToPrint, PartsToPrint
  <2>3. t \in Seq(ToPrint)
    BY <1>3, <2>2
  <2>4. line.part # "blank" /\ line.part # "content"
    BY DEF Header, Text
  <2>5. pipe # <<>> /\ Head(pipe) = line /\ Tail(pipe) = t
    <3> HIDE DEF line, t
    <3> QED
      BY <1>1, <2>1, <2>2, <2>3
  <2>6. ASSUME ReadHeader PROVE At(7, d, n, rest)'
    <3>1. pipe' = From(7, d, n) \o rest
      BY <2>5, <2>6, FromParts DEF ReadHeader
    <3>2. HeadersRead(6, d, n)
      BY <1>6 DEF At
    <3>3. path' = path /\ fsize' = fsize /\ mtime' = mtime /\ docType' = docType /\ updateMode' = d.mode
      BY <2>5, <2>6 DEF ReadHeader, Header, Text
    <3>5. noContents' \in BOOLEAN /\ (noContents' <=> noContents \/ line.part = "No-Contents")
      BY <2>5, <2>6 DEF ReadHeader
    <3>6. line.part # "No-Contents"
      BY DEF Header, Text
    <3>4. HeadersRead(7, d, n)'
      <4> HIDE DEF line
      <4>1. noContents \in BOOLEAN /\ (noContents <=> 6 > 4 /\ d.noContents)
        BY <3>2 DEF HeadersRead
      <4>2. noContents' \in BOOLEAN /\ (noContents' <=> 7 > 4 /\ d.noContents)
        BY <1>2, <1>6, <3>5, <3>6, <4>1
      <4>3. /\ path' = IF 7 > 1 THEN n ELSE 0
            /\ fsize' = IF 7 > 2 /\ d.hasLength THEN d.size
                        ELSE IF n = 1 THEN Missing ELSE 0
            /\ mtime' = IF 7 > 3 THEN d.mtime ELSE 0
            /\ docType' = IF 7 > 5 THEN d.type ELSE NoType
            /\ updateMode' = IF 7 > 6 THEN d.mode ELSE "run"
        BY <1>2, <1>4, <1>6, <3>2, <3>3 DEF HeadersRead
      <4> QED
        BY <4>2, <4>3 DEF HeadersRead
    <3> QED
      BY <3>1, <3>4 DEF At
  <2> QED
    BY <2>4, <2>5, <2>6 DEF HeadersInStep, AtBlank
<1>7. ASSUME At(5, d, n, rest), d.type # NoType
      PROVE  HeadersInStep(d, n, rest)
  <2> DEFINE line == Text("Document-Type", d.type)
             t == FromMode(d) \o rest
  <2>1. pipe = <<line>> \o t
    <3>1. pipe = FromType(d) \o rest
      BY <1>7, FromParts DEF At
    <3> QED
      BY <1>4, <1>7, <3>1, PartsBegin
  <2>2. line \in ToPrint /\ FromMode(d) \in Seq(ToPrint)
    BY <1>4, LinesToPrint, PartsToPrint
  <2>3. t \in Seq(ToPrint)
    BY <1>3, <2>2
  <2>4. line.part # "blank" /\ line.part # "content"
    BY DEF Header, Text
  <2>5. pipe # <<>> /\ Head(pipe) = line /\ Tail(pipe) = t
    <3> HIDE DEF line, t
    <3> QED
      BY <1>1, <2>1, <2>2, <2>3
  <2>6. ASSUME ReadHeader PROVE At(6, d, n, rest)'
    <3>1. pipe' = From(6, d, n) \o rest
      BY <2>5, <2>6, FromParts DEF ReadHeader
    <3>2. HeadersRead(5, d, n)
      BY <1>7 DEF At
    <3>3. path' = path /\ fsize' = fsize /\ mtime' = mtime /\ docType' = d.type /\ updateMode' = updateMode
      BY <2>5, <2>6 DEF ReadHeader, Header, Text
    <3>5. noContents' \in BOOLEAN /\ (noContents' <=> noContents \/ line.part = "No-Contents")
      BY <2>5, <2>6 DEF ReadHeader
    <3>6. line.part # "No-Contents"
      BY DEF Header, Text
    <3>4. HeadersRead(6, d, n)'
      <4> HIDE DEF line
      <4>1. noContents \in BOOLEAN /\ (noContents <=> 5 > 4 /\ d.noContents)
        BY <3>2 DEF HeadersRead
      <4>2. noContents' \in BOOLEAN /\ (noContents' <=> 6 > 4 /\ d.noContents)
        BY <1>2, <1>7, <3>5, <3>6, <4>1
      <4>3. /\ path' = IF 6 > 1 THEN n ELSE 0
            /\ fsize' = IF 6 > 2 /\ d.hasLength THEN d.size
                        ELSE IF n = 1 THEN Missing ELSE 0
            /\ mtime' = IF 6 > 3 THEN d.mtime ELSE 0
            /\ docType' = IF 6 > 5 THEN d.type ELSE NoType
            /\ updateMode' = IF 6 > 6 THEN d.mode ELSE "run"
        BY <1>2, <1>4, <1>7, <3>2, <3>3 DEF HeadersRead
      <4> QED
        BY <4>2, <4>3 DEF HeadersRead
    <3> QED
      BY <3>1, <3>4 DEF At
  <2> QED
    BY <2>4, <2>5, <2>6 DEF HeadersInStep, AtBlank
<1>8. ASSUME At(4, d, n, rest), d.noContents
      PROVE  HeadersInStep(d, n, rest)
  <2> DEFINE line == Header("No-Contents", 0)
             t == FromType(d) \o rest
  <2>1. pipe = <<line>> \o t
    <3>1. pipe = FromNoContents(d) \o rest
      BY <1>8, FromParts DEF At
    <3> QED
      BY <1>4, <1>8, <3>1, PartsBegin
  <2>2. line \in ToPrint /\ FromType(d) \in Seq(ToPrint)
    BY <1>4, LinesToPrint, PartsToPrint
  <2>3. t \in Seq(ToPrint)
    BY <1>3, <2>2
  <2>4. line.part # "blank" /\ line.part # "content"
    BY DEF Header, Text
  <2>5. pipe # <<>> /\ Head(pipe) = line /\ Tail(pipe) = t
    <3> HIDE DEF line, t
    <3> QED
      BY <1>1, <2>1, <2>2, <2>3
  <2>6. ASSUME ReadHeader PROVE At(5, d, n, rest)'
    <3>1. pipe' = From(5, d, n) \o rest
      BY <2>5, <2>6, FromParts DEF ReadHeader
    <3>2. HeadersRead(4, d, n)
      BY <1>8 DEF At
    <3>3. path' = path /\ fsize' = fsize /\ mtime' = mtime /\ docType' = docType /\ updateMode' = updateMode
      BY <2>5, <2>6 DEF ReadHeader, Header, Text
    <3>5. noContents' \in BOOLEAN /\ (noContents' <=> noContents \/ line.part = "No-Contents")
      BY <2>5, <2>6 DEF ReadHeader
    <3>6. line.part = "No-Contents"
      BY DEF Header, Text
    <3>4. HeadersRead(5, d, n)'
      <4> HIDE DEF line
      <4>1. noContents \in BOOLEAN /\ (noContents <=> 4 > 4 /\ d.noContents)
        BY <3>2 DEF HeadersRead
      <4>2. noContents' \in BOOLEAN /\ (noContents' <=> 5 > 4 /\ d.noContents)
        BY <1>2, <1>8, <3>5, <3>6, <4>1
      <4>3. /\ path' = IF 5 > 1 THEN n ELSE 0
            /\ fsize' = IF 5 > 2 /\ d.hasLength THEN d.size
                        ELSE IF n = 1 THEN Missing ELSE 0
            /\ mtime' = IF 5 > 3 THEN d.mtime ELSE 0
            /\ docType' = IF 5 > 5 THEN d.type ELSE NoType
            /\ updateMode' = IF 5 > 6 THEN d.mode ELSE "run"
        BY <1>2, <1>4, <1>8, <3>2, <3>3 DEF HeadersRead
      <4> QED
        BY <4>2, <4>3 DEF HeadersRead
    <3> QED
      BY <3>1, <3>4 DEF At
  <2> QED
    BY <2>4, <2>5, <2>6 DEF HeadersInStep, AtBlank
<1>9. ASSUME At(3, d, n, rest), d.mtime # 0
      PROVE  HeadersInStep(d, n, rest)
  <2> DEFINE line == Header("Last-Mtime", d.mtime)
             t == FromNoContents(d) \o rest
  <2>1. pipe = <<line>> \o t
    <3>1. pipe = FromMtime(d) \o rest
      BY <1>9, FromParts DEF At
    <3> QED
      BY <1>4, <1>9, <3>1, PartsBegin
  <2>2. line \in ToPrint /\ FromNoContents(d) \in Seq(ToPrint)
    BY <1>4, LinesToPrint, PartsToPrint
  <2>3. t \in Seq(ToPrint)
    BY <1>3, <2>2
  <2>4. line.part # "blank" /\ line.part # "content"
    BY DEF Header, Text
  <2>5. pipe # <<>> /\ Head(pipe) = line /\ Tail(pipe) = t
    <3> HIDE DEF line, t
    <3> QED
      BY <1>1, <2>1, <2>2, <2>3
  <2>6. ASSUME ReadHeader PROVE At(4, d, n, rest)'
    <3>1. pipe' = From(4, d, n) \o rest
      BY <2>5, <2>6, FromParts DEF ReadHeader
    <3>2. HeadersRead(3, d, n)
      BY <1>9 DEF At
    <3>3. path' = path /\ fsize' = fsize /\ mtime' = d.mtime /\ docType' = docType /\ updateMode' = updateMode
      BY <2>5, <2>6 DEF ReadHeader, Header, Text
    <3>5. noContents' \in BOOLEAN /\ (noContents' <=> noContents \/ line.part = "No-Contents")
      BY <2>5, <2>6 DEF ReadHeader
    <3>6. line.part # "No-Contents"
      BY DEF Header, Text
    <3>4. HeadersRead(4, d, n)'
      <4> HIDE DEF line
      <4>1. noContents \in BOOLEAN /\ (noContents <=> 3 > 4 /\ d.noContents)
        BY <3>2 DEF HeadersRead
      <4>2. noContents' \in BOOLEAN /\ (noContents' <=> 4 > 4 /\ d.noContents)
        BY <1>2, <1>9, <3>5, <3>6, <4>1
      <4>3. /\ path' = IF 4 > 1 THEN n ELSE 0
            /\ fsize' = IF 4 > 2 /\ d.hasLength THEN d.size
                        ELSE IF n = 1 THEN Missing ELSE 0
            /\ mtime' = IF 4 > 3 THEN d.mtime ELSE 0
            /\ docType' = IF 4 > 5 THEN d.type ELSE NoType
            /\ updateMode' = IF 4 > 6 THEN d.mode ELSE "run"
        BY <1>2, <1>4, <1>9, <3>2, <3>3 DEF HeadersRead
      <4> QED
        BY <4>2, <4>3 DEF HeadersRead
    <3> QED
      BY <3>1, <3>4 DEF At
  <2> QED
    BY <2>4, <2>5, <2>6 DEF HeadersInStep, AtBlank
<1>10. ASSUME At(2, d, n, rest), d.hasLength
      PROVE  HeadersInStep(d, n, rest)
  <2> DEFINE line == Header("Content-Length", d.size)
             t == FromMtime(d) \o rest
  <2>1. pipe = <<line>> \o t
    <3>1. pipe = FromLength(d) \o rest
      BY <1>10, FromParts DEF At
    <3> QED
      BY <1>4, <1>10, <3>1, PartsBegin
  <2>2. line \in ToPrint /\ FromMtime(d) \in Seq(ToPrint)
    BY <1>4, LinesToPrint, PartsToPrint
  <2>3. t \in Seq(ToPrint)
    BY <1>3, <2>2
  <2>4. line.part # "blank" /\ line.part # "content"
    BY DEF Header, Text
  <2>5. pipe # <<>> /\ Head(pipe) = line /\ Tail(pipe) = t
    <3> HIDE DEF line, t
    <3> QED
      BY <1>1, <2>1, <2>2, <2>3
  <2>6. ASSUME ReadHeader PROVE At(3, d, n, rest)'
    <3>1. pipe' = From(3, d, n) \o rest
      BY <2>5, <2>6, FromParts DEF ReadHeader
    <3>2. HeadersRead(2, d, n)
      BY <1>10 DEF At
    <3>3. path' = path /\ fsize' = d.size /\ mtime' = mtime /\ docType' = docType /\ updateMode' = updateMode
      BY <2>5, <2>6 DEF ReadHeader, Header, Text
    <3>5. noContents' \in BOOLEAN /\ (noContents' <=> noContents \/ line.part = "No-Contents")
      BY <2>5, <2>6 DEF ReadHeader
    <3>6. line.part # "No-Contents"
      BY DEF Header, Text
    <3>4. HeadersRead(3, d, n)'
      <4> HIDE DEF line
      <4>1. noContents \in BOOLEAN /\ (noContents <=> 2 > 4 /\ d.noContents)
        BY <3>2 DEF HeadersRead
      <4>2. noContents' \in BOOLEAN /\ (noContents' <=> 3 > 4 /\ d.noContents)
        BY <1>2, <1>10, <3>5, <3>6, <4>1
      <4>3. /\ path' = IF 3 > 1 THEN n ELSE 0
            /\ fsize' = IF 3 > 2 /\ d.hasLength THEN d.size
                        ELSE IF n = 1 THEN Missing ELSE 0
            /\ mtime' = IF 3 > 3 THEN d.mtime ELSE 0
            /\ docType' = IF 3 > 5 THEN d.type ELSE NoType
            /\ updateMode' = IF 3 > 6 THEN d.mode ELSE "run"
        BY <1>2, <1>4, <1>10, <3>2, <3>3 DEF HeadersRead
      <4> QED
        BY <4>2, <4>3 DEF HeadersRead
    <3> QED
      BY <3>1, <3>4 DEF At
  <2> QED
    BY <2>4, <2>5, <2>6 DEF HeadersInStep, AtBlank
<1>11. ASSUME At(1, d, n, rest)
      PROVE  HeadersInStep(d, n, rest)
  <2> DEFINE line == Header("Path-Name", n)
             t == FromLength(d) \o rest
  <2>1. pipe = <<line>> \o t
    <3>1. pipe = FromFirst(d, n) \o rest
      BY <1>11, FromParts DEF At
    <3> QED
      BY <1>4, <1>11, <3>1, PartsBegin
  <2>2. line \in ToPrint /\ FromLength(d) \in Seq(ToPrint)
    BY <1>4, LinesToPrint, PartsToPrint
  <2>3. t \in Seq(ToPrint)
    BY <1>3, <2>2
  <2>4. line.part # "blank" /\ line.part # "content"
    BY DEF Header, Text
  <2>5. pipe # <<>> /\ Head(pipe) = line /\ Tail(pipe) = t
    <3> HIDE DEF line, t
    <3> QED
      BY <1>1, <2>1, <2>2, <2>3
  <2>6. ASSUME ReadHeader PROVE At(2, d, n, rest)'
    <3>1. pipe' = From(2, d, n) \o rest
      BY <2>5, <2>6, FromParts DEF ReadHeader
    <3>2. HeadersRead(1, d, n)
      BY <1>11 DEF At
    <3>3. path' = n /\ fsize' = fsize /\ mtime' = mtime /\ docType' = docType /\ updateMode' = updateMode
      BY <2>5, <2>6 DEF ReadHeader, Header, Text
    <3>5. noContents' \in BOOLEAN /\ (noContents' <=> noContents \/ line.part = "No-Contents")
      BY <2>5, <2>6 DEF ReadHeader
    <3>6. line.part # "No-Contents"
      BY DEF Header, Text
    <3>4. HeadersRead(2, d, n)'
      <4> HIDE DEF line
      <4>1. noContents \in BOOLEAN /\ (noContents <=> 1 > 4 /\ d.noContents)
        BY <3>2 DEF HeadersRead
      <4>2. noContents' \in BOOLEAN /\ (noContents' <=> 2 > 4 /\ d.noContents)
        BY <1>2, <1>11, <3>5, <3>6, <4>1
      <4>3. /\ path' = IF 2 > 1 THEN n ELSE 0
            /\ fsize' = IF 2 > 2 /\ d.hasLength THEN d.size
                        ELSE IF n = 1 THEN Missing ELSE 0
            /\ mtime' = IF 2 > 3 THEN d.mtime ELSE 0
            /\ docType' = IF 2 > 5 THEN d.type ELSE NoType
            /\ updateMode' = IF 2 > 6 THEN d.mode ELSE "run"
        BY <1>2, <1>4, <1>11, <3>2, <3>3 DEF HeadersRead
      <4> QED
        BY <4>2, <4>3 DEF HeadersRead
    <3> QED
      BY <3>1, <3>4 DEF At
  <2> QED
    BY <2>4, <2>5, <2>6 DEF HeadersInStep, AtBlank
<1>12. At(6, d, n, rest) => HeadersInStep(d, n, rest)
  BY <1>4, <1>5, <1>6, PassedOver
<1>13. At(5, d, n, rest) => HeadersInStep(d, n, rest)
  BY <1>4, <1>7, <1>12, PassedOver
<1>14. At(4, d, n, rest) => HeadersInStep(d, n, rest)
  BY <1>4, <1>8, <1>13, PassedOver
<1>15. At(3, d, n, rest) => HeadersInStep(d, n, rest)
  BY <1>4, <1>9, <1>14, PassedOver
<1>16. At(2, d, n, rest) => HeadersInStep(d, n, rest)
  BY <1>4, <1>10, <1>15, PassedOver
<1> QED
  BY <1>5, <1>11, <1>12, <1>13, <1>14, <1>15, <1>16
-----------------------------------------------------------------------------
(* The stream as a whole.                                                  *)

(* What comes in the pipe after document k, for the documents not taken.   *)
Rests(rest) ==
  /\ rest \in [Len(taken)..Len(printed) -> Seq(ToPrint)]
  /\ rest[Len(printed)] = <<>>
  /\ \A k \in Len(taken)..(Len(printed) - 1) :
       rest[k] = Lines(printed[k + 1], k + 1) \o rest[k + 1]

(* Where swish is: after the last document, or in the headers of the next. *)
AtEnd == Len(taken) = Len(printed) /\ pipe = <<>>
InHeaders(rest) ==
  /\ Len(taken) < Len(printed)
  /\ \E j \in 1..7 : At(j, printed[Len(taken) + 1], Len(taken) + 1, rest[Len(taken) + 1])
Between(n) ==
  /\ path = 0 /\ fsize = (IF n = 1 THEN Missing ELSE 0) /\ mtime = 0
  /\ noContents \in BOOLEAN /\ ~noContents /\ docType = NoType /\ updateMode = "run"
PipeIs(rest) == Rests(rest) /\ ((AtEnd /\ Between(Len(taken) + 1)) \/ InHeaders(rest))

(* The invariant: the documents taken are the first that were printed, and *)
(* while headers are read the pipe has the rest of the next one's lines    *)
(* and all those of the others, and the variables what was read of it.     *)
TakenInv ==
  /\ printed \in Seq(Documents) /\ taken \in Seq({Given(d, n) : d \in Documents, n \in Nat})
  /\ Len(taken) <= Len(printed)
  /\ \A n \in 1..Len(taken) : taken[n] = Given(printed[n], n)
PipeInv == prog = "headers" => \E rest : PipeIs(rest)
StreamInv == TakenInv /\ PipeInv

(* A sequence, of whatever.                                                *)
IsList(s) == \E S : s \in Seq(S)

LEMMA ListGrown ==
  ASSUME NEW s, IsList(s), NEW x
  PROVE  /\ IsList(Append(s, x)) /\ Len(s) \in Nat /\ Len(Append(s, x)) = Len(s) + 1
         /\ \A i \in 1..Len(s) : Append(s, x)[i] = s[i]
<1>1. PICK S : s \in Seq(S)
  BY DEF IsList
<1>2. PICK T : T = S \cup {x}
  OBVIOUS
<1>3. s \in Seq(T) /\ x \in T
  <2>1. PICK n \in Nat : n = Len(s)
    BY <1>1
  <2>2. s \in [1..n -> S] /\ S \subseteq T
    BY <1>1, <1>2, <2>1
  <2>3. s \in [1..n -> T]
    BY <2>2
  <2> QED
    BY <1>2, <2>3
<1> QED
  BY <1>3 DEF IsList

(* The invariant of every program: swish is in step as long as the         *)
(* documents it took are careful.                                          *)
InStep(n) == n <= Len(printed) /\ taken[n] = Given(printed[n], n)
StepInv ==
  /\ printed \in Seq(Documents) /\ IsList(taken)
  /\ CarefulUpTo(Len(taken)) => StreamInv
  /\ \A n \in 1..Len(taken) : CarefulUpTo(n) => InStep(n)

(* Before the first part of a document nothing is read of it.              *)
LEMMA AtFirst ==
  ASSUME NEW d, NEW n \in Nat \ {0}, NEW rest
  PROVE  At(1, d, n, rest) <=> Between(n) /\ pipe = FromFirst(d, n) \o rest
<1>1. HeadersRead(1, d, n) <=> Between(n)
  BY DEF HeadersRead, Between
<1> QED
  BY <1>1, FromParts DEF At

(* Content is not read as headers.                                         *)
LEMMA HeadersNext ==
  ASSUME StreamInv, prog = "headers", pipe # <<>>
  PROVE  Head(pipe).part # "content"
<1>1. PICK rest : PipeIs(rest)
  BY DEF StreamInv, PipeInv
<1>2. InHeaders(rest)
  BY <1>1 DEF PipeIs, AtEnd
<1> DEFINE n == Len(taken) + 1
<1>3. n \in Nat \ {0} /\ n \in 1..Len(printed) /\ n \in Len(taken)..Len(printed)
  BY <1>2 DEF StreamInv, TakenInv, InHeaders
<1>4. printed[n] \in Documents
  BY <1>3 DEF StreamInv, TakenInv
<1>5. rest[n] \in Seq(ToPrint)
  BY <1>1, <1>3 DEF PipeIs, Rests
<1>6. PICK j \in 1..7 : At(j, printed[n], n, rest[n])
  BY <1>2 DEF InHeaders
<1> HIDE DEF n
<1>7. HeadersInStep(printed[n], n, rest[n])
  BY <1>3, <1>4, <1>5, <1>6, NextHeader
<1> QED
  BY <1>7 DEF HeadersInStep

(* At first.                                                               *)
LEMMA StreamInvInit ==
  ProgInit => StreamInv
<1> SUFFICES ASSUME ProgInit PROVE StreamInv
  OBVIOUS
<1>1. printed = <<>> /\ taken = <<>> /\ pipe = <<>> /\ Len(printed) = 0 /\ Len(taken) = 0
  BY DEF ProgInit
<1>2. TakenInv
  BY <1>1 DEF TakenInv
<1> DEFINE rest == [k \in 0..0 |-> <<>>]
<1>3. rest \in [0..0 -> Seq(ToPrint)] /\ rest[0] = <<>>
  OBVIOUS
<1>4. Rests(rest)
  <2> HIDE DEF rest
  <2> QED
    BY <1>1, <1>3 DEF Rests
<1>5. AtEnd
  BY <1>1 DEF AtEnd
<1>6. Between(Len(taken) + 1)
  <2>1. Len(taken) + 1 = 1
    BY <1>1
  <2> QED
    BY <2>1 DEF ProgInit, Between
<1> HIDE DEF rest
<1> QED
  BY <1>2, <1>4, <1>5, <1>6 DEF StreamInv, PipeInv, PipeIs

(* Another document is printed.                                            *)
LEMMA StreamInvWrite ==
  ASSUME StreamInv, NEW e \in Documents, WriteDocument(e)
  PROVE  StreamInv'
<1>a. Len(taken) \in Nat /\ Len(printed) \in Nat /\ Len(taken) <= Len(printed)
  BY DEF StreamInv, TakenInv
<1>b. PICK m \in Nat, N \in Nat : m = Len(taken) /\ N = Len(printed)
  BY <1>a
<1>1. m \in Nat /\ N \in Nat /\ m <= N /\ N + 1 \in Nat /\ printed \in Seq(Documents)
  BY <1>a, <1>b DEF StreamInv, TakenInv
<1>2. printed' = Append(printed, e) /\ pipe' = pipe \o Lines(e, N + 1)
  BY <1>b DEF WriteDocument
<1>3. UNCHANGED <<prog, headerVars, taken>> /\ prog = "headers"
  BY DEF WriteDocument
<1>4. /\ printed' \in Seq(Documents) /\ Len(printed') = N + 1 /\ printed'[N + 1] = e
      /\ \A k \in 1..N : printed'[k] = printed[k]
  BY <1>1, <1>2, <1>b
<1>5. TakenInv'
  <2>1. taken' = taken
    BY <1>3
  <2>2. \A k \in 1..Len(taken) : taken[k] = Given(printed'[k], k)
    BY <1>1, <1>4, <1>b DEF StreamInv, TakenInv
  <2> QED
    BY <1>1, <1>4, <1>b, <2>1, <2>2 DEF StreamInv, TakenInv
<1>6. PICK rest : PipeIs(rest)
  BY <1>3 DEF StreamInv, PipeInv
<1>7. /\ rest \in [m..N -> Seq(ToPrint)] /\ rest[N] = <<>>
      /\ \A k \in m..(N - 1) : rest[k] = Lines(printed[k + 1], k + 1) \o rest[k + 1]
  BY <1>6, <1>b DEF PipeIs, Rests
<1> DEFINE L == Lines(e, N + 1)
           new == [k \in m..(N + 1) |-> IF k = N + 1 THEN <<>> ELSE Cat(rest[k], L)]
<1>8. L \in Seq(ToPrint) /\ L = FromFirst(e, N + 1)
  BY <1>1, LinesAreParts, PartsToPrint
<1>9. \A k \in m..N : rest[k] \in Seq(ToPrint) /\ Cat(rest[k], L) \in Seq(ToPrint)
  <2> HIDE DEF L
  <2> QED
    BY <1>7, <1>8, Associative
<1>10. new \in [m..(N + 1) -> Seq(ToPrint)]
  <2>1. <<>> \in Seq(ToPrint)
    OBVIOUS
  <2> HIDE DEF L
  <2> QED
    BY <1>1, <1>9, <2>1
<1>11. new[N + 1] = <<>> /\ \A k \in m..N : new[k] = Cat(rest[k], L)
  <2> HIDE DEF L
  <2> QED
    BY <1>1
<1>12. \A k \in m..N : Lines(printed'[k + 1], k + 1) \in Seq(ToPrint)
  <2> SUFFICES ASSUME NEW k \in m..N
               PROVE  Lines(printed'[k + 1], k + 1) \in Seq(ToPrint)
    OBVIOUS
  <2>1. k + 1 \in Nat /\ printed'[k + 1] \in Documents
    BY <1>1, <1>4
  <2> QED
    BY <2>1, LinesAreParts, PartsToPrint
<1>13. \A k \in m..N : new[k] = Cat(Lines(printed'[k + 1], k + 1), new[k + 1])
  <2> SUFFICES ASSUME NEW k \in m..N
               PROVE  new[k] = Cat(Lines(printed'[k + 1], k + 1), new[k + 1])
    OBVIOUS
  <2>1. CASE k = N
    <3>1. new[k] = Cat(<<>>, L) /\ new[k + 1] = <<>>
      <4> HIDE DEF new, L
      <4> QED
        BY <1>7, <1>11, <2>1
    <3>2. Lines(printed'[k + 1], k + 1) = L
      BY <1>4, <2>1
    <3>3. Cat(<<>>, L) = Cat(L, <<>>)
      <4> HIDE DEF L
      <4> QED
        BY <1>8, EmptySequence DEF Cat
    <3> HIDE DEF new, L
    <3> QED
      BY <3>1, <3>2, <3>3
  <2>2. CASE k # N
    <3>1. k \in m..(N - 1) /\ k + 1 \in m..N /\ k + 1 \in 1..N
      BY <1>1, <2>2
    <3> DEFINE l == Lines(printed[k + 1], k + 1)
    <3>2. Lines(printed'[k + 1], k + 1) = l
      BY <1>4, <3>1
    <3>3. l \in Seq(ToPrint)
      BY <1>12, <3>2
    <3>4. rest[k] = Cat(l, rest[k + 1])
      BY <1>7, <3>1 DEF Cat
    <3>5. Cat(Cat(l, rest[k + 1]), L) = Cat(l, Cat(rest[k + 1], L))
      <4>1. rest[k + 1] \in Seq(ToPrint)
        BY <1>9, <3>1
      <4> HIDE DEF l, L
      <4> QED
        BY <1>8, <3>3, <4>1, Associative
    <3>6. new[k] = Cat(rest[k], L) /\ new[k + 1] = Cat(rest[k + 1], L)
      <4> HIDE DEF new, L
      <4> QED
        BY <1>11, <3>1
    <3> HIDE DEF l, L, new
    <3> QED
      BY <3>2, <3>4, <3>5, <3>6
  <2> QED
    BY <2>1, <2>2
<1>14. Rests(new)'
  <2> HIDE DEF new
  <2>1. \A k \in m..N : new[k] = Lines(printed'[k + 1], k + 1) \o new[k + 1]
    BY <1>13 DEF Cat
  <2>2. Len(taken') = m /\ Len(printed') = N + 1 /\ (N + 1) - 1 = N
    BY <1>1, <1>3, <1>4, <1>b
  <2> QED
    BY <1>10, <1>11, <2>1, <2>2 DEF Rests
<1>15. CASE AtEnd /\ Between(Len(taken) + 1)
  <2>1. m = N /\ pipe = <<>>
    BY <1>15, <1>b DEF AtEnd
  <2>2. pipe' = FromFirst(e, N + 1) \o new[N + 1]
    <3>1. pipe' = L
      BY <1>2, <1>8, <2>1, EmptySequence
    <3>2. L \o <<>> = L
      BY <1>8, EmptySequence
    <3> HIDE DEF L, new
    <3> QED
      BY <1>8, <1>11, <3>1, <3>2
  <2>3. Between(N + 1)'
    BY <1>3, <1>15, <1>b, <2>1 DEF headerVars, Between
  <2>4. At(1, e, N + 1, new[N + 1])'
    <3> HIDE DEF new
    <3>1. HeadersRead(1, e, N + 1)'
      BY <2>3 DEF HeadersRead, Between
    <3> QED
      BY <2>2, <3>1, FromParts DEF At
  <2>5. InHeaders(new)'
    <3> HIDE DEF new
    <3>1. Len(taken') = N /\ Len(printed') = N + 1
      BY <1>3, <1>4, <1>b, <2>1
    <3> QED
      BY <1>1, <1>4, <2>4, <3>1 DEF InHeaders
  <2> HIDE DEF new
  <2> QED
    BY <1>5, <1>14, <2>5 DEF StreamInv, PipeInv, PipeIs
<1>16. CASE InHeaders(rest)
  <2>1. PICK j \in 1..7 : At(j, printed[m + 1], m + 1, rest[m + 1])
    BY <1>16, <1>b DEF InHeaders
  <2>2. m < N /\ m + 1 \in 1..N /\ m + 1 \in m..N
    BY <1>1, <1>16, <1>b DEF InHeaders
  <2>3. PICK d \in Documents : d = printed[m + 1] /\ d = printed'[m + 1]
    BY <1>1, <1>4, <2>2
  <2> DEFINE f == From(j, d, m + 1)
  <2>4. f \in Seq(ToPrint)
    <3>1. m + 1 \in Nat
      BY <1>1
    <3>2. j = 1 \/ j = 2 \/ j = 3 \/ j = 4 \/ j = 5 \/ j = 6 \/ j = 7
      OBVIOUS
    <3>3. /\ FromBlank(d) \in Seq(ToPrint) /\ FromMode(d) \in Seq(ToPrint)
          /\ FromType(d) \in Seq(ToPrint) /\ FromNoContents(d) \in Seq(ToPrint)
          /\ FromMtime(d) \in Seq(ToPrint) /\ FromLength(d) \in Seq(ToPrint)
          /\ FromFirst(d, m + 1) \in Seq(ToPrint)
      BY <3>1, PartsToPrint
    <3> QED
      BY <3>2, <3>3, FromParts
  <2>5. Cat(f, new[m + 1]) = Cat(Cat(f, rest[m + 1]), L)
    <3>1. new[m + 1] = Cat(rest[m + 1], L)
      <4> HIDE DEF new, L
      <4> QED
        BY <1>11, <2>2
    <3>2. rest[m + 1] \in Seq(ToPrint)
      BY <1>9, <2>2
    <3> HIDE DEF f, L, new
    <3> QED
      BY <1>8, <2>4, <3>1, <3>2, Associative
  <2>6. At(j, d, m + 1, new[m + 1])'
    <3>1. pipe' = Cat(Cat(f, rest[m + 1]), L)
      BY <1>2, <2>1, <2>3 DEF At, Cat
    <3>2. HeadersRead(j, d, m + 1)'
      BY <1>3, <2>1, <2>3 DEF At, HeadersRead, headerVars
    <3>3. pipe' = From(j, d, m + 1) \o new[m + 1]
      <4> HIDE DEF L, new
      <4> QED
        BY <2>5, <3>1 DEF Cat
    <3> HIDE DEF f, new
    <3> QED
      BY <3>2, <3>3 DEF At
  <2>7. InHeaders(new)'
    <3> HIDE DEF new
    <3>1. Len(taken') = m /\ Len(printed') = N + 1
      BY <1>3, <1>4, <1>b
    <3> QED
      BY <1>1, <2>2, <2>3, <2>6, <3>1 DEF InHeaders
  <2> HIDE DEF new
  <2> QED
    BY <1>5, <1>14, <2>7 DEF StreamInv, PipeInv, PipeIs
<1> QED
  BY <1>6, <1>15, <1>16 DEF PipeIs

(* A header line is read.                                                  *)
LEMMA StreamInvRead ==
  ASSUME StreamInv, ReadHeader
  PROVE  StreamInv'
<1>1. PICK m \in Nat, N \in Nat : m = Len(taken) /\ N = Len(printed)
  BY DEF StreamInv, TakenInv
<1>2. UNCHANGED <<printed, taken>> /\ prog = "headers" /\ pipe # <<>> /\ ~AtBlank
  BY DEF ReadHeader
<1>3. TakenInv'
  BY <1>2 DEF StreamInv, TakenInv
<1>4. PICK rest : PipeIs(rest)
  BY <1>2 DEF StreamInv, PipeInv
<1>5. InHeaders(rest)
  BY <1>2, <1>4 DEF PipeIs, AtEnd
<1>6. m < N /\ m + 1 \in 1..N /\ m + 1 \in m..N /\ m + 1 \in Nat \ {0}
  BY <1>1, <1>5 DEF InHeaders
<1>7. PICK d \in Documents : d = printed[m + 1]
  BY <1>1, <1>6 DEF StreamInv, TakenInv
<1>8. rest[m + 1] \in Seq(ToPrint)
  BY <1>1, <1>4, <1>6 DEF PipeIs, Rests
<1>9. PICK j \in 1..7 : At(j, d, m + 1, rest[m + 1])
  BY <1>1, <1>5, <1>7 DEF InHeaders
<1>10. HeadersInStep(d, m + 1, rest[m + 1])
  BY <1>6, <1>8, <1>9, NextHeader
<1>11. PICK k \in 1..7 : At(k, d, m + 1, rest[m + 1])'
  BY <1>2, <1>10 DEF HeadersInStep
<1>12. InHeaders(rest)'
  <2>1. Len(taken') = m /\ Len(printed') = N /\ printed'[m + 1] = d
    BY <1>1, <1>2, <1>7
  <2> QED
    BY <1>6, <1>11, <2>1 DEF InHeaders
<1>13. Rests(rest)'
  BY <1>2, <1>4 DEF PipeIs, Rests
<1> QED
  BY <1>3, <1>12, <1>13 DEF StreamInv, PipeInv, PipeIs

(* The rest after a document is what is left when all of it is read.       *)
LEMMA WhatIsLeft ==
  ASSUME NEW d \in Documents, NEW rest \in Seq(ToPrint)
  PROVE  LET s == FromBlank(d) \o rest IN SubSeq(s, d.size + 2, Len(s)) = rest
<1> DEFINE c == [i \in 1..d.size |-> Content]
           t == c \o rest
           s == <<Blank>> \o t
<1>1. d.size \in Nat
  BY DocumentsAssumption
<1>2. c \in Seq(ToPrint) /\ Len(c) = d.size /\ Blank \in ToPrint
  <2>1. 0 \in Nat
    OBVIOUS
  <2> QED
    BY <2>1, LinesToPrint
<1>3. t \in Seq(ToPrint) /\ Len(t) = d.size + Len(rest)
  <2> HIDE DEF c
  <2> QED
    BY <1>2
<1>4. \A i \in 1..Len(rest) : t[d.size + i] = rest[i]
  <2> HIDE DEF c
  <2> QED
    BY <1>1, <1>2
<1>5. s \in Seq(ToPrint) /\ Len(s) = 1 + d.size + Len(rest)
  <2>1. s \in Seq(ToPrint)
    <3> HIDE DEF t
    <3> QED
      BY <1>2, <1>3, Prefixed
  <2>2. Len(s) = 1 + Len(t)
    <3> HIDE DEF t
    <3> QED
      BY <1>2, <1>3
  <2> HIDE DEF s, t
  <2>3. Len(rest) \in Nat
    OBVIOUS
  <2> QED
    BY <1>1, <1>3, <2>1, <2>2, <2>3
<1>6. \A i \in 1..Len(rest) : s[1 + d.size + i] = rest[i]
  <2> SUFFICES ASSUME NEW i \in 1..Len(rest) PROVE s[1 + d.size + i] = rest[i]
    OBVIOUS
  <2>1. s[1 + d.size + i] = t[d.size + i]
    <3>1. PICK k \in Nat : k = d.size + i
      BY <1>1
    <3>2. k \in 1..Len(t) /\ 1 + d.size + i = k + 1
      BY <1>1, <1>3, <3>1
    <3>3. s[k + 1] = t[k]
      <4> HIDE DEF t
      <4> QED
        BY <1>2, <1>3, <3>2
    <3> HIDE DEF s, t
    <3> QED
      BY <3>1, <3>2, <3>3
  <2> HIDE DEF s, t
  <2> QED
    BY <1>4, <2>1
<1> DEFINE u == SubSeq(s, d.size + 2, Len(s))
<1>7. u \in Seq(ToPrint) /\ Len(u) = Len(rest) /\ \A i \in 1..Len(rest) : u[i] = s[1 + d.size + i]
  <2>1. PICK k \in Nat : k = d.size + 2
    BY <1>1
  <2>2. PICK h \in Nat : h = Len(s) /\ h = k - 1 + Len(rest)
    BY <1>1, <1>5, <2>1
  <2>3. k \in 1..(h + 1) /\ h - k + 1 = Len(rest)
    <3>1. Len(rest) \in Nat /\ k >= 1
      BY <1>1, <2>1
    <3> HIDE DEF s
    <3> QED
      BY <2>2, <3>1
  <2> DEFINE v == SubSeq(s, k, h)
  <2>4. v \in Seq(ToPrint)
    <3> HIDE DEF s
    <3> QED
      BY <1>5, <2>2, <2>3
  <2>5. Len(v) = h - k + 1
    <3> HIDE DEF s
    <3> QED
      BY <1>5, <2>2, <2>3
  <2>6. \A i \in 1..(h - k + 1) : v[i] = s[k + i - 1]
    <3> HIDE DEF s
    <3> QED
      BY <1>5, <2>2, <2>3
  <2>7. u = v
    <3> HIDE DEF s
    <3> QED
      BY <2>1, <2>2
  <2>8. \A i \in 1..Len(rest) : k + i - 1 = 1 + d.size + i
    BY <1>1, <2>1
  <2> HIDE DEF u, v, s
  <2> QED
    BY <2>3, <2>4, <2>5, <2>6, <2>7, <2>8
<1>8. u = rest
  <2> HIDE DEF s, u
  <2> QED
    BY <1>6, <1>7
<1>9. FromBlank(d) \o rest = s
  <2>1. 1 \in Nat
    OBVIOUS
  <2> QED
    BY <2>1, PartsBegin
<1> HIDE DEF s
<1> QED
  BY <1>8, <1>9

(* A document is read and indexed: whatever stops the reading of it, all   *)
(* of it is consumed.                                                      *)
LEMMA StreamInvIndex ==
  ASSUME StreamInv, IndexStreamed, IsList(taken), CarefulUpTo(Len(taken))'
  PROVE  StreamInv'
<1>1. PICK m \in Nat, N \in Nat : m = Len(taken) /\ N = Len(printed)
  BY DEF StreamInv, TakenInv
<1>2. /\ UNCHANGED <<printed, prog>> /\ prog = "headers" /\ pipe # <<>> /\ AtBlank
      /\ path # 0 /\ fsize # Missing
  BY DEF IndexStreamed
<1>3. PICK rest : PipeIs(rest)
  BY <1>2 DEF StreamInv, PipeInv
<1>4. InHeaders(rest)
  BY <1>2, <1>3 DEF PipeIs, AtEnd
<1>5. m < N /\ m + 1 \in 1..N /\ m + 1 \in m..N /\ m + 1 \in Nat \ {0}
  BY <1>1, <1>4 DEF InHeaders
<1>6. PICK d \in Documents : d = printed[m + 1]
  BY <1>1, <1>5 DEF StreamInv, TakenInv
<1>7. PICK r \in Seq(ToPrint) : r = rest[m + 1]
  BY <1>1, <1>3, <1>5 DEF PipeIs, Rests
<1>8. PICK j \in 1..7 : At(j, d, m + 1, r)
  BY <1>1, <1>4, <1>6, <1>7 DEF InHeaders
<1>9. HeadersInStep(d, m + 1, r)
  BY <1>5, <1>8, NextHeader
<1>10. At(7, d, m + 1, r)
  BY <1>2, <1>9 DEF HeadersInStep
<1>11. /\ d.size \in Nat /\ d.mtime \in Nat
       /\ d.hasLength \in BOOLEAN /\ d.noContents \in BOOLEAN /\ d.filter \in BOOLEAN
       /\ Careful(d)
  <2>1. Len(taken') = m + 1
    BY <1>1, ListGrown DEF IndexStreamed
  <2>2. m + 1 \in 1..Len(printed') /\ printed' = printed
    BY <1>1, <1>2, <1>5
  <2> QED
    BY <1>6, <2>1, <2>2, DocumentsAssumption DEF CarefulUpTo
<1>12. /\ path = m + 1 /\ fsize = d.size /\ mtime = d.mtime
       /\ docType = d.type /\ updateMode = d.mode
  BY <1>2, <1>5, <1>10, <1>11 DEF At, HeadersRead, Careful, Missing
<1>13. noContents = d.noContents
  BY <1>10, <1>11 DEF At, HeadersRead
<1>14. ASSUME NEW n \in Consumed(d, d.type) PROVE n = d.size
  <2>1. CASE d.filter
    BY <1>12, <1>14, <2>1 DEF Consumed
  <2>2. CASE ~d.filter
    <3>1. n = d.size \/ n \in Parsed(d.type)
      BY <1>12, <1>14, <2>2 DEF Consumed, Skipped
    <3>2. CASE n \in Parsed(d.type) /\ Streamed(d.type)
      <4>1. PICK k \in BytesRead(d.type) : n = IF k # 0 /\ k < fsize THEN fsize ELSE k
        BY <3>2 DEF Parsed
      <4>2. CASE Unread(d.type)
        <5>1. d.size = 0
          BY <1>11, <1>13, <2>2, <4>2 DEF Unread, Careful
        <5> QED
          BY <4>1, <4>2, <5>1 DEF BytesRead
      <4>3. CASE ~Unread(d.type)
        BY <1>11, <1>12, <4>1, <4>3 DEF BytesRead
      <4> QED
        BY <4>2, <4>3
    <3>3. CASE n \in Parsed(d.type) /\ ~Streamed(d.type)
      BY <1>12, <3>3 DEF Parsed
    <3> QED
      BY <3>1, <3>2, <3>3
  <2> QED
    BY <1>11, <2>1, <2>2
<1>15. pipe' = r
  <2>1. PICK n \in Consumed(d, d.type) : pipe' = SubSeq(pipe, n + 2, Len(pipe))
    BY <1>6, <1>12 DEF IndexStreamed
  <2>2. n = d.size
    BY <1>14
  <2>3. pipe = FromBlank(d) \o r
    BY <1>10, FromParts DEF At
  <2> QED
    BY <2>1, <2>2, <2>3, WhatIsLeft
<1>16. taken' = Append(taken, Given(d, m + 1))
  BY <1>12, <1>13 DEF IndexStreamed, Given
<1>17. Between(m + 2)'
  <2>1. m + 2 # 1
    OBVIOUS
  <2> QED
    BY <2>1 DEF IndexStreamed, Between, ResetMode
<1>18. Len(taken') = m + 1 /\ Len(printed') = N /\ (m + 1) + 1 = m + 2
  BY <1>1, <1>2, <1>16 DEF StreamInv, TakenInv
<1>19. TakenInv'
  <2> DEFINE T == {Given(e, n) : e \in Documents, n \in Nat}
             g == Given(d, m + 1)
  <2>1. g \in T /\ taken' = Append(taken, g)
    BY <1>16
  <2>2. taken \in Seq(T)
    BY DEF StreamInv, TakenInv
  <2>3. taken' \in Seq(T)
    <3> HIDE DEF T, g
    <3> QED
      BY <2>1, <2>2
  <2>4. \A n \in 1..(m + 1) : taken'[n] = Given(printed[n], n)
    <3>1. taken'[m + 1] = g /\ \A n \in 1..m : taken'[n] = taken[n]
      <4> HIDE DEF T, g
      <4> QED
        BY <1>1, <2>1, <2>2
    <3>2. \A n \in 1..m : taken[n] = Given(printed[n], n)
      BY <1>1 DEF StreamInv, TakenInv
    <3> QED
      BY <1>6, <3>1, <3>2
  <2> HIDE DEF T
  <2>5. taken' \in Seq({Given(e, n) : e \in Documents, n \in Nat})
    BY <2>3 DEF T
  <2>6. printed' = printed /\ printed \in Seq(Documents)
    BY <1>2 DEF StreamInv, TakenInv
  <2> QED
    BY <1>5, <1>18, <2>4, <2>5, <2>6 DEF TakenInv
<1> DEFINE new == [k \in (m + 1)..N |-> rest[k]]
<1>20. /\ rest \in [m..N -> Seq(ToPrint)] /\ rest[N] = <<>>
       /\ \A k \in m..(N - 1) : rest[k] = Lines(printed[k + 1], k + 1) \o rest[k + 1]
  BY <1>1, <1>3 DEF PipeIs, Rests
<1>21. new \in [(m + 1)..N -> Seq(ToPrint)] /\ \A k \in (m + 1)..N : new[k] = rest[k]
  BY <1>20
<1> HIDE DEF new
<1>22. Rests(new)'
  <2>1. N \in (m + 1)..N
    BY <1>5
  <2>2. \A k \in (m + 1)..(N - 1) :
          /\ k \in m..(N - 1) /\ k \in (m + 1)..N /\ k + 1 \in (m + 1)..N
    OBVIOUS
  <2>3. \A k \in (m + 1)..(N - 1) : new[k] = Lines(printed'[k + 1], k + 1) \o new[k + 1]
    BY <1>2, <1>20, <1>21, <2>2
  <2> QED
    BY <1>18, <1>20, <1>21, <2>1, <2>3 DEF Rests
<1>23. r = new[m + 1]
  BY <1>5, <1>7, <1>21
<1>24. CASE m + 1 = N
  <2>1. pipe' = <<>>
    BY <1>7, <1>15, <1>20, <1>24
  <2>2. AtEnd' /\ Between(Len(taken) + 1)'
    <3>1. AtEnd'
      BY <1>18, <1>24, <2>1 DEF AtEnd
    <3>2. Between(Len(taken) + 1)'
      BY <1>17, <1>18 DEF Between
    <3> QED
      BY <3>1, <3>2
  <2> QED
    BY <1>19, <1>22, <2>2 DEF StreamInv, PipeInv, PipeIs
<1>25. CASE m + 1 # N
  <2>1. m + 1 < N /\ m + 2 \in 1..N /\ m + 2 \in Nat /\ m + 1 \in (m + 1)..(N - 1)
        /\ m + 1 \in m..(N - 1) /\ m + 2 \in (m + 1)..N
    BY <1>5, <1>25
  <2>2. PICK e \in Documents : e = printed[m + 2] /\ e = printed'[m + 2]
    BY <1>1, <1>2, <2>1 DEF StreamInv, TakenInv
  <2>3. rest[m + 1] = Lines(e, m + 2) \o new[m + 2]
    BY <1>18, <1>20, <1>21, <2>1, <2>2
  <2>4. pipe' = FromFirst(e, m + 2) \o new[m + 2]
    BY <1>7, <1>15, <2>1, <2>3, LinesAreParts
  <2>5. At(1, e, m + 2, new[m + 2])'
    <3>1. HeadersRead(1, e, m + 2)'
      BY <1>17 DEF HeadersRead, Between
    <3> QED
      BY <2>4, <3>1, FromParts DEF At
  <2>6. InHeaders(new)'
    BY <1>18, <2>1, <2>2, <2>5 DEF InHeaders
  <2> QED
    BY <1>19, <1>22, <2>6 DEF StreamInv, PipeInv, PipeIs
<1> QED
  BY <1>24, <1>25

(* Every step.                                                             *)
LEMMA StreamInvNext ==
  ASSUME StreamInv, [ProgNext]_progVars, IsList(taken), CarefulUpTo(Len(taken))'
  PROVE  StreamInv'
<1>1. ASSUME HeaderMissing \/ EndOfStream PROVE StreamInv'
  <2>1. UNCHANGED <<printed, taken>> /\ prog' # "headers"
    BY <1>1 DEF HeaderMissing, EndOfStream
  <2> QED
    BY <2>1 DEF StreamInv, TakenInv, PipeInv
<1>2. ASSUME UNCHANGED progVars PROVE StreamInv'
  <2> USE <1>2 DEF progVars
  <2>1. TakenInv'
    BY DEF StreamInv, TakenInv
  <2>2. ASSUME NEW rest, PipeIs(rest) PROVE PipeIs(rest)'
    <3>1. Rests(rest)'
      BY <2>2 DEF PipeIs, Rests
    <3>2. CASE AtEnd /\ Between(Len(taken) + 1)
      BY <3>1, <3>2 DEF PipeIs, AtEnd, Between
    <3>3. CASE InHeaders(rest)
      <4>1. \A j, d, n, r : At(j, d, n, r) => At(j, d, n, r)'
        BY DEF At, HeadersRead
      <4>2. InHeaders(rest)'
        BY <3>3, <4>1 DEF InHeaders
      <4> QED
        BY <3>1, <4>2 DEF PipeIs
    <3> QED
      BY <2>2, <3>2, <3>3 DEF PipeIs
  <2> QED
    BY <2>1, <2>2 DEF StreamInv, PipeInv
<1> QED
  BY <1>1, <1>2, StreamInvWrite, StreamInvRead, StreamInvIndex DEF ProgNext, ReadStream

(* The source used is the only one that steps.                             *)
LEMMA SourcesProgram ==
  SourcesSpec => ProgSpec
<1>1. SourcesInit => ProgInit
  BY DEF SourcesInit
<1>2. [SourcesNext]_sourcesVars => [ProgNext]_progVars
  BY DEF SourcesNext, IndexPath, Others, FromFiles, FromWeb, FromProgram, sourcesVars, ProgNext
<1> QED
  BY <1>1, <1>2, PTL DEF SourcesSpec, ProgSpec

(* Documents that are not careful end what is known, and nothing before.   *)
LEMMA StepInvNext ==
  StepInv /\ [ProgNext]_progVars => StepInv'
<1> SUFFICES ASSUME StepInv, [ProgNext]_progVars PROVE StepInv'
  OBVIOUS
<1>1. /\ printed \in Seq(Documents) /\ IsList(taken)
      /\ CarefulUpTo(Len(taken)) => StreamInv
      /\ \A n \in 1..Len(taken) : CarefulUpTo(n) => InStep(n)
  BY DEF StepInv
<1>2. Len(taken) \in Nat /\ Len(printed) \in Nat
  BY <1>1, ListGrown
<1>3. /\ printed' \in Seq(Documents) /\ Len(printed') \in Nat /\ Len(printed') >= Len(printed)
      /\ \A k \in 1..Len(printed) : printed'[k] = printed[k]
  <2>1. CASE \E e \in Documents : WriteDocument(e)
    <3>1. PICK e \in Documents : printed' = Append(printed, e)
      BY <2>1 DEF WriteDocument
    <3> QED
      BY <1>1, <1>2, <3>1
  <2>2. CASE UNCHANGED printed
    BY <1>1, <1>2, <2>2
  <2> QED
    BY <2>1, <2>2 DEF ProgNext, ReadStream, ReadHeader, HeaderMissing, IndexStreamed,
                      EndOfStream, progVars
<1>4. /\ IsList(taken') /\ Len(taken') \in {Len(taken), Len(taken) + 1}
      /\ \A k \in 1..Len(taken) : taken'[k] = taken[k]
  <2>1. CASE \E x : taken' = Append(taken, x)
    BY <1>1, <2>1, ListGrown
  <2>2. CASE UNCHANGED taken
    BY <1>1, <1>2, <2>2
  <2> QED
    BY <2>1, <2>2 DEF ProgNext, ReadStream, ReadHeader, HeaderMissing, IndexStreamed,
                      EndOfStream, WriteDocument, progVars
<1>5. ASSUME NEW n \in Nat, NEW k \in Nat, n <= k, CarefulUpTo(k)' PROVE CarefulUpTo(n)
  BY <1>2, <1>3, <1>5 DEF CarefulUpTo
<1>6. ASSUME CarefulUpTo(Len(taken))' PROVE StreamInv'
  <2>1. Len(taken') \in Nat /\ Len(taken) <= Len(taken')
    BY <1>2, <1>4
  <2>2. CarefulUpTo(Len(taken))
    BY <1>2, <1>5, <1>6, <2>1
  <2> QED
    BY <1>1, <1>6, <2>2, StreamInvNext
<1>7. ASSUME NEW n \in 1..Len(taken'), CarefulUpTo(n)' PROVE InStep(n)'
  <2>1. CASE n <= Len(taken)
    <3>1. n \in 1..Len(taken) /\ CarefulUpTo(n)
      BY <1>2, <1>4, <1>5, <1>7, <2>1
    <3>2. InStep(n)
      BY <1>1, <3>1
    <3> QED
      BY <1>2, <1>3, <1>4, <3>1, <3>2 DEF InStep
  <2>2. CASE n > Len(taken)
    <3>1. n = Len(taken')
      BY <1>2, <1>4, <1>7, <2>2
    <3>2. CarefulUpTo(Len(taken))'
      BY <1>7, <3>1
    <3>3. StreamInv'
      BY <1>6, <3>2
    <3> QED
      BY <1>7, <3>1, <3>3 DEF StreamInv, TakenInv, InStep
  <2> QED
    BY <1>2, <1>4, <1>7, <2>1, <2>2
<1> QED
  BY <1>3, <1>4, <1>6, <1>7 DEF StepInv

(* Up to the first document that is not careful, whatever comes behind it: *)
(* the documents taken from a program are those it printed, each with its  *)
(* own headers, and content is never read as headers, however many it      *)
(* prints and whatever stops the reading of each: of extprog_indexpath,    *)
(* do_index_file and the parsers together.                                 *)
THEOREM StreamInStepAlways ==
  SourcesSpec => []StreamInStep
<1>1. ProgInit => StepInv
  <2> SUFFICES ASSUME ProgInit PROVE StepInv
    OBVIOUS
  <2>1. printed = <<>> /\ taken = <<>> /\ Len(taken) = 0 /\ StreamInv
    BY StreamInvInit DEF ProgInit
  <2>2. IsList(<<>>)
    BY DEF IsList
  <2> QED
    BY <2>1, <2>2 DEF StepInv
<1>2. StepInv => StreamInStep
  BY HeadersNext DEF StepInv, InStep, StreamInStep
<1> QED
  BY <1>1, <1>2, StepInvNext, SourcesProgram, PTL DEF ProgSpec
-----------------------------------------------------------------------------
(* Files: the entries of a directory in the order of their names.          *)

(* Sequences of the members of S, each once, by name.                      *)
InOrder(S, s) ==
  /\ s \in [1..Cardinality(S) -> S]
  /\ \A i, j \in 1..Cardinality(S) : i < j => s[i].name < s[j].name
  /\ \A e \in S : \E i \in 1..Cardinality(S) : s[i] = e

(* Entries of different names can be put in their order.                   *)
LEMMA OrderExists ==
  ASSUME NEW E, IsFiniteSet(E), \A e \in E : e.name \in Nat,
         \A e, f \in E : e.name = f.name => e = f
  PROVE  \E s : InOrder(E, s)
<1> DEFINE Good(n) == \A S \in SUBSET E : Cardinality(S) = n => \E s : InOrder(S, s)
           N == Cardinality(E)
           G == {n \in 0..N : Good(n)}
<1>1. N \in Nat
  BY FS_CardinalityType
<1>2. 0 \in G
  <2>1. ASSUME NEW S \in SUBSET E, Cardinality(S) = 0 PROVE \E s : InOrder(S, s)
    <3>1. S = {}
      BY <2>1, FS_Subset, FS_EmptySet
    <3> DEFINE s == [i \in 1..0 |-> 0]
    <3>2. InOrder(S, s)
      BY <2>1, <3>1 DEF InOrder
    <3> HIDE DEF s
    <3> QED
      BY <3>2
  <2> QED
    BY <1>1, <2>1
<1>3. ASSUME NEW n \in 0..(N - 1), n \in G PROVE n + 1 \in G
  <2>1. n \in Nat /\ n + 1 \in Nat /\ n + 1 \in 0..N /\ n + 1 # 0
    BY <1>1
  <2>2. ASSUME NEW S \in SUBSET E, Cardinality(S) = n + 1 PROVE \E s : InOrder(S, s)
    <3>1. IsFiniteSet(S) /\ S # {}
      BY <2>1, <2>2, FS_Subset, FS_EmptySet
    <3>2. PICK e \in S : \A f \in S : e.name <= f.name
      <4> DEFINE T == {f.name : f \in S}
      <4>1. T \in SUBSET Nat /\ T # {}
        BY <3>1
      <4>2. PICK k \in T : \A l \in T : k <= l
        <5> HIDE DEF T
        <5> QED
          BY <4>1, LeastNatural
      <4> QED
        BY <4>2
    <3> DEFINE R == S \ {e}
    <3>3. IsFiniteSet(R) /\ Cardinality(R) = n
      <4>1. IsFiniteSet(R) /\ Cardinality(R) = Cardinality(S) - 1
        BY <3>1, FS_RemoveElement
      <4> QED
        BY <2>1, <2>2, <4>1
    <3>4. PICK s : InOrder(R, s)
      BY <1>3, <3>3
    <3>5. /\ s \in [1..n -> R]
          /\ \A i, j \in 1..n : i < j => s[i].name < s[j].name
          /\ \A f \in R : \E i \in 1..n : s[i] = f
      BY <3>3, <3>4 DEF InOrder
    <3> DEFINE t == [i \in 1..(n + 1) |-> IF i = 1 THEN e ELSE s[i - 1]]
    <3>6. \A i \in 1..(n + 1) : i = 1 \/ i - 1 \in 1..n
      BY <2>1
    <3>7. t[1] = e /\ \A i \in 1..(n + 1) : i # 1 => t[i] = s[i - 1] /\ t[i] \in R
      BY <2>1, <3>5, <3>6
    <3>8. t \in [1..(n + 1) -> S]
      BY <2>1, <3>5, <3>6
    <3>9. \A f \in R : e.name < f.name
      <4> SUFFICES ASSUME NEW f \in R PROVE e.name < f.name
        OBVIOUS
      <4>1. e.name <= f.name /\ e.name # f.name /\ e.name \in Nat /\ f.name \in Nat
        BY <3>2
      <4> QED
        BY <4>1
    <3> HIDE DEF t
    <3>10. ASSUME NEW i \in 1..(n + 1), NEW j \in 1..(n + 1), i < j
           PROVE  t[i].name < t[j].name
      <4>1. j # 1 /\ j - 1 \in 1..n /\ t[j] = s[j - 1] /\ t[j] \in R
        BY <2>1, <3>6, <3>7, <3>10
      <4>2. CASE i = 1
        BY <3>7, <3>9, <4>1, <4>2
      <4>3. CASE i # 1
        <5>1. i - 1 \in 1..n /\ i - 1 < j - 1 /\ t[i] = s[i - 1]
          BY <2>1, <3>6, <3>7, <3>10, <4>3
        <5> QED
          BY <3>5, <4>1, <5>1
      <4> QED
        BY <4>2, <4>3
    <3>11. ASSUME NEW f \in S PROVE \E i \in 1..(n + 1) : t[i] = f
      <4>1. CASE f = e
        <5>1. 1 \in 1..(n + 1)
          BY <2>1
        <5> QED
          BY <3>7, <4>1, <5>1
      <4>2. CASE f # e
        <5>1. PICK i \in 1..n : s[i] = f
          BY <3>5, <4>2
        <5>2. i + 1 \in 1..(n + 1) /\ i + 1 # 1 /\ (i + 1) - 1 = i
          BY <2>1
        <5>3. t[i + 1] = f
          BY <3>7, <5>1, <5>2
        <5> QED
          BY <5>2, <5>3
      <4> QED
        BY <4>1, <4>2
    <3>12. InOrder(S, t)
      BY <2>2, <3>8, <3>10, <3>11 DEF InOrder
    <3> QED
      BY <3>12
  <2> QED
    BY <2>1, <2>2
<1>4. \A n \in 0..N : n \in G
  <2> HIDE DEF G, N
  <2> QED
    BY <1>1, <1>2, <1>3, UpTo
<1>5. N \in G
  BY <1>1, <1>4
<1> QED
  BY <1>5

(* Sorted has the members of its set and no others.                        *)
LEMMA SortedHas ==
  ASSUME NEW E, IsFiniteSet(E), \A e \in E : e.name \in Nat,
         \A e, f \in E : e.name = f.name => e = f
  PROVE  /\ Sorted(E) \in Seq(E)
         /\ \A e \in E : \E i \in 1..Len(Sorted(E)) : Sorted(E)[i] = e
<1> DEFINE n == Cardinality(E)
           ByName(s) == \A i, j \in DOMAIN s : i < j => s[i].name < s[j].name
<1>1. n \in Nat
  BY FS_CardinalityType
<1>2. PICK s : InOrder(E, s)
  BY OrderExists
<1>3. s \in SetToSeqs(E) /\ ByName(s)
  <2>1. s \in [1..n -> E] /\ DOMAIN s = 1..n
    BY <1>2 DEF InOrder
  <2>2. ASSUME NEW i \in 1..n, NEW j \in 1..n, i # j PROVE s[i] # s[j]
    <3>1. i < j \/ j < i
      BY <1>1, <2>2
    <3>2. s[i].name < s[j].name \/ s[j].name < s[i].name
      BY <1>2, <3>1 DEF InOrder
    <3>3. s[i].name \in Nat /\ s[j].name \in Nat
      BY <2>1
    <3> QED
      BY <3>2, <3>3
  <2> QED
    BY <1>2, <2>1, <2>2 DEF SetToSeqs, InOrder
<1>4. Sorted(E) \in SetToSeqs(E)
  <2>1. \E t \in SetToSeqs(E) : ByName(t)
    BY <1>3
  <2>2. Sorted(E) = CHOOSE t \in SetToSeqs(E) : ByName(t)
    BY DEF Sorted
  <2> HIDE DEF ByName
  <2> QED
    BY <2>1, <2>2
<1> DEFINE r == Sorted(E)
<1>5. r \in [1..n -> E] /\ \A i, j \in 1..n : i # j => r[i] # r[j]
  BY <1>4 DEF SetToSeqs
<1> HIDE DEF r
<1>6. r \in Seq(E) /\ Len(r) = n
  <2> HIDE DEF n
  <2> QED
    BY <1>1, <1>5
<1>7. \A e \in E : \E i \in 1..n : r[i] = e
  <2>1. r \in Injection(1..n, E)
    BY <1>5 DEF Injection, IsInjective
  <2>2. IsFiniteSet(1..n) /\ Cardinality(1..n) = n
    BY <1>1, FS_Interval
  <2>3. r \in Surjection(1..n, E)
    BY <2>1, <2>2, FS_Injection
  <2> QED
    BY <2>3 DEF Surjection
<1> QED
  BY <1>6, <1>7 DEF r

-----------------------------------------------------------------------------
(* Files: what is indexed, and what still has to be visited.               *)

Visits ==
  {[name |-> NoName, node |-> 1, link |-> FALSE]} \cup UNION {tree.entries[d] : d \in tree.dirs}
FsTypes ==
  /\ tree \in Trees /\ todo \in Seq(Visits) /\ seen \subseteq Inodes
  /\ tree.dirs \subseteq there /\ indexed \in Seq(Inodes)

(* The files met are those indexed, each once.                             *)
OnceInv ==
  /\ IsInjective(indexed)
  /\ ToSet(indexed) = seen \ tree.dirs

(* What a directory entered asks for has been met, or is to be visited.    *)
ToVisit(e) == \E i \in 1..Len(todo) : todo[i] = e
Awaits(e) == e.node \in seen \/ ToVisit(e)
RootInv ==
  1 \in seen \/ ToVisit([name |-> NoName, node |-> 1, link |-> FALSE])
Subdirs(d) ==
  {e \in tree.entries[d] :
     /\ Verdicts(d) # {"reject"}
     /\ Followed(e) /\ IsDirectory(e.node) /\ e.name \notin tree.dirRules}
FilesAsked(d) ==
  {e \in tree.entries[d] :
     /\ Verdicts(d) # {"reject"}
     /\ Followed(e) /\ ~IsDirectory(e.node) /\ Wanted(e, Verdicts(d) = {"allgood"})}
DirsInv == \A d \in seen \cap tree.dirs : \A e \in Subdirs(d) : Awaits(e)
FilesInv ==
  \A d \in seen \cap tree.dirs : \A e \in FilesAsked(d) : e.node \in there => Awaits(e)
FsInv == FsTypes /\ OnceInv /\ RootInv /\ (Unambiguous => DirsInv /\ FilesInv)

(* The tree is what it was.                                                *)
LEMMA SameTree ==
  ASSUME tree' = tree
  PROVE  /\ Unambiguous' = Unambiguous
         /\ DirsInv' = (\A d \in seen' \cap tree.dirs : \A e \in Subdirs(d) : Awaits(e)')
         /\ FilesInv' = (\A d \in seen' \cap tree.dirs :
                           \A e \in FilesAsked(d) : e.node \in there' => Awaits(e)')
<1>1. Unambiguous' = Unambiguous
  BY DEF Unambiguous, Verdicts, Names
<1>2. DirsInv' = (\A d \in seen' \cap tree.dirs : \A e \in Subdirs(d) : Awaits(e)')
  BY DEF DirsInv, Subdirs, Verdicts, Names, Followed, IsDirectory
<1>3. FilesInv' = (\A d \in seen' \cap tree.dirs :
                     \A e \in FilesAsked(d) : e.node \in there' => Awaits(e)')
  BY DEF FilesInv, FilesAsked, Verdicts, Names, Followed, IsDirectory, Wanted
<1> QED
  BY <1>1, <1>2, <1>3

(* The first one is visited, and what it leads to takes its place.         *)
HasThose(t, s, a) ==
  /\ \A i \in 1..Len(s) : s[i] = Head(s) \/ \E j \in 1..Len(t) : t[j] = s[i]
  /\ \A i \in 1..Len(a) : \E j \in 1..Len(t) : t[j] = a[i]
LEMMA Replaced ==
  ASSUME NEW X, NEW s \in Seq(X), s # <<>>, NEW a \in Seq(X),
         NEW t \in Seq(X), t = a \o Tail(s)
  PROVE  HasThose(t, s, a)
<1>0. Tail(s) \in Seq(X)
  OBVIOUS
<1>1. PICK r \in Seq(X) : r = Tail(s)
  BY <1>0
<1>2. Len(s) \in Nat /\ Len(s) # 0 /\ Len(r) = Len(s) - 1
  BY <1>1
<1>3. t = a \o r
  BY <1>1
<1>5. Len(t) = Len(a) + Len(r)
  <2>1. Len(a \o r) = Len(a) + Len(r)
    OBVIOUS
  <2> QED
    BY <1>3, <2>1
<1>6. \A i \in 1..Len(a) : t[i] = a[i]
  BY <1>3
<1>7. \A i \in 1..Len(r) : t[Len(a) + i] = r[i]
  BY <1>3
<1>8. Len(a) \in Nat /\ Len(r) \in Nat
  OBVIOUS
<1>9. ASSUME NEW i \in 1..Len(s), i # 1
      PROVE  \E j \in 1..Len(t) : t[j] = s[i]
  <2>1. i - 1 \in 1..Len(r)
    BY <1>2, <1>9
  <2>2. r[i - 1] = s[i]
    BY <1>1, <1>2, <1>9
  <2>3. Len(a) + (i - 1) \in 1..Len(t)
    BY <1>5, <1>8, <2>1
  <2> QED
    BY <1>7, <2>1, <2>2, <2>3
<1>10. ASSUME NEW i \in 1..Len(a)
       PROVE  \E j \in 1..Len(t) : t[j] = a[i]
  <2>1. i \in 1..Len(t)
    BY <1>5, <1>8
  <2> QED
    BY <1>6, <2>1
<1>11. Head(s) = s[1]
  OBVIOUS
<1> QED
  BY <1>9, <1>10, <1>11 DEF HasThose

(* The root of the tree.                                                   *)
Root == [name |-> NoName, node |-> 1, link |-> FALSE]

(* What is awaited still is, or has been met, when the first one has been  *)
(* visited.                                                                *)
LEMMA StillAwaited ==
  ASSUME FsTypes, todo # <<>>, NEW a \in Seq(Visits), todo' = a \o Tail(todo),
         seen \subseteq seen', tree' = tree
  PROVE  /\ todo' \in Seq(Visits)
         /\ \A f : Awaits(f) => f = Head(todo) \/ Awaits(f)'
         /\ \A i \in 1..Len(a) : ToVisit(a[i])'
<1>1. todo \in Seq(Visits)
  BY DEF FsTypes
<1> DEFINE V == Visits
<1>2. /\ todo' \in Seq(V)
      /\ \A i \in 1..Len(todo) :
           todo[i] = Head(todo) \/ \E j \in 1..Len(todo') : todo'[j] = todo[i]
      /\ \A i \in 1..Len(a) : \E j \in 1..Len(todo') : todo'[j] = a[i]
  <2>1. todo \in Seq(V) /\ a \in Seq(V) /\ todo # <<>>
    BY <1>1
  <2>2. PICK t : t = todo'
    OBVIOUS
  <2>3. t = a \o Tail(todo)
    BY <2>2
  <2>5. Tail(todo) \in Seq(V)
    BY <2>1
  <2>6. t \in Seq(V)
    BY <2>1, <2>3, <2>5
  <2> HIDE DEF V
  <2>4. HasThose(t, todo, a)
    BY <2>1, <2>3, <2>6, Replaced
  <2> QED
    BY <2>2, <2>4, <2>6 DEF HasThose
<1> QED
  BY <1>2, ZenonT(60) DEF Awaits, ToVisit

(* Directories: entries of different names, finitely many.                 *)
LEMMA EntriesSorted ==
  ASSUME FsTypes, NEW d \in tree.dirs, NEW E \in SUBSET tree.entries[d]
  PROVE  /\ Sorted(E) \in Seq(Visits)
         /\ \A e \in E : \E i \in 1..Len(Sorted(E)) : Sorted(E)[i] = e
<1>1. /\ IsFiniteSet(tree.entries[d])
      /\ \A e \in tree.entries[d] : e.name \in Nat
      /\ \A e, f \in tree.entries[d] : e.name = f.name => e = f
  BY TreesAssumption DEF FsTypes
<1>2. IsFiniteSet(E)
  BY <1>1, FS_Subset
<1>3. /\ Sorted(E) \in Seq(E)
      /\ \A e \in E : \E i \in 1..Len(Sorted(E)) : Sorted(E)[i] = e
  BY <1>1, <1>2, SortedHas
<1>4. E \subseteq Visits
  BY DEF Visits
<1> QED
  BY <1>3, <1>4

(* A directory is visited.                                                 *)
LEMMA FsInvDirectory ==
  ASSUME FsInv, IndexADir
  PROVE  FsInv'
<1> USE DEF FsInv
<1>1. PICK e : e = Head(todo)
  OBVIOUS
<1>2. PICK d : d = e.node
  OBVIOUS
<1>3. /\ todo # <<>> /\ e \in Visits /\ d \in tree.dirs
      /\ tree' = tree /\ there' = there /\ indexed' = indexed
  BY <1>1, <1>2 DEF IndexADir, IsDirectory, FsTypes
<1>4. seen' = seen \cup Entered(e).marked
  BY <1>1 DEF IndexADir
<1>5. PICK new \in BOOLEAN : new <=> e.name \notin tree.dirRules /\ d \notin seen
  OBVIOUS
<1>6. Entered(e).entered = new /\ Entered(e).marked = IF new THEN {d} ELSE {}
  BY <1>2, <1>5 DEF Entered
<1>7. seen' = IF new THEN seen \cup {d} ELSE seen
  BY <1>4, <1>6
<1>8. PICK a \in Seq(Visits) :
        /\ todo' = a \o Tail(todo)
        /\ new => \E test \in Verdicts(d) : test # "reject" =>
             /\ \A f \in FilesOf(d, test = "allgood") : \E i \in 1..Len(a) : a[i] = f
             /\ \A f \in DirsOf(d) : \E i \in 1..Len(a) : a[i] = f
  <2>1. CASE ~new
    <3>1. todo' = Tail(todo)
      BY <1>1, <1>6, <2>1 DEF IndexADir
    <3>2. Tail(todo) \in Seq(Visits) /\ <<>> \in Seq(Visits)
      BY <1>3 DEF FsTypes
    <3>3. <<>> \o Tail(todo) = Tail(todo)
      BY <3>2, EmptySequence
    <3> QED
      BY <2>1, <3>1, <3>2, <3>3
  <2>2. CASE new
    <3>1. PICK test \in Verdicts(d) :
            todo' = (IF test = "reject" THEN <<>>
                     ELSE Sorted(FilesOf(d, test = "allgood")) \o Sorted(DirsOf(d)))
                      \o Tail(todo)
      BY <1>1, <1>2, <1>6, <2>2 DEF IndexADir
    <3>2. CASE test = "reject"
      <4>1. <<>> \in Seq(Visits) /\ todo' = <<>> \o Tail(todo)
        BY <3>1, <3>2
      <4> QED
        BY <2>2, <3>2, <4>1
    <3>3. CASE test # "reject"
      <4>1. FilesOf(d, test = "allgood") \in SUBSET tree.entries[d]
            /\ DirsOf(d) \in SUBSET tree.entries[d]
        BY DEF FilesOf, DirsOf
      <4> DEFINE F == FilesOf(d, test = "allgood")
                 D == DirsOf(d)
                 b == Sorted(F)
                 c == Sorted(D)
      <4>2. /\ b \in Seq(Visits) /\ c \in Seq(Visits)
            /\ \A f \in F : \E i \in 1..Len(b) : b[i] = f
            /\ \A f \in D : \E i \in 1..Len(c) : c[i] = f
        <5> HIDE DEF F, D
        <5>1. F \in SUBSET tree.entries[d] /\ D \in SUBSET tree.entries[d]
          BY <4>1 DEF F, D
        <5> QED
          BY <1>3, <5>1, EntriesSorted
      <4>3. todo' = (b \o c) \o Tail(todo)
        BY <3>1, <3>3
      <4> HIDE DEF b, c
      <4>4. b \o c \in Seq(Visits)
        BY <4>2
      <4>5. /\ \A i \in 1..Len(b) : \E j \in 1..Len(b \o c) : (b \o c)[j] = b[i]
            /\ \A i \in 1..Len(c) : \E j \in 1..Len(b \o c) : (b \o c)[j] = c[i]
        <5>1. ASSUME NEW i \in 1..Len(b) PROVE \E j \in 1..Len(b \o c) : (b \o c)[j] = b[i]
          <6>1. i \in 1..Len(b \o c) /\ (b \o c)[i] = b[i]
            BY <4>2
          <6> QED
            BY <6>1
        <5>2. ASSUME NEW i \in 1..Len(c) PROVE \E j \in 1..Len(b \o c) : (b \o c)[j] = c[i]
          <6>1. Len(b) + i \in 1..Len(b \o c) /\ (b \o c)[Len(b) + i] = c[i]
            BY <4>2
          <6> QED
            BY <6>1
        <5> QED
          BY <5>1, <5>2
      <4>6. \A f \in F : \E j \in 1..Len(b \o c) : (b \o c)[j] = f
        BY <4>2, <4>5
      <4>7. ASSUME NEW f \in D PROVE \E j \in 1..Len(b \o c) : (b \o c)[j] = f
        <5>1. PICK i \in 1..Len(c) : c[i] = f
          BY <4>2
        <5>2. PICK j \in 1..Len(b \o c) : (b \o c)[j] = c[i]
          BY <4>5
        <5> QED
          BY <5>1, <5>2
      <4>8. PICK a \in Seq(Visits) : a = b \o c
        BY <4>4
      <4> QED
        BY <3>3, <4>3, <4>6, <4>7, <4>8
    <3> QED
      BY <3>2, <3>3
  <2> QED
    BY <2>1, <2>2
<1>9. /\ todo' \in Seq(Visits)
      /\ \A f : Awaits(f) => f = e \/ Awaits(f)'
      /\ \A i \in 1..Len(a) : ToVisit(a[i])'
  <2>1. seen \subseteq seen'
    BY <1>7
  <2> QED
    BY <1>1, <1>3, <1>8, <2>1, StillAwaited
<1>10. \A f : Awaits(f) /\ (f.node \in tree.dirs => f.name \notin tree.dirRules) => Awaits(f)'
  <2> SUFFICES ASSUME NEW f, Awaits(f), f.node \in tree.dirs => f.name \notin tree.dirRules
               PROVE  Awaits(f)'
    OBVIOUS
  <2>1. CASE f = e
    BY <1>2, <1>3, <1>5, <1>7, <2>1 DEF Awaits
  <2> QED
    BY <1>9, <2>1
<1>11. FsTypes'
  <2>1. Visits' = Visits
    BY <1>3 DEF Visits
  <2>2. d \in Inodes
    BY <1>3, TreesAssumption DEF FsTypes
  <2> QED
    BY <1>3, <1>7, <1>9, <2>1, <2>2 DEF FsTypes
<1>12. OnceInv'
  BY <1>3, <1>7 DEF OnceInv
<1>13. RootInv'
  <2>1. Root.node = 1 /\ Root.name = NoName
    BY DEF Root
  <2>2. Awaits(Root)
    BY <2>1 DEF RootInv, Awaits, Root
  <2>3. NoName \notin tree.dirRules
    BY TreesAssumption DEF FsTypes
  <2>4. Awaits(Root)'
    BY <1>10, <2>1, <2>2, <2>3
  <2> QED
    BY <2>1, <2>4 DEF RootInv, Awaits, Root
<1>14. ASSUME Unambiguous' PROVE DirsInv' /\ FilesInv'
  <2>1. Unambiguous /\ DirsInv /\ FilesInv
    BY <1>3, <1>14, SameTree
  <2>2. ASSUME new, Verdicts(d) # {"reject"}
        PROVE  \E test \in Verdicts(d) : test # "reject" /\ Verdicts(d) = {test} /\
             /\ \A f \in FilesOf(d, test = "allgood") : \E i \in 1..Len(a) : a[i] = f
             /\ \A f \in DirsOf(d) : \E i \in 1..Len(a) : a[i] = f
    <3>1. PICK test \in Verdicts(d) : test # "reject" =>
             /\ \A f \in FilesOf(d, test = "allgood") : \E i \in 1..Len(a) : a[i] = f
             /\ \A f \in DirsOf(d) : \E i \in 1..Len(a) : a[i] = f
      BY <1>8, <2>2
    <3>2. Verdicts(d) = {test}
      <4>1. IsFiniteSet(Verdicts(d))
        <5>1. IsFiniteSet({"reject", "allgood", "neither"})
          <6>1. IsFiniteSet({"reject"})
            BY FS_Singleton
          <6>2. IsFiniteSet({"reject"} \cup {"allgood"})
            BY <6>1, FS_AddElement
          <6>3. IsFiniteSet(({"reject"} \cup {"allgood"}) \cup {"neither"})
            BY <6>2, FS_AddElement
          <6>4. {"reject", "allgood", "neither"} = ({"reject"} \cup {"allgood"}) \cup {"neither"}
            OBVIOUS
          <6> QED
            BY <6>3, <6>4
        <5>2. Verdicts(d) \subseteq {"reject", "allgood", "neither"}
          BY DEF Verdicts
        <5> QED
          BY <5>1, <5>2, FS_Subset
      <4>2. Cardinality(Verdicts(d)) = 1
        BY <1>3, <2>1 DEF Unambiguous
      <4>3. PICK x : Verdicts(d) = {x}
        BY <4>1, <4>2, FS_Singleton
      <4> QED
        BY <4>3
    <3> QED
      BY <2>2, <3>1, <3>2
  <2>3. ASSUME NEW c \in seen' \cap tree.dirs, NEW f \in Subdirs(c) PROVE Awaits(f)'
    <3>1. CASE c \in seen
      <4>1. Awaits(f)
        BY <2>1, <2>3, <3>1 DEF DirsInv
      <4> QED
        BY <1>10, <4>1 DEF Subdirs
    <3>2. CASE c \notin seen
      <4>1. c = d /\ new
        BY <1>7, <3>2
      <4>2. Verdicts(d) # {"reject"} /\ f \in DirsOf(d)
        BY <4>1 DEF Subdirs, DirsOf, FsTypes, IsDirectory
      <4>3. PICK i \in 1..Len(a) : a[i] = f
        BY <2>2, <4>1, <4>2
      <4>4. ToVisit(a[i])'
        BY <1>9
      <4> QED
        BY <4>3, <4>4 DEF Awaits, ToVisit
    <3> QED
      BY <3>1, <3>2
  <2>4. ASSUME NEW c \in seen' \cap tree.dirs, NEW f \in FilesAsked(c), f.node \in there'
        PROVE Awaits(f)'
    <3>1. CASE c \in seen
      <4>1. Awaits(f)
        BY <1>3, <2>1, <2>4, <3>1 DEF FilesInv
      <4> QED
        BY <1>10, <4>1 DEF FilesAsked, IsDirectory
    <3>2. CASE c \notin seen
      <4>1. c = d /\ new
        BY <1>7, <3>2
      <4>2. Verdicts(d) # {"reject"}
        BY <4>1 DEF FilesAsked
      <4>3. PICK test \in Verdicts(d) : test # "reject" /\ Verdicts(d) = {test} /\
             \A g \in FilesOf(d, test = "allgood") : \E i \in 1..Len(a) : a[i] = g
        BY <2>2, <4>1, <4>2
      <4>4. f \in FilesOf(d, test = "allgood")
        <5>1. (Verdicts(d) = {"allgood"}) <=> (test = "allgood")
          BY <4>3
        <5>2. Wanted(f, Verdicts(d) = {"allgood"}) => Wanted(f, test = "allgood")
          BY <5>1 DEF Wanted
        <5> QED
          BY <1>3, <2>4, <4>1, <5>2 DEF FilesAsked, FilesOf
      <4>5. PICK i \in 1..Len(a) : a[i] = f
        BY <4>3, <4>4
      <4>6. ToVisit(a[i])'
        BY <1>9
      <4> QED
        BY <4>5, <4>6 DEF Awaits, ToVisit
    <3> QED
      BY <3>1, <3>2
  <2> QED
    BY <1>3, <2>3, <2>4, SameTree
<1> QED
  BY <1>11, <1>12, <1>13, <1>14

(* A file is visited.                                                      *)
LEMMA FsInvFile ==
  ASSUME FsInv, PrintFile
  PROVE  FsInv'
<1> USE DEF FsInv
<1>1. PICK e : e = Head(todo)
  OBVIOUS
<1>2. PICK node : node = e.node
  OBVIOUS
<1>3. /\ todo # <<>> /\ e \in Visits /\ node \notin tree.dirs
      /\ tree' = tree /\ there' = there /\ todo' = Tail(todo)
  BY <1>1, <1>2 DEF PrintFile, IsDirectory, FsTypes
<1>4. PICK new \in BOOLEAN : new <=> node \notin seen /\ node \in there
  OBVIOUS
<1>5. /\ seen' = IF new THEN seen \cup {node} ELSE seen
      /\ indexed' = IF new THEN Append(indexed, node) ELSE indexed
  BY <1>1, <1>2, <1>4 DEF PrintFile, FileMarked
<1>6. /\ todo' \in Seq(Visits)
      /\ \A f : Awaits(f) => f = e \/ Awaits(f)'
  <2>1. <<>> \in Seq(Visits) /\ Tail(todo) \in Seq(Visits)
    BY <1>3 DEF FsTypes
  <2>2. todo' = <<>> \o Tail(todo)
    BY <1>3, <2>1, EmptySequence
  <2>3. seen \subseteq seen'
    BY <1>5
  <2> QED
    BY <1>1, <1>3, <2>1, <2>2, <2>3, StillAwaited
<1>7. \A f : Awaits(f) /\ f # e => Awaits(f)'
  BY <1>6
<1>8. \A f : f = e /\ f.node \in there => Awaits(f)'
  BY <1>2, <1>4, <1>5 DEF Awaits
<1>9. node \in Inodes
  <2>1. CASE e = Root
    BY <1>2, <1>3, <2>1, TreesAssumption DEF FsTypes, Root
  <2>2. CASE e # Root
    <3>1. PICK d \in tree.dirs : e \in tree.entries[d]
      BY <1>3, <2>2 DEF Visits, Root
    <3> QED
      BY <1>2, <3>1, TreesAssumption DEF FsTypes
  <2> QED
    BY <2>1, <2>2
<1>10. FsTypes'
  <2>1. Visits' = Visits
    BY <1>3 DEF Visits
  <2>2. indexed' \in Seq(Inodes)
    BY <1>5, <1>9 DEF FsTypes
  <2> QED
    BY <1>3, <1>5, <1>6, <1>9, <2>1, <2>2 DEF FsTypes
<1>11. OnceInv'
  <2>1. CASE new
    <3>1. indexed \in Seq(Inodes) /\ indexed' = Append(indexed, node)
      BY <1>5, <2>1 DEF FsTypes
    <3>2. Len(indexed) \in Nat /\ Len(indexed') = Len(indexed) + 1
      BY <1>9, <3>1
    <3>3. indexed'[Len(indexed) + 1] = node /\ \A i \in 1..Len(indexed) : indexed'[i] = indexed[i]
      BY <1>9, <3>1
    <3>4. DOMAIN indexed = 1..Len(indexed) /\ DOMAIN indexed' = 1..Len(indexed')
      BY <1>9, <3>1
    <3>5. \A i \in 1..Len(indexed) : indexed[i] # node
      BY <1>4, <2>1, <3>4 DEF OnceInv, ToSet
    <3>6. \A i \in 1..Len(indexed') : i \in 1..Len(indexed) \/ i = Len(indexed) + 1
      BY <3>2
    <3>7. IsInjective(indexed)'
      <4>1. \A i, j \in 1..Len(indexed) : indexed[i] = indexed[j] => i = j
        BY <3>4 DEF OnceInv, IsInjective
      <4>2. \A i, j \in 1..Len(indexed') : indexed'[i] = indexed'[j] => i = j
        BY <3>3, <3>5, <3>6, <4>1
      <4> QED
        BY <3>4, <4>2 DEF IsInjective
    <3>8. ToSet(indexed') = ToSet(indexed) \cup {node}
      <4>1. Len(indexed) + 1 \in 1..Len(indexed') /\ \A i \in 1..Len(indexed) : i \in 1..Len(indexed')
        BY <3>2
      <4> QED
        BY <3>3, <3>4, <3>6, <4>1 DEF ToSet
    <3>9. seen' \ tree'.dirs = (seen \ tree.dirs) \cup {node}
      BY <1>3, <1>5, <2>1
    <3> QED
      BY <3>7, <3>8, <3>9 DEF OnceInv
  <2>2. CASE ~new
    BY <1>3, <1>5, <2>2 DEF OnceInv
  <2> QED
    BY <2>1, <2>2
<1>12. RootInv'
  <2>1. Root.node = 1 /\ 1 \in tree.dirs
    BY TreesAssumption DEF Root, FsTypes
  <2>2. Awaits(Root)
    BY <2>1 DEF RootInv, Awaits, Root
  <2>3. Awaits(Root)'
    BY <1>2, <1>3, <1>7, <2>1, <2>2
  <2> QED
    BY <2>1, <2>3 DEF RootInv, Awaits, Root
<1>13. ASSUME Unambiguous' PROVE DirsInv' /\ FilesInv'
  <2>1. Unambiguous /\ DirsInv /\ FilesInv
    BY <1>3, <1>13, SameTree
  <2>2. seen' \cap tree.dirs = seen \cap tree.dirs
    BY <1>3, <1>5
  <2>3. ASSUME NEW c \in seen' \cap tree.dirs, NEW f \in Subdirs(c) PROVE Awaits(f)'
    <3>1. Awaits(f) /\ f.node \in tree.dirs
      BY <2>1, <2>2, <2>3 DEF DirsInv, Subdirs, IsDirectory
    <3> QED
      BY <1>2, <1>3, <1>7, <3>1
  <2>4. ASSUME NEW c \in seen' \cap tree.dirs, NEW f \in FilesAsked(c), f.node \in there'
        PROVE Awaits(f)'
    <3>1. Awaits(f) /\ f.node \in there
      BY <1>3, <2>1, <2>2, <2>4 DEF FilesInv
    <3> QED
      BY <1>7, <1>8, <3>1
  <2> QED
    BY <1>3, <2>3, <2>4, SameTree
<1> QED
  BY <1>10, <1>11, <1>12, <1>13

(* A file is removed by somebody, or nothing happens.                      *)
LEMMA FsInvOther ==
  ASSUME FsInv, Disappear \/ UNCHANGED fsVars
  PROVE  FsInv'
<1> USE DEF FsInv
<1>1. /\ UNCHANGED <<tree, todo, seen, indexed>>
      /\ there' \subseteq there /\ tree.dirs \subseteq there'
  BY DEF Disappear, fsVars, FsTypes
<1>2. \A f : Awaits(f)' = Awaits(f)
  BY <1>1 DEF Awaits, ToVisit
<1>3. FsTypes'
  <2>1. Visits' = Visits
    BY <1>1 DEF Visits
  <2> QED
    BY <1>1, <2>1 DEF FsTypes
<1>4. OnceInv' /\ RootInv'
  BY <1>1 DEF OnceInv, RootInv, ToVisit
<1>5. ASSUME Unambiguous' PROVE DirsInv' /\ FilesInv'
  <2>1. Unambiguous /\ DirsInv /\ FilesInv
    BY <1>1, <1>5, SameTree
  <2>2. \A c \in seen' \cap tree.dirs : \A f \in Subdirs(c) : Awaits(f)'
    BY <1>1, <1>2, <2>1 DEF DirsInv
  <2>3. \A c \in seen' \cap tree.dirs : \A f \in FilesAsked(c) : f.node \in there' => Awaits(f)'
    BY <1>1, <1>2, <2>1 DEF FilesInv
  <2> QED
    BY <1>1, <2>2, <2>3, SameTree
<1> QED
  BY <1>3, <1>4, <1>5

(* At first.                                                               *)
LEMMA FsInvInit ==
  FsInit => FsInv
<1> SUFFICES ASSUME FsInit PROVE FsInv
  OBVIOUS
<1>1. /\ tree \in Trees /\ todo = <<Root>> /\ seen = {} /\ there = Inodes /\ indexed = <<>>
  BY DEF FsInit, Root
<1>2. FsTypes
  <2>1. Root \in Visits
    BY DEF Root, Visits
  <2>2. todo \in Seq(Visits)
    BY <1>1, <2>1
  <2>3. tree.dirs \subseteq Inodes
    BY <1>1, TreesAssumption
  <2> QED
    BY <1>1, <2>2, <2>3 DEF FsTypes
<1>3. OnceInv
  BY <1>1 DEF OnceInv, IsInjective, ToSet
<1>4. RootInv
  <2>1. 1 \in 1..Len(todo) /\ todo[1] = Root
    BY <1>1
  <2> QED
    BY <2>1 DEF RootInv, ToVisit, Root
<1>5. DirsInv /\ FilesInv
  BY <1>1 DEF DirsInv, FilesInv
<1> QED
  BY <1>2, <1>3, <1>4, <1>5 DEF FsInv

(* Every step.                                                             *)
LEMMA FsInvNext ==
  FsInv /\ [FsNext]_fsVars => FsInv'
BY FsInvDirectory, FsInvFile, FsInvOther DEF FsNext

(* When nothing is left to be visited, all directories to be entered have  *)
(* been.                                                                   *)
LEMMA ReachedSeen ==
  ASSUME FsInv, FsDone, Unambiguous
  PROVE  Reached \subseteq seen \cap tree.dirs
<1> DEFINE Further(D) ==
             D \cup {e.node : e \in {f \in UNION {tree.entries[d] :
                                       d \in {c \in D : Verdicts(c) # {"reject"}}} :
                                      /\ Followed(f) /\ IsDirectory(f.node)
                                      /\ f.name \notin tree.dirRules}}
           N == Cardinality(tree.dirs)
           S == SUBSET tree.dirs
           reached[n \in 0..N] ==
             IF n = 0 THEN {1} ELSE LET D == reached[n - 1] IN Further(D)
           onward == [i \in 1..N |-> [D \in S |-> Further(D)]]
<1>1. Reached = reached[N]
  BY DEF Reached
<1>2. IsFiniteSet(tree.dirs) /\ 1 \in tree.dirs /\ {1} \in S
  BY TreesAssumption DEF FsInv, FsTypes
<1>3. N \in Nat
  BY <1>2, FS_CardinalityType
<1>4. \A D \in S : Further(D) \in S
  BY DEF IsDirectory
<1>5. onward \in [1..N -> [S -> S]]
  <2> HIDE DEF N, S, Further
  <2> QED
    BY <1>4
<1>6. PICK g : FoldOf(g, N, S, {1}, onward)
  <2> HIDE DEF onward, N, S
  <2> QED
    BY <1>2, <1>3, <1>5, FoldExists
<1>7. g \in [0..N -> S] /\ g[0] = {1}
  <2> HIDE DEF onward, N, S, reached
  <2> QED
    BY <1>6 DEF FoldOf
<1>8. \A i \in 1..N : g[i] = Further(g[i - 1])
  <2> SUFFICES ASSUME NEW i \in 1..N PROVE g[i] = Further(g[i - 1])
    OBVIOUS
  <2>1. g[i] = onward[i][g[i - 1]]
    <3> HIDE DEF onward, N, S, Further, reached
    <3> QED
      BY <1>6 DEF FoldOf
  <2>2. i - 1 \in 0..N
    <3> HIDE DEF N
    <3> QED
      BY <1>3
  <2>3. g[i - 1] \in S
    <3> HIDE DEF N, S
    <3> QED
      BY <1>7, <2>2
  <2>4. onward[i][g[i - 1]] = Further(g[i - 1])
    <3> HIDE DEF N, S, Further
    <3> QED
      BY <2>3
  <2> QED
    BY <2>1, <2>4
<1>9. g = [n \in 0..N |-> IF n = 0 THEN {1} ELSE Further(g[n - 1])]
  <2> HIDE DEF N, S, Further, onward, reached
  <2> DEFINE h == [n \in 0..N |-> IF n = 0 THEN {1} ELSE Further(g[n - 1])]
  <2>1. \A n \in 0..N : n = 0 \/ n \in 1..N
    BY <1>3
  <2>2. \A n \in 0..N : g[n] = h[n]
    BY <1>7, <1>8, <2>1
  <2> QED
    BY <1>7, <2>2
<1>10. reached = [n \in 0..N |-> IF n = 0 THEN {1} ELSE Further(reached[n - 1])]
  <2> HIDE DEF N, Further
  <2> QED
    BY <1>9
<1>11. /\ reached[0] = {1}
       /\ \A n \in 1..N : reached[n] = Further(reached[n - 1])
  <2> HIDE DEF reached, N, Further
  <2>1. \A n \in 0..N : reached[n] = IF n = 0 THEN {1} ELSE Further(reached[n - 1])
    BY Zenon, <1>10
  <2>2. 0 \in 0..N /\ \A n \in 1..N : n \in 0..N /\ n # 0
    BY <1>3
  <2> QED
    BY <2>1, <2>2
<1>12. ~ToVisit(Root) /\ \A f : ~ToVisit(f)
  BY DEF FsDone, ToVisit
<1>13. 1 \in seen
  BY <1>12 DEF FsInv, RootInv, Root
<1>14. ASSUME NEW D \in SUBSET (seen \cap tree.dirs)
       PROVE  Further(D) \subseteq seen \cap tree.dirs
  <2>1. ASSUME NEW d \in D, Verdicts(d) # {"reject"}, NEW f \in tree.entries[d],
               Followed(f), IsDirectory(f.node), f.name \notin tree.dirRules
        PROVE  f.node \in seen \cap tree.dirs
    <3>1. f \in Subdirs(d)
      BY <2>1 DEF Subdirs
    <3>2. Awaits(f)
      BY <3>1 DEF FsInv, DirsInv
    <3> QED
      BY <1>12, <2>1, <3>2 DEF Awaits, IsDirectory
  <2> QED
    BY <2>1
<1> HIDE DEF reached, N, Further
<1> DEFINE G == {n \in 0..N : reached[n] \subseteq seen \cap tree.dirs}
<1>15. 0 \in G
  BY <1>2, <1>3, <1>11, <1>13
<1>16. ASSUME NEW n \in 0..(N - 1), n \in G PROVE n + 1 \in G
  <2>1. n + 1 \in 1..N /\ (n + 1) - 1 = n /\ n + 1 \in 0..N
    BY <1>3
  <2>2. reached[n + 1] = Further(reached[n])
    BY <1>11, <2>1
  <2>3. reached[n] \in SUBSET (seen \cap tree.dirs)
    BY <1>16
  <2> QED
    BY <1>14, <2>1, <2>2, <2>3
<1>17. \A n \in 0..N : n \in G
  <2> HIDE DEF G
  <2> QED
    BY <1>3, <1>15, <1>16, UpTo
<1>18. N \in 0..N
  BY <1>3
<1> QED
  BY <1>1, <1>17, <1>18

(* The invariant gives the property.                                       *)
LEMMA FsInvGives ==
  FsInv => EveryFileOnce
<1> SUFFICES ASSUME FsInv PROVE EveryFileOnce
  OBVIOUS
<1>1. ASSUME FsDone, Unambiguous, NEW d \in Reached, NEW x \in AskedFor(d), x \in there
      PROVE  x \in ToSet(indexed)
  <2>1. d \in seen \cap tree.dirs
    BY <1>1, ReachedSeen
  <2>2. PICK e \in FilesAsked(d) : e.node = x
    BY <1>1 DEF AskedFor, FilesAsked
  <2>3. Awaits(e)
    BY <1>1, <2>1, <2>2 DEF FsInv, FilesInv
  <2>4. ~ToVisit(e)
    BY <1>1 DEF FsDone, ToVisit
  <2>5. x \in seen /\ x \notin tree.dirs
    BY <2>2, <2>3, <2>4 DEF Awaits, FilesAsked, IsDirectory
  <2> QED
    BY <2>5 DEF FsInv, OnceInv
<1> QED
  BY <1>1 DEF EveryFileOnce, FsInv, OnceInv

(* No file is indexed twice, whatever links lead to it, and when all has   *)
(* been visited every file the rules ask for has been indexed, or has      *)
(* disappeared: for every file system whose directories have distinct      *)
(* names, of indexadir, printfile and fs_already_indexed of fs.c.          *)
THEOREM EveryFileOnceAlways ==
  SourcesSpec => []EveryFileOnce
<1>1. SourcesInit => FsInv
  BY FsInvInit DEF SourcesInit, FsUnused
<1>2. FsInv /\ [SourcesNext]_sourcesVars => FsInv'
  <2>1. [SourcesNext]_sourcesVars => [FsNext]_fsVars
    BY DEF SourcesNext, IndexPath, Others, FromFiles, FromWeb, FromProgram, sourcesVars, FsNext
  <2> QED
    BY <2>1, FsInvNext
<1> QED
  BY <1>1, <1>2, FsInvGives, PTL DEF SourcesSpec

-----------------------------------------------------------------------------
(* The spider: robots.txt.                                                 *)

IsRobots(file) ==
  /\ Len(file) \in Nat
  /\ \A i \in 1..Len(file) : file[i].field \in {"agent", "disallow"}

(* The state behind line i: the kind of that line, and whether one of the  *)
(* agents in force is everybody.                                           *)
LastLine(file, i) ==
  IF i = 0 THEN "start" ELSE IF file[i].field = "agent" THEN "agent" ELSE "disallow"
ForAll(file, i) == IF "*" \in AgentsOf(file, i + 1) THEN "generic" ELSE "skipping"
NotYet(file, i) == \A g \in Specific(file) : i < g
First(file) == CHOOSE f \in Specific(file) : \A g \in Specific(file) : f <= g

(* The rules of the lines up to i, for everybody and behind line f.        *)
GenericUpTo(file, i) ==
  {file[k].value : k \in {d \in Field(file, "disallow") :
                            d <= i /\ "*" \in AgentsOf(file, d)}} \ {NoValue}
SpecificUpTo(file, f, i) ==
  {file[k].value : k \in {d \in Field(file, "disallow") :
                            d <= i /\ f < d /\ ~NewRecord(file, f, d)}} \ {NoValue}

(* What the parser knows behind line i: before its own agent was named, in *)
(* its own record, and behind that.                                        *)
ParsedTo(file, i, s) ==
  \/ /\ NotYet(file, i)
     /\ s = [state |-> LastLine(file, i), of |-> ForAll(file, i), rules |-> GenericUpTo(file, i)]
  \/ /\ ~NotYet(file, i) /\ ~NewRecord(file, First(file), i + 1)
     /\ s = [state |-> LastLine(file, i), of |-> "specific",
             rules |-> SpecificUpTo(file, First(file), i)]
  \/ /\ ~NotYet(file, i) /\ NewRecord(file, First(file), i + 1)
     /\ s = [state |-> "done", of |-> "specific",
             rules |-> SpecificUpTo(file, First(file), i)]

(* The agents in force behind a line.                                      *)
LEMMA AgentsInForce ==
  ASSUME NEW file, IsRobots(file), NEW i \in Nat, i + 1 \in 1..Len(file)
  PROVE  /\ file[i + 1].field = "disallow" =>
              AgentsOf(file, i + 2) = AgentsOf(file, i + 1)
         /\ file[i + 1].field = "agent" /\ LastLine(file, i) # "disallow" =>
              AgentsOf(file, i + 2) = AgentsOf(file, i + 1) \cup {file[i + 1].value}
         /\ file[i + 1].field = "agent" /\ LastLine(file, i) = "disallow" =>
              AgentsOf(file, i + 2) = {file[i + 1].value}
<1> DEFINE A == Field(file, "agent")
           D == Field(file, "disallow")
           New(j, n) == NewRecord(file, j, n)
<1>1. A \in SUBSET Nat /\ D \in SUBSET Nat /\ A \cap D = {}
  BY DEF IsRobots, Field
<1>2. \A j, n : New(j, n) <=> \E k \in D, l \in A : j < k /\ k < l /\ l < n
  BY DEF NewRecord
<1>3. \A n : AgentsOf(file, n) = {file[j].value : j \in {k \in A : k < n /\ ~New(k, n)}}
  BY DEF AgentsOf
<1>4. \A j \in A : ~New(j, j + 1) /\ ~New(j, j + 2)
  <2> HIDE DEF A, D, New
  <2> QED
    BY <1>1, <1>2
<1>5. CASE file[i + 1].field = "disallow"
  <2>1. i + 1 \in D /\ i + 1 \notin A
    BY <1>5 DEF Field
  <2>2. {k \in A : k < i + 2 /\ ~New(k, i + 2)} = {k \in A : k < i + 1 /\ ~New(k, i + 1)}
    <3> HIDE DEF A, D, New
    <3>1. \A k \in A : k < i + 2 <=> k < i + 1
      BY <1>1, <2>1
    <3>2. \A k : New(k, i + 2) <=> New(k, i + 1)
      BY <1>1, <1>2, <2>1, <3>1
    <3> QED
      BY <3>1, <3>2
  <2> QED
    BY <1>3, <1>5, <2>2
<1>6. CASE file[i + 1].field = "agent" /\ LastLine(file, i) # "disallow"
  <2>1. i + 1 \in A /\ i \notin D
    <3>1. i = 0 \/ file[i].field = "agent"
      BY <1>6 DEF LastLine
    <3> QED
      BY <1>6, <3>1 DEF Field
  <2>2. {k \in A : k < i + 2 /\ ~New(k, i + 2)} = {k \in A : k < i + 1 /\ ~New(k, i + 1)} \cup {i + 1}
    <3>1. ASSUME NEW k \in A, k < i + 1, New(k, i + 2) PROVE New(k, i + 1)
      <4> HIDE DEF A, D, New
      <4>1. PICK d \in D, l \in A : k < d /\ d < l /\ l < i + 2
        BY <1>2, <3>1
      <4>2. d < i /\ (l < i + 1 \/ (i \in A /\ d < i /\ i < i + 1))
        <5>1. d < i + 1 /\ d # i /\ d \in Nat /\ l \in Nat
          BY <1>1, <2>1, <4>1
        <5>2. d < i
          BY <5>1
        <5>3. i \in A
          <6>1. i # 0 /\ LastLine(file, i) # "disallow"
            BY <1>6, <5>1, <5>2
          <6>2. file[i].field = "agent" /\ i \in 1..Len(file)
            BY <6>1 DEF LastLine, IsRobots
          <6> QED
            BY <6>2 DEF A, Field
        <5> QED
          BY <5>1, <5>2, <5>3
      <4> QED
        BY <1>2, <4>1, <4>2
    <3>2. ASSUME NEW k \in A, New(k, i + 1) PROVE New(k, i + 2)
      <4> HIDE DEF A, D, New
      <4> QED
        BY <1>1, <1>2, <3>2
    <3> HIDE DEF A, D, New
    <3>3. ASSUME NEW k \in A
          PROVE  k < i + 2 /\ ~New(k, i + 2) <=> (k < i + 1 /\ ~New(k, i + 1)) \/ k = i + 1
      <4>1. k \in Nat /\ (k < i + 2 <=> k < i + 1 \/ k = i + 1)
        BY <1>1
      <4>2. ~New(i + 1, i + 2)
        BY <1>4, <2>1
      <4>3. CASE k = i + 1
        BY <4>1, <4>2, <4>3
      <4>4. CASE k # i + 1
        BY <3>1, <3>2, <4>1, <4>4
      <4> QED
        BY <4>3, <4>4
    <3> QED
      BY <2>1, <3>3
  <2>3. {file[j].value : j \in {k \in A : k < i + 1 /\ ~New(k, i + 1)} \cup {i + 1}}
          = {file[j].value : j \in {k \in A : k < i + 1 /\ ~New(k, i + 1)}} \cup {file[i + 1].value}
    <3> DEFINE T == {k \in A : k < i + 1 /\ ~New(k, i + 1)}
    <3> HIDE DEF T
    <3>1. {file[j].value : j \in T \cup {i + 1}} = {file[j].value : j \in T} \cup {file[i + 1].value}
      OBVIOUS
    <3> QED
      BY <3>1 DEF T
  <2> QED
    BY <1>3, <1>6, <2>2, <2>3
<1>7. CASE file[i + 1].field = "agent" /\ LastLine(file, i) = "disallow"
  <2>1. i \in D /\ i + 1 \in A
    <3>1. i # 0 /\ file[i].field # "agent" /\ i \in 1..Len(file)
      BY <1>7 DEF LastLine, IsRobots
    <3>2. file[i].field = "disallow"
      BY <3>1 DEF IsRobots
    <3> QED
      BY <1>7, <3>1, <3>2 DEF Field
  <2>2. {k \in A : k < i + 2 /\ ~New(k, i + 2)} = {i + 1}
    <3> HIDE DEF A, D, New
    <3>1. ASSUME NEW k \in A, k < i + 2, k # i + 1 PROVE New(k, i + 2)
      <4>1. k < i
        BY <1>1, <2>1, <3>1
      <4> QED
        BY <1>2, <2>1, <4>1
    <3>2. ~New(i + 1, i + 2)
      BY <1>4, <2>1
    <3> QED
      BY <2>1, <3>1, <3>2
  <2> QED
    BY <1>3, <1>7, <2>2
<1>8. file[i + 1].field \in {"agent", "disallow"}
  BY DEF IsRobots
<1> QED
  BY <1>5, <1>6, <1>7, <1>8

(* A record ends where an agent is named behind a rule.                    *)
LEMMA RecordEnds ==
  ASSUME NEW file, IsRobots(file), NEW i \in Nat, i + 1 \in 1..Len(file),
         NEW f \in Field(file, "agent"), f <= i
  PROVE  /\ NewRecord(file, f, i + 1) => NewRecord(file, f, i + 2)
         /\ file[i + 1].field = "disallow" =>
              (NewRecord(file, f, i + 2) => NewRecord(file, f, i + 1))
         /\ file[i + 1].field = "agent" /\ LastLine(file, i) = "agent" =>
              (NewRecord(file, f, i + 2) => NewRecord(file, f, i + 1))
         /\ file[i + 1].field = "agent" /\ LastLine(file, i) = "disallow" =>
              NewRecord(file, f, i + 2)
<1> DEFINE A == Field(file, "agent")
           D == Field(file, "disallow")
           New(n) == NewRecord(file, f, n)
<1>1. A \in SUBSET Nat /\ D \in SUBSET Nat /\ A \cap D = {} /\ f \in A
  BY DEF IsRobots, Field
<1>2. \A n : New(n) <=> \E k \in D, l \in A : f < k /\ k < l /\ l < n
  BY DEF NewRecord
<1>3. New(i + 1) => New(i + 2)
  <2> HIDE DEF A, D, New
  <2> QED
    BY <1>1, <1>2
<1>4. ASSUME file[i + 1].field = "disallow", New(i + 2) PROVE New(i + 1)
  <2>1. i + 1 \notin A
    BY <1>4 DEF Field
  <2> HIDE DEF A, D, New
  <2> QED
    BY <1>1, <1>2, <1>4, <2>1
<1>5. ASSUME file[i + 1].field = "agent", LastLine(file, i) = "agent", New(i + 2) PROVE New(i + 1)
  <2>1. i \in A /\ i \notin D
    <3>1. i # 0 /\ file[i].field = "agent" /\ i \in 1..Len(file)
      BY <1>5 DEF LastLine, IsRobots
    <3> QED
      BY <3>1 DEF Field
  <2> HIDE DEF A, D, New
  <2>2. PICK k \in D, l \in A : f < k /\ k < l /\ l < i + 2
    BY <1>2, <1>5
  <2>3. k < i
    BY <1>1, <2>1, <2>2
  <2> QED
    BY <1>1, <1>2, <2>1, <2>2, <2>3
<1>6. ASSUME file[i + 1].field = "agent", LastLine(file, i) = "disallow" PROVE New(i + 2)
  <2>1. i \in D /\ i + 1 \in A
    <3>1. i # 0 /\ file[i].field # "agent" /\ i \in 1..Len(file)
      BY <1>6 DEF LastLine, IsRobots
    <3>2. file[i].field = "disallow"
      BY <3>1 DEF IsRobots
    <3> QED
      BY <1>6, <3>1, <3>2 DEF Field
  <2> HIDE DEF A, D, New
  <2>2. f < i
    BY <1>1, <2>1
  <2> QED
    BY <1>1, <1>2, <2>1, <2>2
<1> QED
  BY <1>3, <1>4, <1>5, <1>6

(* The first of the spider's own agents.                                   *)
LEMMA FirstAgent ==
  ASSUME NEW file, IsRobots(file), Specific(file) # {}
  PROVE  /\ First(file) \in Specific(file) /\ First(file) \in Nat
         /\ First(file) \in Field(file, "agent")
         /\ file[First(file)].value = "swishspider"
         /\ \A i \in Nat : NotYet(file, i) <=> i < First(file)
<1>1. Specific(file) \in SUBSET Nat
  BY DEF Specific, Field, IsRobots
<1>2. \E f \in Specific(file) : \A g \in Specific(file) : f <= g
  BY <1>1, LeastNatural
<1>3. First(file) \in Specific(file) /\ \A g \in Specific(file) : First(file) <= g
  BY <1>2 DEF First
<1>4. \A i \in Nat : NotYet(file, i) <=> i < First(file)
  BY <1>1, <1>3 DEF NotYet
<1> QED
  BY <1>1, <1>3, <1>4 DEF Specific

(* The rules of one more line.                                             *)
LEMMA RulesGrow ==
  ASSUME NEW file, IsRobots(file), NEW i \in Nat, i + 1 \in 1..Len(file), NEW f \in Nat
  PROVE  /\ file[i + 1].field = "agent" =>
              /\ GenericUpTo(file, i + 1) = GenericUpTo(file, i)
              /\ SpecificUpTo(file, f, i + 1) = SpecificUpTo(file, f, i)
         /\ file[i + 1].field = "disallow" =>
              /\ GenericUpTo(file, i + 1) =
                   IF "*" \in AgentsOf(file, i + 1) /\ file[i + 1].value # NoValue
                   THEN GenericUpTo(file, i) \cup {file[i + 1].value}
                   ELSE GenericUpTo(file, i)
              /\ SpecificUpTo(file, f, i + 1) =
                   IF f <= i /\ ~NewRecord(file, f, i + 1) /\ file[i + 1].value # NoValue
                   THEN SpecificUpTo(file, f, i) \cup {file[i + 1].value}
                   ELSE SpecificUpTo(file, f, i)
<1> DEFINE D == Field(file, "disallow")
           G(d) == "*" \in AgentsOf(file, d)
           P(d) == f < d /\ ~NewRecord(file, f, d)
           GS(n) == {d \in D : d <= n /\ G(d)}
           PS(n) == {d \in D : d <= n /\ P(d)}
<1>1. D \in SUBSET Nat /\ (i + 1 \in D <=> file[i + 1].field = "disallow")
  BY DEF Field
<1>2. \A d \in D : d <= i + 1 <=> d <= i \/ d = i + 1
  BY <1>1
<1>3. \A n : GenericUpTo(file, n) = {file[k].value : k \in GS(n)} \ {NoValue}
  BY DEF GenericUpTo
<1>4. \A n : SpecificUpTo(file, f, n) = {file[k].value : k \in PS(n)} \ {NoValue}
  BY Zenon DEF SpecificUpTo
<1>5. GS(i + 1) = IF i + 1 \in D /\ G(i + 1) THEN GS(i) \cup {i + 1} ELSE GS(i)
  <2> HIDE DEF D, G
  <2> QED
    BY <1>2
<1>6. PS(i + 1) = IF i + 1 \in D /\ P(i + 1) THEN PS(i) \cup {i + 1} ELSE PS(i)
  <2> HIDE DEF D, P
  <2> QED
    BY <1>2
<1>7. f < i + 1 <=> f <= i
  OBVIOUS
<1> HIDE DEF GS, PS
<1>8. CASE file[i + 1].field = "agent"
  <2>1. i + 1 \notin D
    BY <1>1, <1>8
  <2> HIDE DEF D, P, G
  <2> QED
    BY <1>3, <1>4, <1>5, <1>6, <1>8, <2>1
<1>9. CASE file[i + 1].field = "disallow"
  <2>1. i + 1 \in D
    BY <1>1, <1>9
  <2>2. GenericUpTo(file, i + 1) =
          IF G(i + 1) /\ file[i + 1].value # NoValue
          THEN GenericUpTo(file, i) \cup {file[i + 1].value} ELSE GenericUpTo(file, i)
    <3> HIDE DEF D, G
    <3>1. CASE G(i + 1)
      <4>1. GS(i + 1) = GS(i) \cup {i + 1}
        BY <1>5, <2>1, <3>1
      <4>2. {file[k].value : k \in GS(i) \cup {i + 1}} =
              {file[k].value : k \in GS(i)} \cup {file[i + 1].value}
        OBVIOUS
      <4>3. GenericUpTo(file, i + 1) =
              ({file[k].value : k \in GS(i)} \cup {file[i + 1].value}) \ {NoValue}
        BY <1>3, <4>1, <4>2
      <4>4. GenericUpTo(file, i) = {file[k].value : k \in GS(i)} \ {NoValue}
        BY <1>3
      <4> DEFINE T == {file[k].value : k \in GS(i)}
      <4> HIDE DEF T
      <4> QED
        BY <3>1, <4>3, <4>4 DEF T
    <3>2. CASE ~G(i + 1)
      <4>1. GS(i + 1) = GS(i)
        BY <1>5, <3>2
      <4> QED
        BY <1>3, <3>2, <4>1
    <3> QED
      BY <3>1, <3>2
  <2>3. SpecificUpTo(file, f, i + 1) =
          IF P(i + 1) /\ file[i + 1].value # NoValue
          THEN SpecificUpTo(file, f, i) \cup {file[i + 1].value} ELSE SpecificUpTo(file, f, i)
    <3> HIDE DEF D, P
    <3>1. CASE P(i + 1)
      <4>1. PS(i + 1) = PS(i) \cup {i + 1}
        BY <1>6, <2>1, <3>1
      <4>2. {file[k].value : k \in PS(i) \cup {i + 1}} =
              {file[k].value : k \in PS(i)} \cup {file[i + 1].value}
        OBVIOUS
      <4>3. SpecificUpTo(file, f, i + 1) =
              ({file[k].value : k \in PS(i)} \cup {file[i + 1].value}) \ {NoValue}
        BY <1>4, <4>1, <4>2
      <4>4. SpecificUpTo(file, f, i) = {file[k].value : k \in PS(i)} \ {NoValue}
        BY <1>4
      <4> DEFINE T == {file[k].value : k \in PS(i)}
      <4> HIDE DEF T
      <4> QED
        BY <3>1, <4>3, <4>4 DEF T
    <3>2. CASE ~P(i + 1)
      <4>1. PS(i + 1) = PS(i)
        BY <1>6, <3>2
      <4> QED
        BY <1>4, <3>2, <4>1
    <3> QED
      BY <3>1, <3>2
  <2> QED
    BY <1>7, <1>9, <2>2, <2>3
<1> QED
  BY <1>8, <1>9 DEF IsRobots

(* What a line adds to what the parser knows.                              *)
LEMMA LineParsed ==
  ASSUME NEW file, IsRobots(file), NEW i \in Nat, i + 1 \in 1..Len(file),
         NEW s, ParsedTo(file, i, s)
  PROVE  ParsedTo(file, i + 1, RobotsLine(s, file[i + 1]))
<1> DEFINE t == RobotsLine(s, file[i + 1])
           v == file[i + 1].value
           f == First(file)
<1>1. file[i + 1].field \in {"agent", "disallow"} /\ (i + 1) + 1 = i + 2 /\ i + 1 \in Nat
  BY DEF IsRobots
<1>2. /\ file[i + 1].field = "agent" => LastLine(file, i + 1) = "agent"
      /\ file[i + 1].field = "disallow" => LastLine(file, i + 1) = "disallow"
      /\ LastLine(file, i) \in {"start", "agent", "disallow"}
  BY <1>1 DEF LastLine
<1>3. ASSUME NotYet(file, i) PROVE ParsedTo(file, i + 1, t)
  <2>1. s = [state |-> LastLine(file, i), of |-> ForAll(file, i), rules |-> GenericUpTo(file, i)]
    BY <1>3 DEF ParsedTo
  <2>2. s.state = LastLine(file, i) /\ s.of = ForAll(file, i) /\ s.rules = GenericUpTo(file, i)
    BY <2>1
  <2>3. ForAll(file, i) \in {"generic", "skipping"}
    BY DEF ForAll
  <2>4. CASE file[i + 1].field = "disallow"
    <3>1. NotYet(file, i + 1)
      BY <1>3, <2>4 DEF NotYet, Specific, Field
    <3>2. t = [state |-> "disallow", of |-> ForAll(file, i),
               rules |-> IF ForAll(file, i) = "skipping" \/ v = NoValue THEN GenericUpTo(file, i)
                         ELSE GenericUpTo(file, i) \cup {v}]
      BY <1>2, <2>2, <2>4 DEF RobotsLine, DisallowLine
    <3>3. ForAll(file, i + 1) = ForAll(file, i)
      BY <1>1, <2>4, AgentsInForce DEF ForAll
    <3>4. GenericUpTo(file, i + 1) =
            IF ForAll(file, i) = "skipping" \/ v = NoValue THEN GenericUpTo(file, i)
            ELSE GenericUpTo(file, i) \cup {v}
      <4>1. GenericUpTo(file, i + 1) =
              IF "*" \in AgentsOf(file, i + 1) /\ v # NoValue
              THEN GenericUpTo(file, i) \cup {v} ELSE GenericUpTo(file, i)
        BY <2>4, RulesGrow
      <4> QED
        BY <4>1 DEF ForAll
    <3> QED
      BY <1>2, <2>4, <3>1, <3>2, <3>3, <3>4 DEF ParsedTo
  <2>5. CASE file[i + 1].field = "agent" /\ v = "swishspider"
    <3>1. i + 1 \in Specific(file)
      BY <2>5 DEF Specific, Field
    <3>2. ~NotYet(file, i + 1) /\ f = i + 1
      <4>1. /\ i < First(file) /\ First(file) \in Nat /\ First(file) \in Specific(file)
            /\ NotYet(file, i + 1) <=> i + 1 < First(file)
        BY <1>1, <1>3, <3>1, FirstAgent
      <4>2. ~NotYet(file, i + 1)
        BY <3>1 DEF NotYet
      <4> QED
        BY <4>1, <4>2
    <3>3. t = [state |-> "agent", of |-> "specific", rules |-> {}]
      BY <2>2, <2>3, <2>5, <1>2 DEF RobotsLine, AgentLine
    <3>4. ~NewRecord(file, f, i + 2)
      <4>1. Field(file, "disallow") \subseteq Nat /\ Field(file, "agent") \subseteq Nat
        BY DEF Field
      <4> QED
        BY <3>2, <4>1 DEF NewRecord
    <3>5. SpecificUpTo(file, f, i + 1) = {}
      <4>1. \A d \in Field(file, "disallow") : ~(d <= i + 1 /\ i + 1 < d)
        BY DEF Field
      <4> HIDE DEF f
      <4> QED
        BY <3>2, <4>1 DEF SpecificUpTo
    <3> QED
      BY <1>1, <1>2, <2>5, <3>2, <3>3, <3>4, <3>5 DEF ParsedTo
  <2>6. CASE file[i + 1].field = "agent" /\ v # "swishspider"
    <3>1. NotYet(file, i + 1)
      BY <1>3, <2>6 DEF NotYet, Specific, Field
    <3>2. GenericUpTo(file, i + 1) = GenericUpTo(file, i)
      BY <2>6, RulesGrow
    <3>3. t = [state |-> "agent", of |-> ForAll(file, i + 1), rules |-> GenericUpTo(file, i)]
      <4>1. t = AgentLine(s, v)
        BY <1>2, <2>2, <2>3, <2>6 DEF RobotsLine
      <4>2. CASE LastLine(file, i) = "disallow"
        <5>1. t = [state |-> "agent", of |-> IF v = "*" THEN "generic" ELSE "skipping",
                   rules |-> GenericUpTo(file, i)]
          BY <2>2, <2>6, <4>1, <4>2 DEF AgentLine
        <5>2. AgentsOf(file, i + 2) = {v}
          BY <2>6, <4>2, AgentsInForce
        <5>3. ForAll(file, i + 1) = IF v = "*" THEN "generic" ELSE "skipping"
          BY <1>1, <5>2 DEF ForAll
        <5> QED
          BY <5>1, <5>3
      <4>3. CASE LastLine(file, i) # "disallow"
        <5>1. t = [state |-> "agent", of |-> IF v = "*" THEN "generic" ELSE ForAll(file, i),
                   rules |-> GenericUpTo(file, i)]
          BY <2>2, <2>3, <2>6, <4>1, <4>3 DEF AgentLine
        <5>2. AgentsOf(file, i + 2) = AgentsOf(file, i + 1) \cup {v}
          BY <2>6, <4>3, AgentsInForce
        <5>3. ForAll(file, i + 1) = IF v = "*" THEN "generic" ELSE ForAll(file, i)
          BY <1>1, <5>2 DEF ForAll
        <5> QED
          BY <5>1, <5>3
      <4> QED
        BY <4>2, <4>3
    <3> QED
      BY <1>2, <2>6, <3>1, <3>2, <3>3 DEF ParsedTo
  <2> QED
    BY <1>1, <2>4, <2>5, <2>6
<1>4. ASSUME ~NotYet(file, i) PROVE ParsedTo(file, i + 1, t)
  <2>1. Specific(file) # {}
    BY <1>4 DEF NotYet
  <2>2. f \in Field(file, "agent") /\ f \in Nat /\ f <= i /\ ~NotYet(file, i + 1)
    <3>1. /\ First(file) \in Field(file, "agent") /\ First(file) \in Nat
          /\ NotYet(file, i) <=> i < First(file)
          /\ NotYet(file, i + 1) <=> i + 1 < First(file)
      BY <1>1, <2>1, FirstAgent
    <3> QED
      BY <1>4, <3>1
  <2>3. /\ file[i + 1].field = "agent" => SpecificUpTo(file, f, i + 1) = SpecificUpTo(file, f, i)
        /\ file[i + 1].field = "disallow" =>
             SpecificUpTo(file, f, i + 1) =
               IF f <= i /\ ~NewRecord(file, f, i + 1) /\ v # NoValue
               THEN SpecificUpTo(file, f, i) \cup {v} ELSE SpecificUpTo(file, f, i)
    BY <2>2, RulesGrow
  <2>4. CASE NewRecord(file, f, i + 1)
    <3>1. s = [state |-> "done", of |-> "specific", rules |-> SpecificUpTo(file, f, i)]
      BY <1>4, <2>4 DEF ParsedTo
    <3>2. t = s
      BY <3>1 DEF RobotsLine
    <3>3. NewRecord(file, f, i + 2)
      BY <2>2, <2>4, RecordEnds
    <3>4. SpecificUpTo(file, f, i + 1) = SpecificUpTo(file, f, i)
      BY <1>1, <2>3, <2>4
    <3> QED
      BY <1>1, <2>2, <3>1, <3>2, <3>3, <3>4 DEF ParsedTo
  <2>5. CASE ~NewRecord(file, f, i + 1)
    <3>1. s = [state |-> LastLine(file, i), of |-> "specific", rules |-> SpecificUpTo(file, f, i)]
      BY <1>4, <2>5 DEF ParsedTo
    <3>2. s.state = LastLine(file, i) /\ s.of = "specific" /\ s.rules = SpecificUpTo(file, f, i)
      BY <3>1
    <3>3. CASE file[i + 1].field = "disallow"
      <4>1. ~NewRecord(file, f, i + 2)
        BY <2>2, <2>5, <3>3, RecordEnds
      <4>2. t = [state |-> "disallow", of |-> "specific",
                 rules |-> IF v = NoValue THEN SpecificUpTo(file, f, i)
                           ELSE SpecificUpTo(file, f, i) \cup {v}]
        BY <1>2, <3>2, <3>3 DEF RobotsLine, DisallowLine
      <4>3. SpecificUpTo(file, f, i + 1) =
              IF v = NoValue THEN SpecificUpTo(file, f, i) ELSE SpecificUpTo(file, f, i) \cup {v}
        BY <2>2, <2>3, <2>5, <3>3
      <4> QED
        BY <1>1, <1>2, <2>2, <3>3, <4>1, <4>2, <4>3 DEF ParsedTo
    <3>4. CASE file[i + 1].field = "agent" /\ LastLine(file, i) = "disallow"
      <4>1. NewRecord(file, f, i + 2)
        BY <2>2, <3>4, RecordEnds
      <4>2. t = [state |-> "done", of |-> "specific", rules |-> SpecificUpTo(file, f, i)]
        BY <3>2, <3>4 DEF RobotsLine
      <4> QED
        BY <1>1, <2>2, <2>3, <3>4, <4>1, <4>2 DEF ParsedTo
    <3>5. CASE file[i + 1].field = "agent" /\ LastLine(file, i) # "disallow"
      <4>1. LastLine(file, i) = "agent"
        BY <1>2, <2>2, <3>5 DEF LastLine, Field
      <4>2. ~NewRecord(file, f, i + 2)
        BY <2>2, <2>5, <3>5, <4>1, RecordEnds
      <4>3. t = [state |-> "agent", of |-> "specific", rules |-> SpecificUpTo(file, f, i)]
        BY <3>2, <3>5, <4>1 DEF RobotsLine, AgentLine
      <4> QED
        BY <1>1, <1>2, <2>2, <2>3, <3>5, <4>2, <4>3 DEF ParsedTo
    <3> QED
      BY <1>1, <3>3, <3>4, <3>5
  <2> QED
    BY <2>4, <2>5
<1> QED
  BY <1>3, <1>4

(* A file is parsed into the rules of its records.                         *)
LEMMA RobotsParsed ==
  ASSUME NEW file, IsRobots(file)
  PROVE  RobotRules(file) = RulesOf(file)
<1> DEFINE N == Len(file)
           Vals == {file[i].value : i \in 1..N}
           S == [state : {"start", "agent", "disallow", "done"},
                 of : {"skipping", "generic", "specific"}, rules : SUBSET Vals]
           parsed[i \in 0..N] == IF i = 0 THEN RobotsStart ELSE RobotsLine(parsed[i - 1], file[i])
           step == [i \in 1..N |-> [s \in S |-> RobotsLine(s, file[i])]]
<1>1. RobotRules(file) = parsed[N].rules
  BY DEF RobotRules
<1>2. N \in Nat /\ RobotsStart \in S
  BY DEF IsRobots, RobotsStart
<1>3. ASSUME NEW i \in 1..N, NEW s \in S PROVE RobotsLine(s, file[i]) \in S
  <2>1. file[i].value \in Vals
    OBVIOUS
  <2> HIDE DEF Vals
  <2> DEFINE v == file[i].value
  <2>2. DisallowLine(s, v) \in S
    <3> HIDE DEF v
    <3>1. v \in Vals
      BY <2>1 DEF v
    <3>2. s.of \in {"skipping", "generic", "specific"} /\ s.rules \in SUBSET Vals
      OBVIOUS
    <3>3. (IF s.of = "skipping" \/ v = NoValue THEN s.rules ELSE s.rules \cup {v}) \in SUBSET Vals
      BY <3>1, <3>2
    <3> QED
      BY <3>2, <3>3 DEF DisallowLine
  <2>3. AgentLine(s, v) \in S
    BY DEF AgentLine
  <2>4. [state |-> "done", of |-> s.of, rules |-> s.rules] \in S
    OBVIOUS
  <2> QED
    BY <2>2, <2>3, <2>4 DEF RobotsLine
<1>4. step \in [1..N -> [S -> S]]
  <2> HIDE DEF N, S
  <2> QED
    BY <1>3
<1>5. PICK g : FoldOf(g, N, S, RobotsStart, step)
  <2> HIDE DEF step, N, S
  <2> QED
    BY <1>2, <1>4, FoldExists
<1>6. g \in [0..N -> S] /\ g[0] = RobotsStart
  <2> HIDE DEF step, N, S, parsed
  <2> QED
    BY <1>5 DEF FoldOf
<1>7. ASSUME NEW i \in 1..N PROVE g[i] = RobotsLine(g[i - 1], file[i])
  <2>1. g[i] = step[i][g[i - 1]]
    <3> HIDE DEF step, N, S, parsed
    <3> QED
      BY <1>5 DEF FoldOf
  <2>2. i - 1 \in 0..N
    <3> HIDE DEF N
    <3> QED
      BY <1>2
  <2>3. g[i - 1] \in S
    <3> HIDE DEF N, S
    <3> QED
      BY <1>6, <2>2
  <2> HIDE DEF N, S
  <2> QED
    BY <2>1, <2>3
<1>8. g = [i \in 0..N |-> IF i = 0 THEN RobotsStart ELSE RobotsLine(g[i - 1], file[i])]
  <2> HIDE DEF N, S, parsed, step
  <2> DEFINE h == [i \in 0..N |-> IF i = 0 THEN RobotsStart ELSE RobotsLine(g[i - 1], file[i])]
  <2>1. \A i \in 0..N : i = 0 \/ i \in 1..N
    BY <1>2
  <2>2. \A i \in 0..N : g[i] = h[i]
    BY <1>6, <1>7, <2>1
  <2> QED
    BY <1>6, <2>2
<1>9. parsed = [i \in 0..N |-> IF i = 0 THEN RobotsStart ELSE RobotsLine(parsed[i - 1], file[i])]
  <2> HIDE DEF N
  <2> QED
    BY <1>8
<1>10. /\ parsed[0] = RobotsStart
       /\ \A i \in 1..N : parsed[i] = RobotsLine(parsed[i - 1], file[i])
  <2> HIDE DEF parsed, N
  <2>1. \A i \in 0..N : parsed[i] = IF i = 0 THEN RobotsStart ELSE RobotsLine(parsed[i - 1], file[i])
    BY Zenon, <1>9
  <2>2. 0 \in 0..N /\ \A i \in 1..N : i \in 0..N /\ i # 0
    BY <1>2
  <2> QED
    BY <2>1, <2>2
<1> HIDE DEF parsed, N, S, step, Vals
<1> DEFINE G == {i \in 0..N : ParsedTo(file, i, parsed[i])}
<1>11. 0 \in G
  <2>1. LastLine(file, 0) = "start"
    BY DEF LastLine
  <2>2. AgentsOf(file, 0 + 1) = {} /\ NotYet(file, 0)
    BY DEF AgentsOf, NotYet, Specific, Field
  <2>3. ForAll(file, 0) = "skipping"
    BY <2>2 DEF ForAll
  <2>4. GenericUpTo(file, 0) = {}
    BY DEF GenericUpTo, Field
  <2> QED
    BY <1>2, <1>10, <2>1, <2>2, <2>3, <2>4 DEF ParsedTo, RobotsStart
<1>12. ASSUME NEW i \in 0..(N - 1), i \in G PROVE i + 1 \in G
  <2>1. i \in Nat /\ i + 1 \in 1..N /\ (i + 1) - 1 = i /\ i + 1 \in 0..N
    BY <1>2
  <2>2. parsed[i + 1] = RobotsLine(parsed[i], file[i + 1])
    BY <1>10, <2>1
  <2>3. ParsedTo(file, i + 1, RobotsLine(parsed[i], file[i + 1]))
    BY <1>12, <2>1, LineParsed DEF N
  <2> QED
    BY <2>1, <2>2, <2>3
<1>13. ParsedTo(file, N, parsed[N])
  <2>1. \A i \in 0..N : i \in G
    <3> HIDE DEF G
    <3> QED
      BY <1>2, <1>11, <1>12, UpTo
  <2>2. N \in 0..N
    BY <1>2
  <2> QED
    BY <2>1, <2>2
<1>14. \A k \in Field(file, "disallow") : k <= N
  BY DEF Field, N
<1>15. CASE Specific(file) = {}
  <2>1. NotYet(file, N)
    BY <1>15 DEF NotYet
  <2>2. parsed[N].rules = GenericUpTo(file, N)
    BY <1>13, <2>1 DEF ParsedTo
  <2>3. RulesOf(file) =
          {file[k].value : k \in {d \in Field(file, "disallow") : "*" \in AgentsOf(file, d)}}
            \ {NoValue}
    BY <1>15 DEF RulesOf
  <2>4. {d \in Field(file, "disallow") : "*" \in AgentsOf(file, d)} =
          {d \in Field(file, "disallow") : d <= N /\ "*" \in AgentsOf(file, d)}
    BY <1>14
  <2> QED
    BY <1>1, <2>2, <2>3, <2>4 DEF GenericUpTo
<1>16. CASE Specific(file) # {}
  <2>1. ~NotYet(file, N)
    <3>1. PICK f \in Specific(file) : TRUE
      BY <1>16
    <3>2. f <= N /\ f \in Nat
      BY DEF Specific, Field, N
    <3> QED
      BY <1>2, <3>2 DEF NotYet
  <2>2. parsed[N].rules = SpecificUpTo(file, First(file), N)
    BY <1>13, <2>1 DEF ParsedTo
  <2>3. RulesOf(file) =
          {file[k].value : k \in {d \in Field(file, "disallow") :
             First(file) < d /\ ~NewRecord(file, First(file), d)}} \ {NoValue}
    BY <1>16 DEF RulesOf, First
  <2>4. {d \in Field(file, "disallow") : First(file) < d /\ ~NewRecord(file, First(file), d)} =
          {d \in Field(file, "disallow") :
             d <= N /\ First(file) < d /\ ~NewRecord(file, First(file), d)}
    BY <1>14
  <2> QED
    BY <1>1, <2>2, <2>3, <2>4 DEF SpecificUpTo
<1> QED
  BY <1>15, <1>16

-----------------------------------------------------------------------------
(* The spider: pages, and what can be reached from them.                   *)

(* To be equivalent, and to be the same page, are equivalences.            *)
LEMMA SameServers ==
  /\ \A v : SameServer(v, v)
  /\ \A v, w : SameServer(v, w) => SameServer(w, v)
  /\ \A u, v, w : SameServer(u, v) /\ SameServer(v, w) => SameServer(u, w)
<1>1. ASSUME NEW u, NEW v, NEW w, SameServer(u, v), SameServer(v, w) PROVE SameServer(u, w)
  <2>1. CASE u = v \/ v = w
    BY <1>1, <2>1
  <2>2. CASE u # v /\ v # w
    <3>1. PICK a \in Equivalent : {u, v} \subseteq a
      BY <1>1, <2>2 DEF SameServer
    <3>2. PICK b \in Equivalent : {v, w} \subseteq b
      BY <1>1, <2>2 DEF SameServer
    <3>3. a = b
      BY <3>1, <3>2, EquivalentAssumption
    <3> QED
      BY <3>1, <3>2, <3>3 DEF SameServer
  <2> QED
    BY <2>1, <2>2
<1>2. \A v, w : SameServer(v, w) => SameServer(w, v)
  BY DEF SameServer
<1> QED
  BY <1>1, <1>2 DEF SameServer

(* To be one page, or of equivalent servers, is an equivalence.            *)
LEMMA SamePages ==
  /\ \A p : SamePage(p, p) /\ EquivalentServer(p, p)
  /\ \A p, q : SamePage(p, q) => SamePage(q, p) /\ EquivalentServer(p, q) /\ Uri[p] = Uri[q]
  /\ \A p, q : EquivalentServer(p, q) => EquivalentServer(q, p)
  /\ \A p, q, r : EquivalentServer(p, q) /\ EquivalentServer(q, r) => EquivalentServer(p, r)
  /\ \A p, q, r : SamePage(p, q) /\ SamePage(q, r) => SamePage(p, r)
<1>1. \A p, q, r : EquivalentServer(p, q) /\ EquivalentServer(q, r) => EquivalentServer(p, r)
  BY SameServers DEF EquivalentServer
<1>2. \A p, q : EquivalentServer(p, q) => EquivalentServer(q, p)
  BY SameServers DEF EquivalentServer
<1>3. \A p : EquivalentServer(p, p)
  BY SameServers DEF EquivalentServer
<1> QED
  BY <1>1, <1>2, <1>3 DEF SamePage

(* A page that may be followed from one address may be from an equivalent  *)
(* one, and under an equivalent name.                                      *)
LEMMA MayFollowSame ==
  ASSUME NEW x \in Inputs, NEW p \in Pages, NEW q \in Pages, NEW a \in Pages, NEW b \in Pages,
         SamePage(p, q), EquivalentServer(a, b)
  PROVE  MayFollow(x, p, a) <=> MayFollow(x, q, b)
<1>1. EquivalentServer(p, q) /\ Uri[p] = Uri[q] /\ EquivalentServer(q, p)
  BY SamePages
<1>2. x.robots[Server[p]] = x.robots[Server[q]]
  BY <1>1, WebAssumption
<1>3. EquivalentServer(p, a) <=> EquivalentServer(q, b)
  BY <1>1, SamePages
<1> QED
  BY <1>1, <1>2, <1>3 DEF MayFollow

(* An increasing function of finite sets, repeated as often as there are   *)
(* elements, reaches a set it leaves alone.                                *)
LEMMA Saturates ==
  ASSUME NEW P, IsFiniteSet(P), NEW F \in [SUBSET P -> SUBSET P],
         \A S \in SUBSET P : S \subseteq F[S],
         NEW g \in [0..Cardinality(P) -> SUBSET P],
         \A n \in 1..Cardinality(P) : g[n] = F[g[n - 1]]
  PROVE  F[g[Cardinality(P)]] = g[Cardinality(P)]
<1> DEFINE N == Cardinality(P)
           G == {n \in 0..N : F[g[n]] = g[n] \/ n <= Cardinality(g[n])}
<1>1. N \in Nat
  BY FS_CardinalityType
<1>2. \A S \in SUBSET P : IsFiniteSet(S) /\ Cardinality(S) \in Nat /\ Cardinality(S) <= N
  BY FS_Subset, FS_CardinalityType
<1>3. 0 \in G
  <2>1. g[0] \in SUBSET P
    BY <1>1
  <2> QED
    BY <1>1, <1>2, <2>1
<1>4. ASSUME NEW n \in 0..(N - 1), n \in G PROVE n + 1 \in G
  <2>1. n \in 0..N /\ n + 1 \in 1..N /\ n + 1 \in 0..N /\ (n + 1) - 1 = n /\ n \in Nat
    BY <1>1
  <2>2. g[n + 1] = F[g[n]]
    BY <2>1
  <2>3. g[n] \in SUBSET P /\ g[n + 1] \in SUBSET P
    BY <2>1
  <2>4. CASE F[g[n]] = g[n]
    BY <2>1, <2>2, <2>4
  <2>5. CASE F[g[n]] # g[n]
    <3>1. n <= Cardinality(g[n])
      BY <1>4, <2>5
    <3>2. g[n] \subseteq g[n + 1] /\ g[n] # g[n + 1]
      BY <2>2, <2>3, <2>5
    <3>3. Cardinality(g[n]) < Cardinality(g[n + 1])
      <4>1. IsFiniteSet(g[n + 1]) /\ Cardinality(g[n + 1]) \in Nat /\ Cardinality(g[n]) \in Nat
        BY <1>2, <2>3
      <4>2. Cardinality(g[n]) <= Cardinality(g[n + 1])
        BY <3>2, <4>1, FS_Subset
      <4>3. Cardinality(g[n]) = Cardinality(g[n + 1]) => g[n] = g[n + 1]
        BY <3>2, <4>1, FS_Subset
      <4> QED
        BY <3>2, <4>1, <4>2, <4>3
    <3>4. n + 1 <= Cardinality(g[n + 1])
      BY <1>2, <2>1, <2>3, <3>1, <3>3
    <3> QED
      BY <2>1, <3>4
  <2> QED
    BY <2>4, <2>5
<1>5. N \in G
  <2>1. \A n \in 0..N : n \in G
    <3> HIDE DEF G
    <3> QED
      BY <1>1, <1>3, <1>4, UpTo
  <2> QED
    BY <1>1, <2>1
<1>6. g[N] \in SUBSET P
  BY <1>1
<1>7. CASE N <= Cardinality(g[N])
  <2>1. g[N] = P
    <3>1. Cardinality(g[N]) = Cardinality(P)
      BY <1>1, <1>2, <1>6, <1>7
    <3> QED
      BY <1>6, <3>1, FS_Subset
  <2>2. F[g[N]] \in SUBSET P /\ g[N] \subseteq F[g[N]]
    BY <1>6
  <2> QED
    BY <2>1, <2>2
<1> QED
  BY <1>5, <1>7

(* A recursive function that goes on by F.                                 *)
Repeats(f, P, N, base, F) ==
  /\ f \in [0..N -> SUBSET P]
  /\ f = [n \in 0..N |-> IF n = 0 THEN base ELSE F[f[n - 1]]]
(* There is one.                                                           *)
LEMMA RepeatsExist ==
  ASSUME NEW P, NEW F \in [SUBSET P -> SUBSET P], NEW base \in SUBSET P, NEW N \in Nat
  PROVE  \E f : Repeats(f, P, N, base, F)
<1> DEFINE step == [n \in 1..N |-> F]
<1>1. PICK g : FoldOf(g, N, SUBSET P, base, step)
  BY FoldExists
<1>2. g \in [0..N -> SUBSET P] /\ g[0] = base /\ \A n \in 1..N : g[n] = F[g[n - 1]]
  BY <1>1 DEF FoldOf
<1> DEFINE h == [n \in 0..N |-> IF n = 0 THEN base ELSE F[g[n - 1]]]
<1>3. \A n \in 0..N : n = 0 \/ n \in 1..N
  OBVIOUS
<1>4. \A n \in 0..N : g[n] = h[n]
  BY <1>2, <1>3
<1>5. g = h
  <2> HIDE DEF step
  <2> QED
    BY <1>2, <1>4
<1> QED
  BY <1>2, <1>5 DEF Repeats

(* The pages one link or redirect further on.                              *)
LEMMA OnwardGrows ==
  ASSUME NEW x \in Inputs, NEW S \in SUBSET Pages, NEW kind, NEW start
  PROVE  Onward(x, S, kind, start) \in SUBSET Pages /\ S \subseteq Onward(x, S, kind, start)
<1>1. ASSUME NEW q \in S, NEW p \in ToSet(x.web[q].links) PROVE p \in Pages
  <2>1. x.web[q].links \in Seq(Pages)
    BY WebAssumption
  <2> QED
    BY <1>1, <2>1 DEF ToSet
<1> QED
  BY <1>1 DEF Onward

(* What redirects lead to is the least set that they do not leave.         *)
LEMMA MovedToLeast ==
  ASSUME NEW x \in Inputs, NEW S \in SUBSET Pages, NEW start
  PROVE  /\ MovedTo(x, S, start) \in SUBSET Pages /\ S \subseteq MovedTo(x, S, start)
         /\ Onward(x, MovedTo(x, S, start), "moved", start) = MovedTo(x, S, start)
         /\ \A T \in SUBSET Pages :
              S \subseteq T /\ Onward(x, T, "moved", start) \subseteq T =>
                MovedTo(x, S, start) \subseteq T
<1> DEFINE N == Cardinality(Pages)
           O(T) == Onward(x, T, "moved", start)
           F == [T \in SUBSET Pages |-> O(T)]
           moves[n \in 0..N] == IF n = 0 THEN S ELSE O(moves[n - 1])
<1>1. N \in Nat
  BY WebAssumption, FS_CardinalityType
<1>2. \A T \in SUBSET Pages : O(T) \in SUBSET Pages /\ T \subseteq O(T)
  BY OnwardGrows
<1>3. MovedTo(x, S, start) = moves[N]
  BY DEF MovedTo
<1> HIDE DEF N, O
<1>4. PICK g : Repeats(g, Pages, N, S, F)
  <2>1. F \in [SUBSET Pages -> SUBSET Pages]
    BY <1>2
  <2> HIDE DEF F, moves
  <2> QED
    BY <1>1, <2>1, RepeatsExist
<1>5. g = [n \in 0..N |-> IF n = 0 THEN S ELSE O(g[n - 1])]
  <2> HIDE DEF moves
  <2> DEFINE h == [n \in 0..N |-> IF n = 0 THEN S ELSE O(g[n - 1])]
  <2>1. \A n \in 0..N : g[n] = IF n = 0 THEN S ELSE F[g[n - 1]]
    <3>1. g = [n \in 0..N |-> IF n = 0 THEN S ELSE F[g[n - 1]]]
      BY <1>4 DEF Repeats
    <3> HIDE DEF F
    <3> QED
      BY Zenon, <3>1
  <2>2. g \in [0..N -> SUBSET Pages]
    <3> HIDE DEF F
    <3> QED
      BY <1>4 DEF Repeats
  <2>3. \A n \in 0..N : n # 0 => n - 1 \in 0..N
    BY <1>1
  <2>4. \A n \in 0..N : g[n] = h[n]
    BY <2>1, <2>2, <2>3
  <2> QED
    BY <2>2, <2>4
<1>6. moves = [n \in 0..N |-> IF n = 0 THEN S ELSE O(moves[n - 1])]
  BY <1>5
<1>7. /\ moves[0] = S
      /\ \A n \in 1..N : moves[n] = O(moves[n - 1])
      /\ DOMAIN moves = 0..N
  <2> HIDE DEF moves, F
  <2>1. \A n \in 0..N : moves[n] = IF n = 0 THEN S ELSE O(moves[n - 1])
    BY Zenon, <1>6
  <2>2. 0 \in 0..N /\ \A n \in 1..N : n \in 0..N /\ n # 0
    BY <1>1
  <2>3. DOMAIN moves = 0..N
    BY <1>6
  <2> QED
    BY <2>1, <2>2, <2>3
<1> HIDE DEF moves
<1>8. \A n \in 0..N : moves[n] \in SUBSET Pages /\ S \subseteq moves[n]
  <2> DEFINE G == {n \in 0..N : moves[n] \in SUBSET Pages /\ S \subseteq moves[n]}
  <2>1. 0 \in G
    BY <1>1, <1>7
  <2>2. ASSUME NEW n \in 0..(N - 1), n \in G PROVE n + 1 \in G
    <3>1. n + 1 \in 1..N /\ (n + 1) - 1 = n /\ n + 1 \in 0..N
      BY <1>1
    <3>2. moves[n + 1] = O(moves[n])
      BY <1>7, <3>1
    <3> QED
      BY <1>2, <2>2, <3>1, <3>2
  <2>3. \A n \in 0..N : n \in G
    <3> HIDE DEF G
    <3> QED
      BY <1>1, <2>1, <2>2, UpTo
  <2> QED
    BY <2>3
<1>9. N \in 0..N
  BY <1>1
<1>10. O(moves[N]) = moves[N]
  <2>1. F \in [SUBSET Pages -> SUBSET Pages] /\ \A T \in SUBSET Pages : F[T] = O(T)
    BY <1>2
  <2>2. moves \in [0..N -> SUBSET Pages]
    <3>1. moves = [n \in 0..N |-> moves[n]]
      BY <1>6
    <3> QED
      BY <1>8, <3>1
  <2>3. \A n \in 1..N : moves[n] = F[moves[n - 1]]
    <3>1. \A n \in 1..N : n - 1 \in 0..N
      BY <1>1
    <3> QED
      BY <1>7, <1>8, <2>1, <3>1
  <2>4. \A T \in SUBSET Pages : T \subseteq F[T]
    BY <1>2, <2>1
  <2>5. F[moves[N]] = moves[N]
    <3> HIDE DEF F
    <3> QED
      BY <2>1, <2>2, <2>3, <2>4, WebAssumption, Saturates DEF N
  <2> QED
    BY <1>8, <1>9, <2>1, <2>5
<1>11. ASSUME NEW T \in SUBSET Pages, S \subseteq T, O(T) \subseteq T PROVE moves[N] \subseteq T
  <2>1. \A U \in SUBSET T : O(U) \subseteq O(T)
    BY DEF O, Onward
  <2> DEFINE G == {n \in 0..N : moves[n] \subseteq T}
  <2>2. 0 \in G
    BY <1>1, <1>7, <1>11
  <2>3. ASSUME NEW n \in 0..(N - 1), n \in G PROVE n + 1 \in G
    <3>1. n + 1 \in 1..N /\ (n + 1) - 1 = n /\ n + 1 \in 0..N
      BY <1>1
    <3>2. moves[n + 1] = O(moves[n])
      BY <1>7, <3>1
    <3> QED
      BY <1>11, <2>1, <2>3, <3>1, <3>2
  <2>4. \A n \in 0..N : n \in G
    <3> HIDE DEF G
    <3> QED
      BY <1>1, <2>2, <2>3, UpTo
  <2> QED
    BY <1>9, <2>4
<1> QED
  BY <1>3, <1>8, <1>9, <1>10, <1>11 DEF O
(* One step further there are as many pages or more.                       *)
LEMMA FartherGrows ==
  ASSUME NEW x \in Inputs, NEW S \in SUBSET Pages, NEW start
  PROVE  Farther(x, S, start) \in SUBSET Pages /\ S \subseteq Farther(x, S, start)
<1> DEFINE T == Onward(x, S, "html", start)
<1>1. T \in SUBSET Pages /\ S \subseteq T
  BY OnwardGrows
<1>2. MovedTo(x, T, start) \in SUBSET Pages /\ T \subseteq MovedTo(x, T, start)
  <2> HIDE DEF T
  <2> QED
    BY <1>1, MovedToLeast
<1> QED
  BY <1>1, <1>2 DEF Farther

(* What is nearest to a start are pages.                                   *)
LEMMA NearestType ==
  ASSUME NEW x \in Inputs, NEW start \in Pages
  PROVE  Nearest(x, start) \in SUBSET Pages
<1> DEFINE S == {p \in {start} : MayFollow(x, p, start)}
<1>1. S \in SUBSET Pages
  OBVIOUS
<1>2. MovedTo(x, S, start) \in SUBSET Pages
  <2> HIDE DEF S
  <2> QED
    BY <1>1, MovedToLeast
<1> QED
  BY <1>2 DEF Nearest

(* The pages by their distance.                                            *)
Ladder(f, x, start, N) ==
  /\ f \in [0..N -> SUBSET Pages]
  /\ f[0] = Nearest(x, start)
  /\ \A n \in 1..N : f[n] = Farther(x, f[n - 1], start)
(* Within goes up such a ladder.                                           *)
LEMMA WithinLadder ==
  ASSUME NEW x \in Inputs, NEW start \in Pages, NEW N \in Nat
  PROVE  \E f : Ladder(f, x, start, N) /\ Within(x, start, N) = f[N]
<1> DEFINE B == Nearest(x, start)
           O(T) == Farther(x, T, start)
           F == [T \in SUBSET Pages |-> O(T)]
           near[n \in 0..N] == IF n = 0 THEN B ELSE O(near[n - 1])
<1>1. \A T \in SUBSET Pages : O(T) \in SUBSET Pages
  BY FartherGrows
<1>2. B \in SUBSET Pages
  BY NearestType
<1>3. Within(x, start, N) = near[N]
  BY DEF Within
<1> HIDE DEF B, O
<1>4. PICK g : Repeats(g, Pages, N, B, F)
  <2>1. F \in [SUBSET Pages -> SUBSET Pages]
    BY <1>1
  <2> HIDE DEF F, near
  <2> QED
    BY <1>2, <2>1, RepeatsExist
<1>5. g = [n \in 0..N |-> IF n = 0 THEN B ELSE O(g[n - 1])]
  <2> HIDE DEF near
  <2> DEFINE h == [n \in 0..N |-> IF n = 0 THEN B ELSE O(g[n - 1])]
  <2>1. \A n \in 0..N : g[n] = IF n = 0 THEN B ELSE F[g[n - 1]]
    <3>1. g = [n \in 0..N |-> IF n = 0 THEN B ELSE F[g[n - 1]]]
      BY <1>4 DEF Repeats
    <3> HIDE DEF F
    <3> QED
      BY Zenon, <3>1
  <2>2. g \in [0..N -> SUBSET Pages]
    <3> HIDE DEF F
    <3> QED
      BY <1>4 DEF Repeats
  <2>3. \A n \in 0..N : n # 0 => n - 1 \in 0..N
    OBVIOUS
  <2>4. \A n \in 0..N : g[n] = h[n]
    BY <2>1, <2>2, <2>3
  <2> QED
    BY <2>2, <2>4
<1>6. near = [n \in 0..N |-> IF n = 0 THEN B ELSE O(near[n - 1])]
  BY <1>5
<1>7. /\ near[0] = B
      /\ \A n \in 1..N : near[n] = O(near[n - 1])
      /\ DOMAIN near = 0..N
  <2> HIDE DEF near, F
  <2>1. \A n \in 0..N : near[n] = IF n = 0 THEN B ELSE O(near[n - 1])
    BY Zenon, <1>6
  <2>2. 0 \in 0..N /\ \A n \in 1..N : n \in 0..N /\ n # 0
    OBVIOUS
  <2>3. DOMAIN near = 0..N
    BY <1>6
  <2> QED
    BY <2>1, <2>2, <2>3
<1>8. near = [n \in 0..N |-> near[n]]
  BY <1>6
<1> HIDE DEF near
<1>9. \A n \in 0..N : near[n] \in SUBSET Pages
  <2> DEFINE G == {n \in 0..N : near[n] \in SUBSET Pages}
  <2>1. 0 \in G
    BY <1>2, <1>7
  <2>2. ASSUME NEW n \in 0..(N - 1), n \in G PROVE n + 1 \in G
    <3>1. n + 1 \in 1..N /\ (n + 1) - 1 = n /\ n + 1 \in 0..N
      OBVIOUS
    <3>2. near[n + 1] = O(near[n])
      BY <1>7, <3>1
    <3> QED
      BY <1>1, <2>2, <3>1, <3>2
  <2>3. \A n \in 0..N : n \in G
    <3> HIDE DEF G
    <3> QED
      BY <2>1, <2>2, UpTo
  <2> QED
    BY <2>3
<1>10. Ladder(near, x, start, N)
  BY <1>7, <1>8, <1>9 DEF Ladder, B, O
<1> QED
  BY <1>3, <1>10

(* Ladders of two lengths have their lower rungs in common.                *)
LEMMA LaddersAgree ==
  ASSUME NEW x, NEW start, NEW N \in Nat, NEW M \in Nat, N <= M,
         NEW f, NEW g, Ladder(f, x, start, N), Ladder(g, x, start, M)
  PROVE  f[N] = g[N]
<1> DEFINE G == {n \in 0..N : f[n] = g[n]}
<1>1. 0 \in G
  BY DEF Ladder
<1>2. ASSUME NEW n \in 0..(N - 1), n \in G PROVE n + 1 \in G
  <2>1. n + 1 \in 1..N /\ (n + 1) - 1 = n /\ n + 1 \in 0..N /\ n + 1 \in 1..M
    OBVIOUS
  <2>2. f[n + 1] = Farther(x, f[n], start) /\ g[n + 1] = Farther(x, g[n], start)
    BY <2>1 DEF Ladder
  <2> QED
    BY <1>2, <2>1, <2>2
<1>3. \A n \in 0..N : n \in G
  <2> HIDE DEF G
  <2> QED
    BY <1>1, <1>2, UpTo
<1> QED
  BY <1>3

(* The pages one farther.                                                  *)
LEMMA WithinSteps ==
  ASSUME NEW x \in Inputs, NEW start \in Pages
  PROVE  /\ \A d \in Nat : Within(x, start, d) \in SUBSET Pages
         /\ Within(x, start, 0) = Nearest(x, start)
         /\ \A d \in Nat : Within(x, start, d + 1) = Farther(x, Within(x, start, d), start)
<1>1. ASSUME NEW d \in Nat
      PROVE  /\ Within(x, start, d) \in SUBSET Pages
             /\ Within(x, start, d + 1) = Farther(x, Within(x, start, d), start)
  <2>1. PICK f : Ladder(f, x, start, d) /\ Within(x, start, d) = f[d]
    BY WithinLadder
  <2>2. PICK g : Ladder(g, x, start, d + 1) /\ Within(x, start, d + 1) = g[d + 1]
    BY WithinLadder
  <2>3. f[d] = g[d]
    BY <2>1, <2>2, LaddersAgree
  <2>4. d + 1 \in 1..(d + 1) /\ (d + 1) - 1 = d /\ d \in 0..d
    OBVIOUS
  <2>5. f[d] \in SUBSET Pages
    BY <2>1, <2>4 DEF Ladder
  <2>6. g[d + 1] = Farther(x, g[d], start)
    BY <2>2, <2>4 DEF Ladder
  <2> QED
    BY <2>1, <2>2, <2>3, <2>5, <2>6
<1>2. PICK f : Ladder(f, x, start, 0) /\ Within(x, start, 0) = f[0]
  BY WithinLadder
<1> QED
  BY <1>1, <1>2 DEF Ladder

(* A set that has start, and that no link or redirect leaves, has all that *)
(* is within any distance.                                                 *)
LEMMA WithinLeast ==
  ASSUME NEW x \in Inputs, NEW start \in Pages, NEW T \in SUBSET Pages,
         MayFollow(x, start, start) => start \in T,
         Onward(x, T, "html", start) \subseteq T, Onward(x, T, "moved", start) \subseteq T
  PROVE  \A d \in Nat : Within(x, start, d) \subseteq T
<1>1. Nearest(x, start) \subseteq T
  <2> DEFINE S == {p \in {start} : MayFollow(x, p, start)}
  <2>1. S \in SUBSET Pages /\ S \subseteq T
    OBVIOUS
  <2>2. MovedTo(x, S, start) \subseteq T
    <3> HIDE DEF S
    <3> QED
      BY <2>1, MovedToLeast
  <2> QED
    BY <2>2 DEF Nearest
<1>2. ASSUME NEW S \in SUBSET Pages, S \subseteq T PROVE Farther(x, S, start) \subseteq T
  <2>1. Onward(x, S, "html", start) \subseteq Onward(x, T, "html", start)
    BY <1>2 DEF Onward
  <2>2. Onward(x, S, "html", start) \in SUBSET Pages /\ Onward(x, S, "html", start) \subseteq T
    BY <2>1, OnwardGrows
  <2>3. MovedTo(x, Onward(x, S, "html", start), start) \subseteq T
    BY <2>2, MovedToLeast
  <2> QED
    BY <2>3 DEF Farther
<1>3. SUFFICES ASSUME NEW d \in Nat PROVE Within(x, start, d) \subseteq T
  OBVIOUS
<1> DEFINE G == {n \in 0..d : Within(x, start, n) \subseteq T}
<1>4. 0 \in G
  BY <1>1, WithinSteps
<1>5. ASSUME NEW n \in 0..(d - 1), n \in G PROVE n + 1 \in G
  <2>1. n \in Nat /\ n + 1 \in 0..d
    OBVIOUS
  <2>2. /\ Within(x, start, n) \in SUBSET Pages
        /\ Within(x, start, n + 1) = Farther(x, Within(x, start, n), start)
    BY <2>1, WithinSteps
  <2> QED
    BY <1>2, <1>5, <2>1, <2>2
<1>6. \A n \in 0..d : n \in G
  <2> HIDE DEF G
  <2> QED
    BY <1>4, <1>5, UpTo
<1>7. d \in 0..d
  OBVIOUS
<1> QED
  BY <1>6, <1>7

(* What is within a distance is within a greater one, and what is within   *)
(* any is within as many links as there are pages.                         *)
LEMMA WithinFacts ==
  ASSUME NEW x \in Inputs, NEW start \in Pages, NEW d \in Nat
  PROVE  /\ Within(x, start, d) \subseteq Within(x, start, d + 1)
         /\ Onward(x, Within(x, start, d), "html", start) \subseteq Within(x, start, d + 1)
         /\ Onward(x, Within(x, start, d), "moved", start) \subseteq Within(x, start, d)
         /\ MayFollow(x, start, start) => start \in Within(x, start, 0)
         /\ \A p \in Within(x, start, d) : MayFollow(x, p, start)
         /\ Within(x, start, d) \subseteq Within(x, start, Cardinality(Pages))
<1> DEFINE W(n) == Within(x, start, n)
           N == Cardinality(Pages)
<1>0. N \in Nat
  BY WebAssumption, FS_CardinalityType
<1>1. \A n \in Nat : W(n) \in SUBSET Pages /\ W(n + 1) = Farther(x, W(n), start)
  BY WithinSteps
<1>2. \A n \in Nat :
        /\ W(n) \subseteq W(n + 1)
        /\ Onward(x, W(n), "html", start) \subseteq W(n + 1)
        /\ Onward(x, W(n + 1), "moved", start) \subseteq W(n + 1)
  <2> SUFFICES ASSUME NEW n \in Nat
      PROVE  /\ W(n) \subseteq W(n + 1)
             /\ Onward(x, W(n), "html", start) \subseteq W(n + 1)
             /\ Onward(x, W(n + 1), "moved", start) \subseteq W(n + 1)
    OBVIOUS
  <2> DEFINE T == Onward(x, W(n), "html", start)
  <2>1. W(n) \in SUBSET Pages /\ W(n + 1) = MovedTo(x, T, start)
    BY <1>1 DEF Farther
  <2>2. T \in SUBSET Pages /\ W(n) \subseteq T
    <3> HIDE DEF W
    <3> QED
      BY <2>1, OnwardGrows
  <2>3. T \subseteq MovedTo(x, T, start) /\ Onward(x, MovedTo(x, T, start), "moved", start) = MovedTo(x, T, start)
    <3> HIDE DEF W, T
    <3> QED
      BY <2>2, MovedToLeast
  <2> HIDE DEF W, T
  <2> QED
    BY <2>1, <2>2, <2>3 DEF T
<1>3. Onward(x, W(0), "moved", start) \subseteq W(0) /\ (MayFollow(x, start, start) => start \in W(0))
  <2> DEFINE S == {p \in {start} : MayFollow(x, p, start)}
  <2>1. S \in SUBSET Pages /\ W(0) = MovedTo(x, S, start)
    BY WithinSteps DEF Nearest
  <2>2. S \subseteq MovedTo(x, S, start) /\ Onward(x, MovedTo(x, S, start), "moved", start) = MovedTo(x, S, start)
    <3> HIDE DEF S
    <3> QED
      BY <2>1, MovedToLeast
  <2> HIDE DEF W
  <2> QED
    BY <2>1, <2>2
<1>4. \A n \in Nat : Onward(x, W(n), "moved", start) \subseteq W(n)
  <2> SUFFICES ASSUME NEW n \in Nat PROVE Onward(x, W(n), "moved", start) \subseteq W(n)
    OBVIOUS
  <2>1. CASE n = 0
    BY <1>3, <2>1
  <2>2. CASE n # 0
    <3>1. n - 1 \in Nat /\ (n - 1) + 1 = n
      BY <2>2
    <3> HIDE DEF W
    <3> QED
      BY <1>2, <3>1
  <2> QED
    BY <2>1, <2>2
<1>5. \A p \in W(d) : MayFollow(x, p, start)
  <2> DEFINE T == {p \in Pages : MayFollow(x, p, start)}
  <2>1. T \in SUBSET Pages /\ (MayFollow(x, start, start) => start \in T)
    OBVIOUS
  <2>2. Onward(x, T, "html", start) \subseteq T /\ Onward(x, T, "moved", start) \subseteq T
    <3>1. Onward(x, T, "html", start) \in SUBSET Pages /\ Onward(x, T, "moved", start) \in SUBSET Pages
      <4> HIDE DEF T
      <4> QED
        BY <2>1, OnwardGrows
    <3> QED
      BY <3>1 DEF Onward
  <2>3. W(d) \subseteq T
    <3> HIDE DEF T
    <3> QED
      BY <2>1, <2>2, WithinLeast
  <2> QED
    BY <2>3
<1>6. Onward(x, W(N), "html", start) \subseteq W(N)
  <2> DEFINE F == [S \in SUBSET Pages |-> Farther(x, S, start)]
  <2>1. F \in [SUBSET Pages -> SUBSET Pages] /\ \A S \in SUBSET Pages : F[S] = Farther(x, S, start) /\ S \subseteq F[S]
    BY FartherGrows
  <2>2. PICK g : Ladder(g, x, start, N) /\ W(N) = g[N]
    <3> HIDE DEF N
    <3> QED
      BY <1>0, WithinLadder
  <2> HIDE DEF F
  <2>3. g \in [0..N -> SUBSET Pages] /\ \A n \in 1..N : g[n] = Farther(x, g[n - 1], start)
    BY <2>2 DEF Ladder
  <2>4. \A n \in 1..N : g[n] = F[g[n - 1]]
    <3>1. \A n \in 1..N : n - 1 \in 0..N
      BY <1>0
    <3> HIDE DEF N
    <3> QED
      BY <2>1, <2>3, <3>1
  <2>5. F[g[N]] = g[N]
    BY <2>1, <2>3, <2>4, WebAssumption, Saturates
  <2>6. Farther(x, W(N), start) = W(N)
    <3>1. g[N] \in SUBSET Pages
      BY <1>0, <2>3
    <3> HIDE DEF N
    <3> QED
      BY <2>1, <2>2, <2>5, <3>1
  <2>7. Onward(x, W(N), "html", start) \subseteq W(N + 1) /\ W(N + 1) = Farther(x, W(N), start)
    BY <1>0, <1>1, <1>2
  <2> QED
    BY <2>6, <2>7
<1>7. W(d) \subseteq W(N)
  <2>1. W(N) \in SUBSET Pages /\ Onward(x, W(N), "moved", start) \subseteq W(N)
    BY <1>0, <1>1, <1>4
  <2>2. W(0) \subseteq W(N)
    <3> DEFINE G == {n \in 0..N : W(0) \subseteq W(n)}
    <3>1. 0 \in G
      BY <1>0
    <3>2. ASSUME NEW n \in 0..(N - 1), n \in G PROVE n + 1 \in G
      <4>1. n \in Nat /\ n + 1 \in 0..N
        BY <1>0
      <4> HIDE DEF W, N
      <4> QED
        BY <1>2, <3>2, <4>1
    <3>3. \A n \in 0..N : n \in G
      <4> HIDE DEF G, N
      <4> QED
        BY <1>0, <3>1, <3>2, UpTo
    <3>4. N \in 0..N
      BY <1>0
    <3> QED
      BY <3>3, <3>4
  <2>3. MayFollow(x, start, start) => start \in W(N)
    BY <1>3, <2>2
  <2> HIDE DEF N
  <2> QED
    BY <1>6, <2>1, <2>3, WithinLeast
<1> QED
  BY <1>2, <1>3, <1>4, <1>5, <1>7

(* The server that stands for a page's, when one does.                     *)
ServerNames == {Server[p] : p \in Pages}
(* After a look at its page a server is known.                             *)
LEMMA ServerKnown ==
  ASSUME NEW known \in Seq(ServerNames), NEW p \in Pages
  PROVE  /\ GetServerInfo(known, p) \in Seq(ServerNames)
         /\ Knows(GetServerInfo(known, p), p)
<1>1. CASE Knows(known, p)
  BY <1>1 DEF GetServerInfo
<1>2. CASE ~Knows(known, p)
  <2>1. Server[p] \in ServerNames
    BY DEF ServerNames
  <2> DEFINE t == <<Server[p]>> \o known
  <2>2. t \in Seq(ServerNames) /\ t # <<>> /\ Head(t) = Server[p]
    BY <2>1, Prefixed
  <2> HIDE DEF t
  <2>3. 1 \in 1..Len(t) /\ t[1] = Server[p]
    BY <2>2
  <2>4. Knows(t, p)
    BY <2>3, SameServers DEF Knows
  <2>5. GetServerInfo(known, p) = t
    BY <1>2 DEF GetServerInfo, t
  <2> QED
    BY <2>2, <2>4, <2>5
<1> QED
  BY <1>1, <1>2

(* The rules that are looked up are those of the page's own server.        *)
LEMMA RulesHere ==
  ASSUME input \in Inputs, NEW known \in Seq(ServerNames), NEW p \in Pages, Knows(known, p)
  PROVE  UrlDisallowed(known, p) <=>
           \E v \in RulesOf(input.robots[Server[p]]) : Uri[p] \in Below[v]
<1> DEFINE fits == {i \in 1..Len(known) : SameServer(known[i], Server[p])}
           first == CHOOSE i \in fits : \A j \in fits : i <= j
<1>1. GetServerInfo(known, p) = known
  BY DEF GetServerInfo
<1>2. ServerInfo(known, p) = known[first]
  BY <1>1 DEF ServerInfo
<1>3. fits # {} /\ fits \in SUBSET Nat
  BY DEF Knows
<1>4. first \in fits
  <2>1. \E i \in fits : \A j \in fits : i <= j
    <3> HIDE DEF fits
    <3> QED
      BY <1>3, LeastNatural
  <2> HIDE DEF fits
  <2> QED
    BY <2>1
<1>5. PICK v \in ServerNames : v = known[first] /\ SameServer(v, Server[p])
  <2>1. first \in 1..Len(known) /\ SameServer(known[first], Server[p])
    BY <1>4
  <2> HIDE DEF first
  <2>2. known[first] \in ServerNames
    BY <2>1
  <2> QED
    BY <2>1, <2>2
<1>6. PICK q \in Pages : v = Server[q]
  BY DEF ServerNames
<1>7. input.robots[v] = input.robots[Server[p]] /\ v \in DOMAIN input.robots
  BY <1>5, <1>6, WebAssumption DEF EquivalentServer
<1>8. RobotRules(Robots(v)) = RulesOf(Robots(v))
  <2>1. IsRobots(input.robots[v])
    BY <1>7, RobotsAssumption DEF IsRobots
  <2> QED
    BY <2>1, RobotsParsed DEF Robots
<1>9. ServerInfo(known, p) = v
  BY <1>2, <1>5
<1> QED
  BY <1>7, <1>8, <1>9 DEF UrlDisallowed, Robots

(* What add_url permits are the pages that may be followed, not too deep.  *)
LEMMA PermittedMay ==
  ASSUME input \in Inputs, NEW known \in Seq(ServerNames), NEW start \in Pages, Knows(known, start),
         NEW p \in Pages, NEW depth
  PROVE  Permitted(known, p, depth, start) <=> MayFollow(input, p, start) /\ ~TooDeep(depth)
<1>1. CASE ~EquivalentServer(p, start)
  BY <1>1 DEF Permitted, MayFollow
<1>2. CASE EquivalentServer(p, start)
  <2>1. Knows(known, p)
    <3>1. PICK i \in 1..Len(known) : SameServer(known[i], Server[start])
      BY DEF Knows
    <3>2. SameServer(Server[start], Server[p])
      BY <1>2, SameServers DEF EquivalentServer
    <3>3. SameServer(known[i], Server[p])
      BY <3>1, <3>2, SameServers
    <3> QED
      BY <3>3 DEF Knows
  <2> QED
    BY <1>2, <2>1, RulesHere DEF Permitted, MayFollow
<1> QED
  BY <1>1, <1>2

(* The links that join the list.                                           *)
Joins(l, links, n, depth, start) ==
  /\ \A k \in 1..Len(l) :
       /\ l[k] \in ToSet(links) /\ Permitted(servers, l[k], depth, start)
       /\ \A q \in met : ~SamePage(l[k], q)
       /\ \A m \in 1..Len(l) : k # m => ~SamePage(l[k], l[m])
  /\ \A j \in 1..n : Permitted(servers, links[j], depth, start) =>
       \/ \E q \in met : SamePage(links[j], q)
       \/ \E k \in 1..Len(l) : SamePage(links[j], l[k])
(* add_url for one more link.                                              *)
LEMMA AddUrlJoins ==
  ASSUME NEW links \in Seq(Pages), NEW depth, NEW start, NEW n \in 0..(Len(links) - 1),
         NEW l \in Seq(Pages), Joins(l, links, n, depth, start)
  PROVE  /\ AddUrl(l, links[n + 1], depth, start) \in Seq(Pages)
         /\ Joins(AddUrl(l, links[n + 1], depth, start), links, n + 1, depth, start)
<1>0. n + 1 \in 1..Len(links) /\ \A j \in 1..(n + 1) : j \in 1..n \/ j = n + 1
  OBVIOUS
<1>1. PICK p \in Pages : p = links[n + 1] /\ p \in ToSet(links)
  BY <1>0 DEF ToSet
<1> DEFINE adds == Permitted(servers, p, depth, start) /\ \A q \in met \cup ToSet(l) : ~SamePage(p, q)
<1>2. ToSet(l) = {l[k] : k \in 1..Len(l)}
  BY DEF ToSet
<1>3. CASE ~adds
  <2>1. AddUrl(l, p, depth, start) = l
    BY <1>3 DEF AddUrl
  <2>2. Permitted(servers, p, depth, start) =>
          \/ \E q \in met : SamePage(p, q)
          \/ \E k \in 1..Len(l) : SamePage(p, l[k])
    BY <1>2, <1>3
  <2>3. Joins(l, links, n + 1, depth, start)
    BY <1>0, <1>1, <2>2 DEF Joins
  <2> QED
    BY <1>1, <2>1, <2>3
<1>4. CASE adds
  <2> DEFINE t == Append(l, p)
  <2>1. AddUrl(l, p, depth, start) = t
    BY <1>4 DEF AddUrl
  <2>2. t \in Seq(Pages) /\ Len(t) = Len(l) + 1
    OBVIOUS
  <2>3. Len(l) \in Nat /\ t[Len(l) + 1] = p /\ \A k \in 1..Len(l) : t[k] = l[k]
    OBVIOUS
  <2> HIDE DEF t
  <2>4. \A k \in 1..Len(t) : k \in 1..Len(l) \/ k = Len(l) + 1
    BY <2>2, <2>3
  <2>5. \A k \in 1..Len(l) : ~SamePage(p, l[k]) /\ ~SamePage(l[k], p)
    BY <1>2, <1>4, SamePages
  <2>6. ASSUME NEW k \in 1..Len(t)
        PROVE  /\ t[k] \in ToSet(links) /\ Permitted(servers, t[k], depth, start)
               /\ \A q \in met : ~SamePage(t[k], q)
               /\ \A m \in 1..Len(t) : k # m => ~SamePage(t[k], t[m])
    <3>1. CASE k \in 1..Len(l)
      <4>1. t[k] = l[k]
        BY <2>3, <3>1
      <4>2. /\ l[k] \in ToSet(links) /\ Permitted(servers, l[k], depth, start)
            /\ \A q \in met : ~SamePage(l[k], q)
            /\ \A m \in 1..Len(l) : k # m => ~SamePage(l[k], l[m])
        BY <3>1 DEF Joins
      <4>3. ASSUME NEW m \in 1..Len(t), k # m PROVE ~SamePage(t[k], t[m])
        BY <2>3, <2>4, <2>5, <3>1, <4>1, <4>2, <4>3
      <4> QED
        BY <4>1, <4>2, <4>3
    <3>2. CASE k = Len(l) + 1
      <4>1. t[k] = p
        BY <2>3, <3>2
      <4>2. ASSUME NEW m \in 1..Len(t), k # m PROVE ~SamePage(t[k], t[m])
        BY <2>3, <2>4, <2>5, <3>2, <4>1, <4>2
      <4> QED
        BY <1>1, <1>4, <4>1, <4>2
    <3> QED
      BY <2>4, <3>1, <3>2
  <2>7. ASSUME NEW j \in 1..(n + 1), Permitted(servers, links[j], depth, start)
        PROVE  \/ \E q \in met : SamePage(links[j], q)
               \/ \E k \in 1..Len(t) : SamePage(links[j], t[k])
    <3>1. CASE j \in 1..n
      <4>1. \/ \E q \in met : SamePage(links[j], q)
            \/ \E k \in 1..Len(l) : SamePage(links[j], l[k])
        BY <2>7, <3>1 DEF Joins
      <4>2. \A k \in 1..Len(l) : k \in 1..Len(t)
        BY <2>2, <2>3
      <4> QED
        BY <2>3, <4>1, <4>2
    <3>2. CASE j = n + 1
      <4>1. links[j] = p /\ SamePage(p, p)
        BY <1>1, <3>2, SamePages
      <4>2. Len(l) + 1 \in 1..Len(t)
        BY <2>2, <2>3
      <4> QED
        BY <2>3, <4>1, <4>2
    <3> QED
      BY <1>0, <3>1, <3>2
  <2>8. Joins(t, links, n + 1, depth, start)
    BY <2>6, <2>7 DEF Joins
  <2> QED
    BY <1>1, <2>1, <2>2, <2>8
<1> QED
  BY <1>3, <1>4

(* add_url for all of a page's links.                                      *)
LEMMA JoiningJoins ==
  ASSUME NEW links \in Seq(Pages), NEW depth, NEW start
  PROVE  /\ Joining(links, depth, start) \in Seq(Pages)
         /\ Joins(Joining(links, depth, start), links, Len(links), depth, start)
<1> DEFINE N == Len(links)
           S == Seq(Pages)
           Add(l, i) == AddUrl(l, links[i], depth, start)
           joined[i \in 0..N] == IF i = 0 THEN <<>> ELSE Add(joined[i - 1], i)
           step == [i \in 1..N |-> [l \in S |-> Add(l, i)]]
<1>1. Joining(links, depth, start) = joined[N]
  BY DEF Joining
<1>2. N \in Nat /\ <<>> \in S
  OBVIOUS
<1>3. ASSUME NEW i \in 1..N, NEW l \in S PROVE Add(l, i) \in S
  <2>1. links[i] \in Pages
    OBVIOUS
  <2>2. Append(l, links[i]) \in S
    BY <2>1
  <2> QED
    BY <2>2 DEF AddUrl
<1> HIDE DEF Add
<1>4. step \in [1..N -> [S -> S]]
  <2> HIDE DEF N, S
  <2> QED
    BY <1>3
<1>5. PICK g : FoldOf(g, N, S, <<>>, step)
  <2> HIDE DEF step, N, S
  <2> QED
    BY <1>2, <1>4, FoldExists
<1>6. g \in [0..N -> S] /\ g[0] = <<>>
  <2> HIDE DEF step, N, S, joined
  <2> QED
    BY <1>5 DEF FoldOf
<1>7. ASSUME NEW i \in 1..N PROVE g[i] = Add(g[i - 1], i)
  <2>1. g[i] = step[i][g[i - 1]]
    <3> HIDE DEF step, N, S, joined
    <3> QED
      BY <1>5 DEF FoldOf
  <2>2. i - 1 \in 0..N
    <3> HIDE DEF N
    <3> QED
      BY <1>2
  <2>3. g[i - 1] \in S
    <3> HIDE DEF N, S
    <3> QED
      BY <1>6, <2>2
  <2> HIDE DEF N, S
  <2> QED
    BY <2>1, <2>3
<1>8. g = [i \in 0..N |-> IF i = 0 THEN <<>> ELSE Add(g[i - 1], i)]
  <2> HIDE DEF N, S, joined, step
  <2> DEFINE h == [i \in 0..N |-> IF i = 0 THEN <<>> ELSE Add(g[i - 1], i)]
  <2>1. \A i \in 0..N : i = 0 \/ i \in 1..N
    BY <1>2
  <2>2. \A i \in 0..N : g[i] = h[i]
    BY <1>6, <1>7, <2>1
  <2> QED
    BY <1>6, <2>2
<1>9. joined = [i \in 0..N |-> IF i = 0 THEN <<>> ELSE Add(joined[i - 1], i)]
  <2> HIDE DEF N
  <2> QED
    BY <1>8
<1>10. /\ joined[0] = <<>>
       /\ \A i \in 1..N : joined[i] = Add(joined[i - 1], i)
  <2> HIDE DEF joined, N
  <2>1. \A i \in 0..N : joined[i] = IF i = 0 THEN <<>> ELSE Add(joined[i - 1], i)
    BY Zenon, <1>9
  <2>2. 0 \in 0..N /\ \A i \in 1..N : i \in 0..N /\ i # 0
    BY <1>2
  <2> QED
    BY <2>1, <2>2
<1> HIDE DEF joined, N, step
<1> DEFINE G == {i \in 0..N : joined[i] \in S /\ Joins(joined[i], links, i, depth, start)}
<1>11. 0 \in G
  <2>1. joined[0] \in S /\ Len(joined[0]) = 0
    BY <1>2, <1>10
  <2> QED
    BY <1>2, <2>1 DEF Joins
<1> HIDE DEF S
<1>12. ASSUME NEW i \in 0..(N - 1), i \in G PROVE i + 1 \in G
  <2>1. i + 1 \in 1..N /\ (i + 1) - 1 = i /\ i + 1 \in 0..N
    BY <1>2
  <2>2. joined[i + 1] = AddUrl(joined[i], links[i + 1], depth, start)
    BY <1>10, <2>1 DEF Add
  <2>3. joined[i] \in Seq(Pages) /\ Joins(joined[i], links, i, depth, start)
    BY <1>12 DEF S
  <2>4. /\ AddUrl(joined[i], links[i + 1], depth, start) \in Seq(Pages)
        /\ Joins(AddUrl(joined[i], links[i + 1], depth, start), links, i + 1, depth, start)
    BY <2>3, AddUrlJoins DEF N
  <2> QED
    BY <2>1, <2>2, <2>4 DEF S
<1>13. \A i \in 0..N : i \in G
  <2> HIDE DEF G
  <2> QED
    BY <1>2, <1>11, <1>12, UpTo
<1>14. N \in 0..N
  BY <1>2
<1> QED
  BY <1>1, <1>13, <1>14 DEF S, N

-----------------------------------------------------------------------------
(* The invariant of the spider.  Its parts have what they speak of as      *)
(* parameters: an input x, the list, the pages met and those indexed.      *)
Item == [url : Pages, depth : Nat]
Listed(list) == {list[i].url : i \in 1..Len(list)}
Retrieved(list, M) == M \ Listed(list)
Covered(M, p) == \E q \in M : SamePage(p, q)
Closed(x, M, q) ==
  \A p \in ToSet(x.web[q].links) : MayFollow(x, p, q) => Covered(M, p)
AllClosed(x, list, M) == \A q \in Retrieved(list, M) : Closed(x, M, q)

(* A page is met once, and listed once.                                    *)
MetOnce(list, M) ==
  /\ \A p, q \in M : SamePage(p, q) => p = q
  /\ \A i \in 1..Len(list) :
       /\ list[i].url \in M
       /\ \A j \in 1..Len(list) : i # j => list[i].url # list[j].url
(* Of the pages R retrieved those to index are indexed, once.              *)
IndexedOnce(x, R, pages) ==
  /\ \A i \in 1..Len(pages) :
       pages[i] \in R /\ \A j \in 1..Len(pages) : i # j => pages[i] # pages[j]
  /\ \A q \in R : x.web[q].kind \in {"html", "text"} =>
       \E i \in 1..Len(pages) : pages[i] = q
(* What is listed is as near the start as its depth says.                  *)
ListedNear(x, list, start) ==
  \A i \in 1..Len(list) :
    /\ list[i].url \in Within(x, start, list[i].depth)
    /\ x.maxdepth # 0 => list[i].depth < x.maxdepth
OnlyAsked(x, pages) ==
  \A i \in 1..Len(pages) : \E k \in 1..Len(x.starts) : pages[i] \in Asked(x, x.starts[k])
StartsMet(x, n, M) ==
  \A k \in 1..n : MayFollow(x, x.starts[k], x.starts[k]) => Covered(M, x.starts[k])

(* With a MaxDepth, one start and no redirects: the list has items of two  *)
(* depths, h and then h + 1; whatever is within h is met, and not listed   *)
(* as deeper.                                                              *)
MetAtMost(x, list, M, start, h) ==
  \A p \in Within(x, start, h) : \E q \in M :
    /\ SamePage(p, q)
    /\ \A i \in 1..Len(list) : list[i].url = q => list[i].depth = h
TwoDepths(list, h) ==
  /\ \A i \in 1..Len(list) : list[i].depth \in {h, h + 1}
  /\ \A i, j \in 1..Len(list) : i < j => list[i].depth <= list[j].depth
BreadthFirst(x, n, list, M) ==
  IF Len(list) = 0
  THEN \/ n = 0
       \/ AllClosed(x, list, M)
       \/ \A p \in Within(x, x.starts[1], x.maxdepth - 1) : Covered(M, p)
  ELSE /\ TwoDepths(list, list[1].depth)
       /\ MetAtMost(x, list, M, x.starts[1], list[1].depth)
       /\ list[1].depth + 1 < x.maxdepth => AllClosed(x, list, M)
OneByOne(x) == Len(x.starts) = 1 /\ \A p \in Pages : x.web[p].kind # "moved"
AllMet(x, n, list, M) ==
  IF x.maxdepth = 0 THEN AllClosed(x, list, M)
  ELSE OneByOne(x) => BreadthFirst(x, n, list, M)

-----------------------------------------------------------------------------
(* The list after its first item is retrieved and new ones have joined.    *)
After(t, list, new, d) ==
  /\ t \in Seq(Item)
  /\ Len(t) = Len(list) - 1 + Len(new)
  /\ \A i \in 1..(Len(list) - 1) : t[i].url = list[i + 1].url /\ t[i].depth = list[i + 1].depth
  /\ \A k \in 1..Len(new) : t[Len(list) - 1 + k].url = new[k] /\ t[Len(list) - 1 + k].depth = d
(* The list that Retrieve leaves.                                          *)
LEMMA ListAfter ==
  ASSUME NEW list \in Seq(Item), list # <<>>, NEW new \in Seq(Pages), NEW d \in Nat
  PROVE  After(Queued(Tail(list), [i \in 1..Len(new) |-> [url |-> new[i], depth |-> d]]), list, new, d)
<1> DEFINE items == [i \in 1..Len(new) |-> [url |-> new[i], depth |-> d]]
           rest == Tail(list)
           t == rest \o items
<1>1. \A i \in 1..Len(new) : [url |-> new[i], depth |-> d] \in Item
  BY DEF Item
<1>2. items \in Seq(Item) /\ Len(items) = Len(new)
  BY <1>1
<1>3. \A k \in 1..Len(new) : items[k].url = new[k] /\ items[k].depth = d
  OBVIOUS
<1>4. rest \in Seq(Item) /\ Len(rest) = Len(list) - 1 /\ \A i \in 1..(Len(list) - 1) : rest[i] = list[i + 1]
  OBVIOUS
<1> HIDE DEF items, rest
<1>11. items \in Seq(Item) /\ rest \in Seq(Item)
  BY <1>2, <1>4
<1>5. t \in Seq(Item)
  BY <1>11
<1>6. Len(t) = Len(rest) + Len(items)
  BY <1>11
<1>7. \A i \in 1..Len(rest) : t[i] = rest[i]
  BY <1>11
<1>8. \A k \in 1..Len(items) : t[Len(rest) + k] = items[k]
  BY <1>11
<1>9. Queued(rest, items) = t
  BY DEF Queued
<1> HIDE DEF t
<1>10. After(t, list, new, d)
  <2>1. PICK n \in Nat : Len(list) - 1 = n
    BY <1>4
  <2>2. Len(rest) = n
    BY <1>4, <2>1
  <2>3. Len(t) = n + Len(new)
    BY <1>2, <1>6, <2>2
  <2>4. \A i \in 1..n : t[i].url = list[i + 1].url /\ t[i].depth = list[i + 1].depth
    BY <1>4, <1>7, <2>1, <2>2
  <2>5. \A k \in 1..Len(new) : t[n + k].url = new[k] /\ t[n + k].depth = d
    BY <1>2, <1>3, <1>8, <2>2
  <2> QED
    BY <1>5, <2>1, <2>3, <2>4, <2>5 DEF After
<1> QED
  BY <1>9, <1>10 DEF items, rest

(* Each of its items is an old one or a new one.                           *)
OldOrNew(t, list, new, d) ==
  \A i \in 1..Len(t) :
    \/ \E j \in 2..Len(list) : i = j - 1 /\ t[i].url = list[j].url /\ t[i].depth = list[j].depth
    \/ \E k \in 1..Len(new) : i = Len(list) - 1 + k /\ t[i].url = new[k] /\ t[i].depth = d
HasBoth(t, list, new) ==
  /\ \A j \in 2..Len(list) : \E i \in 1..Len(t) : t[i].url = list[j].url
  /\ \A k \in 1..Len(new) : \E i \in 1..Len(t) : t[i].url = new[k]
(* It has those of both kinds and no others.                               *)
LEMMA AfterHas ==
  ASSUME NEW list \in Seq(Item), list # <<>>, NEW new \in Seq(Pages), NEW d \in Nat,
         NEW t, After(t, list, new, d)
  PROVE  OldOrNew(t, list, new, d) /\ HasBoth(t, list, new)
<1>1. PICK n \in Nat, m \in Nat : Len(list) = n + 1 /\ Len(new) = m
  <2>1. Len(list) \in Nat /\ Len(list) # 0 /\ Len(new) \in Nat
    OBVIOUS
  <2>2. Len(list) - 1 \in Nat /\ Len(list) = (Len(list) - 1) + 1
    BY <2>1
  <2> QED
    BY <2>1, <2>2
<1>2. /\ Len(t) = n + m
      /\ \A i \in 1..n : t[i].url = list[i + 1].url /\ t[i].depth = list[i + 1].depth
      /\ \A k \in 1..m : t[n + k].url = new[k] /\ t[n + k].depth = d
  BY <1>1 DEF After
<1>3. ASSUME NEW i \in 1..Len(t)
      PROVE  \/ \E j \in 2..Len(list) : i = j - 1 /\ t[i].url = list[j].url /\ t[i].depth = list[j].depth
             \/ \E k \in 1..Len(new) : i = Len(list) - 1 + k /\ t[i].url = new[k] /\ t[i].depth = d
  <2>1. CASE i <= n
    <3>1. i \in 1..n /\ i + 1 \in 2..Len(list) /\ i = (i + 1) - 1
      BY <1>1, <2>1
    <3> QED
      BY <1>2, <3>1
  <2>2. CASE ~(i <= n)
    <3>1. i - n \in 1..m /\ i = n + (i - n)
      BY <1>2, <2>2
    <3>2. Len(list) - 1 = n
      BY <1>1
    <3> QED
      BY <1>1, <1>2, <3>1, <3>2
  <2> QED
    BY <2>1, <2>2
<1>4. ASSUME NEW j \in 2..Len(list) PROVE \E i \in 1..Len(t) : t[i].url = list[j].url
  <2>1. j - 1 \in 1..n /\ (j - 1) + 1 = j /\ j - 1 \in 1..Len(t)
    BY <1>1, <1>2
  <2> QED
    BY <1>2, <2>1
<1>5. ASSUME NEW k \in 1..Len(new) PROVE \E i \in 1..Len(t) : t[i].url = new[k]
  <2>1. k \in 1..m /\ n + k \in 1..Len(t)
    BY <1>1, <1>2
  <2> QED
    BY <1>2, <2>1
<1> QED
  BY <1>3, <1>4, <1>5 DEF OldOrNew, HasBoth

(* The pages that join are new, each under one name.                       *)
AllNew(M, new) ==
  \A k \in 1..Len(new) :
    /\ \A q \in M : ~SamePage(new[k], q)
    /\ \A m \in 1..Len(new) : k # m => ~SamePage(new[k], new[m])
FirstRetrieved(t, list, new, M) ==
  Retrieved(t, M \cup ToSet(new)) = Retrieved(list, M) \cup {list[1].url}
(* What was met once is met once when new pages have joined.               *)
LEMMA MetOnceAfter ==
  ASSUME NEW list \in Seq(Item), list # <<>>, NEW new \in Seq(Pages), NEW d \in Nat,
         NEW t, After(t, list, new, d),
         NEW M \in SUBSET Pages, MetOnce(list, M), AllNew(M, new)
  PROVE  /\ MetOnce(t, M \cup ToSet(new))
         /\ list[1].url \in M /\ list[1].url \notin Retrieved(list, M)
         /\ FirstRetrieved(t, list, new, M)
<1> DEFINE M2 == M \cup ToSet(new)
<1>1. ToSet(new) = {new[k] : k \in 1..Len(new)}
  BY DEF ToSet
<1>2. \A k \in 1..Len(new) : new[k] \notin M /\ \A q \in M : ~SamePage(q, new[k])
  BY SamePages DEF AllNew
<1>3. \A k, m \in 1..Len(new) : k # m => new[k] # new[m]
  BY SamePages DEF AllNew
<1>4. OldOrNew(t, list, new, d) /\ HasBoth(t, list, new)
  BY AfterHas
<1>5. 1 \in 1..Len(list) /\ \A j \in 1..Len(list) : j = 1 \/ j \in 2..Len(list)
  OBVIOUS
<1>6. \A j \in 2..Len(list) : j \in 1..Len(list) /\ j # 1
  OBVIOUS
<1>7. ASSUME NEW p \in M2, NEW q \in M2, SamePage(p, q) PROVE p = q
  <2>1. CASE p \in M /\ q \in M
    BY <1>7, <2>1 DEF MetOnce
  <2>2. CASE p \notin M
    <3>1. PICK k \in 1..Len(new) : p = new[k]
      BY <1>1, <2>2
    <3>2. q \notin M
      BY <1>7, <3>1 DEF AllNew
    <3>3. PICK m \in 1..Len(new) : q = new[m]
      BY <1>1, <3>2
    <3> QED
      BY <1>7, <3>1, <3>3 DEF AllNew
  <2>3. CASE q \notin M
    <3>1. PICK k \in 1..Len(new) : q = new[k]
      BY <1>1, <2>3
    <3>2. p \notin M
      BY <1>2, <1>7, <3>1
    <3> QED
      BY <2>2, <3>2
  <2> QED
    BY <2>1, <2>2, <2>3
<1>8. ASSUME NEW i \in 1..Len(t)
      PROVE  t[i].url \in M2 /\ \A j \in 1..Len(t) : i # j => t[i].url # t[j].url
  <2>1. \A a \in 1..Len(t) :
          \/ \E b \in 2..Len(list) : a = b - 1 /\ t[a].url = list[b].url /\ list[b].url \in M
          \/ \E k \in 1..Len(new) : a = Len(list) - 1 + k /\ t[a].url = new[k] /\ new[k] \in ToSet(new)
    BY <1>1, <1>4, <1>6 DEF OldOrNew, MetOnce
  <2>2. ASSUME NEW j \in 1..Len(t), i # j PROVE t[i].url # t[j].url
    <3>1. CASE \E b \in 2..Len(list) : i = b - 1 /\ t[i].url = list[b].url /\ list[b].url \in M
      <4>1. PICK b \in 2..Len(list) : i = b - 1 /\ t[i].url = list[b].url /\ list[b].url \in M
        BY <3>1
      <4>2. CASE \E c \in 2..Len(list) : j = c - 1 /\ t[j].url = list[c].url
        BY <1>6, <2>2, <4>1, <4>2 DEF MetOnce
      <4>3. CASE \E k \in 1..Len(new) : t[j].url = new[k]
        BY <1>2, <4>1, <4>3
      <4> QED
        BY <2>1, <4>2, <4>3
    <3>2. CASE \E k \in 1..Len(new) : i = Len(list) - 1 + k /\ t[i].url = new[k]
      <4>1. PICK k \in 1..Len(new) : i = Len(list) - 1 + k /\ t[i].url = new[k]
        BY <3>2
      <4>2. CASE \E c \in 2..Len(list) : t[j].url = list[c].url /\ list[c].url \in M
        BY <1>2, <4>1, <4>2
      <4>3. CASE \E m \in 1..Len(new) : j = Len(list) - 1 + m /\ t[j].url = new[m]
        BY <1>3, <2>2, <4>1, <4>3
      <4> QED
        BY <2>1, <4>2, <4>3
    <3> QED
      BY <2>1, <3>1, <3>2
  <2> QED
    BY <2>1, <2>2
<1>9. MetOnce(t, M2)
  BY <1>7, <1>8 DEF MetOnce
<1> DEFINE page == list[1].url
<1>10. page \in M /\ page \in Listed(list)
  BY <1>5 DEF MetOnce, Listed
<1>11. Listed(t) = (Listed(list) \ {page}) \cup ToSet(new)
  <2>1. ASSUME NEW p \in Listed(t) PROVE p \in (Listed(list) \ {page}) \cup ToSet(new)
    <3>1. PICK i \in 1..Len(t) : p = t[i].url
      BY <2>1 DEF Listed
    <3>2. CASE \E j \in 2..Len(list) : t[i].url = list[j].url
      <4>1. PICK j \in 2..Len(list) : p = list[j].url
        BY <3>1, <3>2
      <4>2. 1 \in 1..Len(list) /\ j \in 1..Len(list) /\ j # 1
        BY <1>5
      <4>3. p # page
        BY <1>6, <4>1, <4>2 DEF MetOnce
      <4> QED
        BY <4>1, <4>2, <4>3 DEF Listed
    <3>3. CASE \E k \in 1..Len(new) : t[i].url = new[k]
      BY <1>1, <3>1, <3>3
    <3> QED
      BY <1>4, <3>2, <3>3 DEF OldOrNew
  <2>2. ASSUME NEW p \in Listed(list), p # page PROVE p \in Listed(t)
    BY <1>4, <1>5, <2>2 DEF Listed, HasBoth
  <2>3. ASSUME NEW p \in ToSet(new) PROVE p \in Listed(t)
    <3>1. PICK k \in 1..Len(new) : p = new[k]
      BY <1>1
    <3>2. PICK i \in 1..Len(t) : t[i].url = new[k]
      BY <1>4 DEF HasBoth
    <3> QED
      BY <3>1, <3>2 DEF Listed
  <2> QED
    BY <2>1, <2>2, <2>3
<1>12. \A p \in ToSet(new) : p \notin M
  BY <1>1, <1>2
<1>13. Retrieved(t, M2) = Retrieved(list, M) \cup {page}
  BY <1>10, <1>11, <1>12 DEF Retrieved
<1> QED
  BY <1>9, <1>10, <1>13 DEF Retrieved, FirstRetrieved

(* A page retrieved is indexed if it is to be.                             *)
LEMMA IndexedAfter ==
  ASSUME NEW x, NEW R, NEW pages \in Seq(Pages), IndexedOnce(x, R, pages),
         NEW p \in Pages, p \notin R
  PROVE  IndexedOnce(x, R \cup {p},
           IF x.web[p].kind \in {"html", "text"} THEN Append(pages, p) ELSE pages)
<1>1. CASE x.web[p].kind \in {"html", "text"}
  <2> DEFINE t == Append(pages, p)
  <2>1. PICK n \in Nat : Len(pages) = n
    OBVIOUS
  <2>2. Len(t) = n + 1 /\ t[n + 1] = p /\ \A i \in 1..n : t[i] = pages[i]
    BY <2>1
  <2> HIDE DEF t
  <2>3. \A i \in 1..(n + 1) : i \in 1..n \/ i = n + 1
    OBVIOUS
  <2>4. \A i \in 1..n : t[i] \in R /\ \A j \in 1..n : i # j => t[i] # t[j]
    BY <2>1, <2>2 DEF IndexedOnce
  <2>5. \A i \in 1..(n + 1) : t[i] \in R \cup {p} /\ \A j \in 1..(n + 1) : i # j => t[i] # t[j]
    BY <2>2, <2>3, <2>4
  <2>6. \A q \in R : x.web[q].kind \in {"html", "text"} => \E i \in 1..(n + 1) : t[i] = q
    <3>1. \A i \in 1..n : i \in 1..(n + 1)
      OBVIOUS
    <3> QED
      BY <2>1, <2>2, <3>1 DEF IndexedOnce
  <2>7. IndexedOnce(x, R \cup {p}, t)
    BY <2>2, <2>5, <2>6 DEF IndexedOnce
  <2> QED
    BY <1>1, <2>7 DEF t
<1>2. CASE x.web[p].kind \notin {"html", "text"}
  <2>1. IndexedOnce(x, R \cup {p}, pages)
    BY <1>2 DEF IndexedOnce
  <2> QED
    BY <1>2, <2>1
<1> QED
  BY <1>1, <1>2

(* The further, the more.                                                  *)
LEMMA WithinMonotone ==
  ASSUME NEW x \in Inputs, NEW start \in Pages, NEW d \in Nat, NEW e \in Nat, d <= e
  PROVE  Within(x, start, d) \subseteq Within(x, start, e)
<1> DEFINE N == e - d
           G == {n \in 0..N : Within(x, start, d) \subseteq Within(x, start, d + n)}
<1>1. N \in Nat /\ d + N = e
  OBVIOUS
<1> HIDE DEF N
<1>2. 0 \in G
  BY <1>1
<1>3. ASSUME NEW n \in 0..(N - 1), n \in G PROVE n + 1 \in G
  <2>1. n + 1 \in 0..N /\ d + n \in Nat /\ (d + n) + 1 = d + (n + 1)
    BY <1>1
  <2>2. Within(x, start, d + n) \subseteq Within(x, start, (d + n) + 1)
    BY <2>1, WithinFacts
  <2> QED
    BY <1>3, <2>1, <2>2
<1>4. \A n \in 0..N : n \in G
  <2> HIDE DEF G
  <2> QED
    BY <1>1, <1>2, <1>3, UpTo
<1>5. N \in 0..N
  BY <1>1
<1> QED
  BY <1>1, <1>4, <1>5

(* Without redirects there is only the start, and then what links lead to. *)
LEMMA WithoutMoves ==
  ASSUME NEW x \in Inputs, \A p \in Pages : x.web[p].kind # "moved",
         NEW start \in Pages
  PROVE  /\ Nearest(x, start) \subseteq {start}
         /\ \A S \in SUBSET Pages : Farther(x, S, start) = Onward(x, S, "html", start)
<1>1. ASSUME NEW S \in SUBSET Pages PROVE MovedTo(x, S, start) = S
  <2>1. Onward(x, S, "moved", start) \subseteq S
    BY DEF Onward
  <2>2. S \subseteq MovedTo(x, S, start)
    BY MovedToLeast
  <2>3. MovedTo(x, S, start) \subseteq S
    BY <2>1, MovedToLeast
  <2> QED
    BY <2>2, <2>3
<1>2. ASSUME NEW S \in SUBSET Pages PROVE Onward(x, S, "html", start) \in SUBSET Pages
  BY OnwardGrows
<1> DEFINE T == {p \in {start} : MayFollow(x, p, start)}
<1>3. T \in SUBSET Pages /\ T \subseteq {start}
  OBVIOUS
<1>4. MovedTo(x, T, start) = T
  <2> HIDE DEF T
  <2> QED
    BY <1>1, <1>3
<1> QED
  BY <1>1, <1>2, <1>3, <1>4 DEF Nearest, Farther

(* What comes after a page within some distance of the start.              *)
LEMMA NextNear ==
  ASSUME NEW x \in Inputs, NEW start \in Pages, NEW page \in Pages, NEW d \in Nat,
         page \in Within(x, start, d), NEW p \in Pages,
         p \in ToSet(x.web[page].links), MayFollow(x, p, start)
  PROVE  p \in Within(x, start, d + (IF x.web[page].kind = "html" THEN 1 ELSE 0))
<1>1. x.web[page].kind \in {"html", "moved"}
  <2>1. x.web[page].links # <<>>
    BY DEF ToSet
  <2> QED
    BY <2>1, WebAssumption
<1>2. CASE x.web[page].kind = "html"
  <2>1. p \in Onward(x, Within(x, start, d), "html", start)
    BY <1>2 DEF Onward
  <2> QED
    BY <1>2, <2>1, WithinFacts
<1>3. CASE x.web[page].kind = "moved"
  <2>1. p \in Onward(x, Within(x, start, d), "moved", start)
    BY <1>3 DEF Onward
  <2>2. p \in Within(x, start, d)
    BY <2>1, WithinFacts
  <2> QED
    BY <1>3, <2>2
<1> QED
  BY <1>1, <1>2, <1>3

(* The items that join are as near the start as their depth says.          *)
LEMMA NearAfter ==
  ASSUME NEW x \in Inputs, NEW start \in Pages,
         NEW list \in Seq(Item), list # <<>>, ListedNear(x, list, start),
         NEW new \in Seq(Pages), NEW d \in Nat, NEW t, After(t, list, new, d),
         d = list[1].depth + (IF x.web[list[1].url].kind = "html" THEN 1 ELSE 0),
         \A k \in 1..Len(new) :
           /\ new[k] \in ToSet(x.web[list[1].url].links)
           /\ MayFollow(x, new[k], start) /\ (x.maxdepth # 0 => d < x.maxdepth)
  PROVE  ListedNear(x, t, start)
<1>1. 1 \in 1..Len(list) /\ \A j \in 2..Len(list) : j \in 1..Len(list)
  OBVIOUS
<1>2. list[1].url \in Pages /\ list[1].depth \in Nat /\ list[1].url \in Within(x, start, list[1].depth)
  <2>1. list[1] \in Item
    BY <1>1
  <2> QED
    BY <1>1, <2>1 DEF Item, ListedNear
<1>3. ASSUME NEW k \in 1..Len(new) PROVE new[k] \in Within(x, start, d)
  <2>1. new[k] \in Pages /\ new[k] \in ToSet(x.web[list[1].url].links) /\ MayFollow(x, new[k], start)
    OBVIOUS
  <2> QED
    BY <1>2, <2>1, NextNear
<1>4. OldOrNew(t, list, new, d)
  BY AfterHas
<1>5. ASSUME NEW i \in 1..Len(t)
      PROVE  /\ t[i].url \in Within(x, start, t[i].depth)
             /\ x.maxdepth # 0 => t[i].depth < x.maxdepth
  <2>1. CASE \E j \in 2..Len(list) : t[i].url = list[j].url /\ t[i].depth = list[j].depth
    BY <1>1, <2>1 DEF ListedNear
  <2>2. CASE \E k \in 1..Len(new) : t[i].url = new[k] /\ t[i].depth = d
    BY <1>3, <2>2
  <2> QED
    BY <1>4, <2>1, <2>2 DEF OldOrNew
<1> QED
  BY <1>5 DEF ListedNear

(* A page within the depth is one that is asked for, if it is to be        *)
(* indexed.                                                                *)
LEMMA NearAsked ==
  ASSUME NEW x \in Inputs, NEW start \in Pages, NEW p, NEW d \in Nat,
         p \in Within(x, start, d), x.maxdepth # 0 => d < x.maxdepth,
         x.web[p].kind \in {"html", "text"}
  PROVE  p \in Asked(x, start)
<1>1. x.maxdepth \in Nat
  BY WebAssumption
<1>2. CASE x.maxdepth = 0
  <2>1. Within(x, start, d) \subseteq Within(x, start, Cardinality(Pages))
    BY WithinFacts
  <2> QED
    BY <1>2, <2>1 DEF Asked, Reach
<1>3. CASE x.maxdepth # 0
  <2>1. x.maxdepth - 1 \in Nat /\ d <= x.maxdepth - 1
    BY <1>1, <1>3
  <2>2. Within(x, start, d) \subseteq Within(x, start, x.maxdepth - 1)
    BY <2>1, WithinMonotone
  <2> QED
    BY <1>3, <2>2 DEF Asked, Reach
<1> QED
  BY <1>2, <1>3

(* More pages met close no fewer.                                          *)
LEMMA ClosedMore ==
  ASSUME NEW x, NEW M, NEW M2, M \subseteq M2
  PROVE  /\ \A p : Covered(M, p) => Covered(M2, p)
         /\ \A q : Closed(x, M, q) => Closed(x, M2, q)
BY DEF Covered, Closed

(* A page is closed when all of its links that are permitted are met.      *)
LEMMA ClosedNow ==
  ASSUME NEW x \in Inputs, NEW start \in Pages, NEW page \in Pages,
         MayFollow(x, page, start), NEW M,
         \A p \in ToSet(x.web[page].links) : MayFollow(x, p, start) => Covered(M, p)
  PROVE  Closed(x, M, page)
<1>1. ToSet(x.web[page].links) \subseteq Pages
  <2>1. x.web[page].links \in Seq(Pages)
    BY WebAssumption
  <2> QED
    BY <2>1 DEF ToSet
<1>2. EquivalentServer(page, start)
  BY DEF MayFollow
<1>3. ASSUME NEW p \in ToSet(x.web[page].links), MayFollow(x, p, page) PROVE Covered(M, p)
  <2>1. p \in Pages /\ SamePage(p, p)
    BY <1>1, SamePages
  <2>2. MayFollow(x, p, start)
    BY <1>2, <1>3, <2>1, MayFollowSame
  <2> QED
    BY <2>2
<1> QED
  BY <1>3 DEF Closed

(* Closed pages of one name cover what others of that name link to.        *)
LEMMA ClosedCovers ==
  ASSUME NEW x \in Inputs, NEW start \in Pages, NEW M, NEW r \in Pages, NEW q \in Pages,
         SamePage(r, q), Closed(x, M, q), MayFollow(x, r, start),
         NEW p \in ToSet(x.web[r].links), MayFollow(x, p, start)
  PROVE  Covered(M, p)
<1>1. x.web[r] = x.web[q] /\ x.web[r].links \in Seq(Pages)
  BY WebAssumption
<1>2. p \in Pages /\ SamePage(p, p)
  BY <1>1, SamePages DEF ToSet
<1>3. EquivalentServer(start, q)
  <2>1. EquivalentServer(r, start) /\ EquivalentServer(r, q)
    BY SamePages DEF MayFollow
  <2> QED
    BY <2>1, SamePages
<1>4. MayFollow(x, p, q)
  BY <1>2, <1>3, MayFollowSame
<1> QED
  BY <1>1, <1>4 DEF Closed

(* When all that was met is closed, all within any distance is met.        *)
LEMMA AllWithin ==
  ASSUME NEW x \in Inputs, NEW start \in Pages, NEW M \in SUBSET Pages,
         \A q \in M : Closed(x, M, q),
         MayFollow(x, start, start) => Covered(M, start),
         NEW d \in Nat
  PROVE  \A p \in Within(x, start, d) : Covered(M, p)
<1> DEFINE T == {p \in Pages : MayFollow(x, p, start) /\ Covered(M, p)}
<1>1. ASSUME NEW kind PROVE Onward(x, T, kind, start) \subseteq T
  <2>1. Onward(x, T, kind, start) \in SUBSET Pages
    <3>1. T \in SUBSET Pages
      OBVIOUS
    <3> HIDE DEF T
    <3> QED
      BY <3>1, OnwardGrows
  <2>2. ASSUME NEW p \in Onward(x, T, kind, start) PROVE p \in T
    <3>1. CASE p \in T
      BY <3>1
    <3>2. CASE p \notin T
      <4>1. PICK r \in T : p \in ToSet(x.web[r].links) /\ MayFollow(x, p, start)
        BY <2>2, <3>2 DEF Onward
      <4>2. r \in Pages /\ MayFollow(x, r, start)
        OBVIOUS
      <4>3. PICK q \in M : SamePage(r, q)
        BY DEF Covered
      <4>4. Covered(M, p)
        BY <4>1, <4>2, <4>3, ClosedCovers
      <4> QED
        BY <2>1, <2>2, <4>1, <4>4
    <3> QED
      BY <3>1, <3>2
  <2> QED
    BY <2>2
<1>2. T \in SUBSET Pages /\ (MayFollow(x, start, start) => start \in T)
  OBVIOUS
<1>3. Within(x, start, d) \subseteq T
  <2> HIDE DEF T
  <2> QED
    BY <1>1, <1>2, WithinLeast
<1> QED
  BY <1>3

(* The list keeps to two depths, in order.                                 *)
LEMMA DepthsAfter ==
  ASSUME NEW list \in Seq(Item), list # <<>>, NEW new \in Seq(Pages), NEW d \in Nat,
         NEW t, After(t, list, new, d), Len(t) # 0,
         NEW h \in Nat, TwoDepths(list, h), d \in {h, h + 1}, Len(new) # 0 => d = h + 1
  PROVE  /\ TwoDepths(t, t[1].depth)
         /\ t[1].depth \in {h, h + 1}
         /\ t[1].depth = h + 1 => \A i \in 1..Len(t) : t[i].depth = h + 1
<1>1. OldOrNew(t, list, new, d)
  BY AfterHas
<1>2. \A j \in 2..Len(list) : j \in 1..Len(list)
  OBVIOUS
<1>3. \A k \in 1..Len(new) : Len(new) # 0
  OBVIOUS
<1>4. \A i \in 1..Len(t) :
        \/ \E j \in 2..Len(list) : i = j - 1 /\ t[i].depth = list[j].depth
        \/ \E k \in 1..Len(new) : i = Len(list) - 1 + k /\ t[i].depth = h + 1
  BY <1>1, <1>3 DEF OldOrNew
<1>5. \A i \in 1..Len(t) : t[i].depth \in {h, h + 1}
  BY <1>2, <1>4 DEF TwoDepths
<1>6. ASSUME NEW i \in 1..Len(t), NEW j \in 1..Len(t), i < j PROVE t[i].depth <= t[j].depth
  <2>1. CASE \E c \in 1..Len(new) : t[j].depth = h + 1
    BY <1>5, <2>1
  <2>2. CASE \E c \in 2..Len(list) : j = c - 1 /\ t[j].depth = list[c].depth
    <3>1. PICK c \in 2..Len(list) : j = c - 1 /\ t[j].depth = list[c].depth
      BY <2>2
    <3>2. CASE \E b \in 2..Len(list) : i = b - 1 /\ t[i].depth = list[b].depth
      <4>1. PICK b \in 2..Len(list) : i = b - 1 /\ t[i].depth = list[b].depth
        BY <3>2
      <4>2. b < c /\ b \in 1..Len(list) /\ c \in 1..Len(list)
        BY <1>6, <3>1, <4>1
      <4> QED
        BY <3>1, <4>1, <4>2 DEF TwoDepths
    <3>3. CASE \E k \in 1..Len(new) : i = Len(list) - 1 + k
      <4>1. PICK k \in 1..Len(new) : i = Len(list) - 1 + k
        BY <3>3
      <4>2. Len(list) \in Nat
        OBVIOUS
      <4> QED
        BY <1>6, <3>1, <4>1, <4>2
    <3> QED
      BY <1>4, <3>2, <3>3
  <2> QED
    BY <1>4, <2>1, <2>2
<1>7. 1 \in 1..Len(t) /\ \A i \in 1..Len(t) : i = 1 \/ 1 < i
  <2>1. Len(t) \in Nat
    BY DEF After
  <2> QED
    BY <2>1
<1>8. ASSUME t[1].depth = h + 1, NEW i \in 1..Len(t) PROVE t[i].depth = h + 1
  <2>1. i = 1 \/ t[1].depth <= t[i].depth
    BY <1>6, <1>7
  <2>2. t[i].depth \in {h, h + 1}
    BY <1>5
  <2> QED
    BY <1>8, <2>1, <2>2
<1>9. TwoDepths(t, t[1].depth)
  <2>1. CASE t[1].depth = h
    BY <1>5, <1>6, <2>1 DEF TwoDepths
  <2>2. CASE t[1].depth = h + 1
    BY <1>6, <1>8, <2>2 DEF TwoDepths
  <2> QED
    BY <1>5, <1>7, <2>1, <2>2
<1> QED
  BY <1>5, <1>7, <1>8, <1>9

(* Once the last page within h is retrieved, all within h + 1 is met.      *)
LEMMA NextDepthMet ==
  ASSUME NEW x \in Inputs, OneByOne(x), NEW start \in Pages,
         NEW list \in Seq(Item), list # <<>>, NEW new \in Seq(Pages), NEW d \in Nat,
         NEW t, After(t, list, new, d),
         NEW M \in SUBSET Pages, MetOnce(list, M), AllNew(M, new),
         NEW h \in Nat, MetAtMost(x, list, M, start, h),
         \A i \in 1..Len(t) : t[i].depth = h + 1,
         AllClosed(x, t, M \cup ToSet(new))
  PROVE  MetAtMost(x, t, M \cup ToSet(new), start, h + 1)
<1> DEFINE M2 == M \cup ToSet(new)
<1>1. \A k \in 1..Len(new) : new[k] \notin M
  BY SamePages DEF AllNew
<1>2. Within(x, start, h) \in SUBSET Pages
  BY WithinSteps
<1>3. Within(x, start, h + 1) = Onward(x, Within(x, start, h), "html", start)
  <2>1. Within(x, start, h + 1) = Farther(x, Within(x, start, h), start)
    BY WithinSteps
  <2>2. \A p \in Pages : x.web[p].kind # "moved"
    BY DEF OneByOne
  <2>3. Farther(x, Within(x, start, h), start) = Onward(x, Within(x, start, h), "html", start)
    BY <1>2, <2>2, WithoutMoves
  <2> QED
    BY <2>1, <2>3
<1>4. ASSUME NEW p \in Within(x, start, h + 1) PROVE Covered(M2, p)
  <2>1. CASE p \in Within(x, start, h)
    BY <2>1 DEF MetAtMost, Covered
  <2>2. CASE p \notin Within(x, start, h)
    <3>1. PICK r \in Within(x, start, h) : p \in ToSet(x.web[r].links) /\ MayFollow(x, p, start)
      BY <1>3, <2>2 DEF Onward
    <3>2. r \in Pages /\ MayFollow(x, r, start)
      BY <1>2, WithinFacts
    <3>3. PICK q \in M : /\ SamePage(r, q)
                         /\ \A i \in 1..Len(list) : list[i].url = q => list[i].depth = h
      BY DEF MetAtMost
    <3>4. q \in Retrieved(t, M2)
      <4>1. SUFFICES ASSUME NEW i \in 1..Len(t), t[i].url = q PROVE FALSE
        BY DEF Retrieved, Listed
      <4>2. OldOrNew(t, list, new, d)
        BY AfterHas
      <4>3. PICK j \in 2..Len(list) : t[i].url = list[j].url /\ t[i].depth = list[j].depth
        BY <1>1, <4>1, <4>2 DEF OldOrNew
      <4>4. j \in 1..Len(list)
        OBVIOUS
      <4>5. t[i].depth = h
        BY <3>3, <4>1, <4>3, <4>4
      <4> QED
        BY <4>5
    <3>5. Closed(x, M2, q)
      BY <3>4 DEF AllClosed
    <3> QED
      BY <3>1, <3>2, <3>3, <3>5, ClosedCovers
  <2> QED
    BY <2>1, <2>2
<1> QED
  BY <1>4 DEF MetAtMost, Covered

(* So pages go on being retrieved in the order of their distance.          *)
LEMMA BreadthAfter ==
  ASSUME NEW x \in Inputs, OneByOne(x), NEW n,
         NEW list \in Seq(Item), list # <<>>, NEW new \in Seq(Pages), NEW d \in Nat,
         NEW t, After(t, list, new, d),
         NEW M \in SUBSET Pages, MetOnce(list, M), AllNew(M, new),
         NEW h \in Nat, h = list[1].depth, h < x.maxdepth,
         d \in {h, h + 1}, Len(new) # 0 => d = h + 1,
         BreadthFirst(x, 1, list, M),
         \A i \in 1..Len(t) : t[i].depth < x.maxdepth,
         d < x.maxdepth => Closed(x, M \cup ToSet(new), list[1].url)
  PROVE  BreadthFirst(x, n, t, M \cup ToSet(new))
<1> DEFINE M2 == M \cup ToSet(new)
           start == x.starts[1]
<1>0. x.maxdepth \in Nat /\ start \in Pages
  BY WebAssumption DEF OneByOne
<1>1. /\ TwoDepths(list, h) /\ MetAtMost(x, list, M, start, h)
      /\ h + 1 < x.maxdepth => AllClosed(x, list, M)
  <2>1. Len(list) # 0
    OBVIOUS
  <2> QED
    BY <2>1 DEF BreadthFirst
<1>2. Retrieved(t, M2) = Retrieved(list, M) \cup {list[1].url}
  <2>1. FirstRetrieved(t, list, new, M)
    BY MetOnceAfter
  <2> QED
    BY <2>1 DEF FirstRetrieved
<1>3. h + 1 < x.maxdepth => AllClosed(x, t, M2)
  <2>1. h + 1 < x.maxdepth => d < x.maxdepth
    BY <1>0
  <2>2. \A q : Closed(x, M, q) => Closed(x, M2, q)
    BY ClosedMore
  <2> QED
    BY <1>1, <1>2, <2>1, <2>2 DEF AllClosed
<1>4. CASE Len(t) = 0
  <2>1. CASE h + 1 < x.maxdepth
    BY <1>3, <1>4, <2>1 DEF BreadthFirst
  <2>2. CASE ~(h + 1 < x.maxdepth)
    <3>1. h = x.maxdepth - 1
      BY <1>0, <2>2
    <3>2. \A p \in Within(x, start, x.maxdepth - 1) : Covered(M2, p)
      BY <1>1, <3>1 DEF MetAtMost, Covered
    <3> QED
      BY <1>4, <3>2 DEF BreadthFirst
  <2> QED
    BY <2>1, <2>2
<1>5. CASE Len(t) # 0
  <2>1. /\ TwoDepths(t, t[1].depth) /\ t[1].depth \in {h, h + 1}
        /\ t[1].depth = h + 1 => \A i \in 1..Len(t) : t[i].depth = h + 1
    BY <1>1, <1>5, DepthsAfter
  <2>2. CASE t[1].depth = h
    <3>1. MetAtMost(x, t, M2, start, h)
      <4>1. \A k \in 1..Len(new) : new[k] \notin M
        BY SamePages DEF AllNew
      <4>2. OldOrNew(t, list, new, d)
        BY AfterHas
      <4>3. \A j \in 2..Len(list) : j \in 1..Len(list)
        OBVIOUS
      <4>4. ASSUME NEW q \in M, \A i \in 1..Len(list) : list[i].url = q => list[i].depth = h,
                   NEW i \in 1..Len(t), t[i].url = q
            PROVE  t[i].depth = h
        BY <4>1, <4>2, <4>3, <4>4 DEF OldOrNew
      <4>5. \A p \in Within(x, start, h) : \E q \in M2 :
              /\ SamePage(p, q)
              /\ \A i \in 1..Len(t) : t[i].url = q => t[i].depth = h
        <5> SUFFICES ASSUME NEW p \in Within(x, start, h)
            PROVE  \E q \in M2 : /\ SamePage(p, q)
                                 /\ \A i \in 1..Len(t) : t[i].url = q => t[i].depth = h
          OBVIOUS
        <5>1. PICK q \in M : /\ SamePage(p, q)
                             /\ \A i \in 1..Len(list) : list[i].url = q => list[i].depth = h
          BY <1>1 DEF MetAtMost
        <5>2. q \in M2 /\ \A i \in 1..Len(t) : t[i].url = q => t[i].depth = h
          BY <4>4, <5>1
        <5> QED
          BY <5>1, <5>2
      <4> QED
        BY <4>5 DEF MetAtMost
    <3> QED
      BY <1>3, <1>5, <2>1, <2>2, <3>1 DEF BreadthFirst
  <2>3. CASE t[1].depth = h + 1
    <3>1. h + 1 < x.maxdepth
      <4>1. Len(t) \in Nat
        BY DEF After
      <4>2. 1 \in 1..Len(t)
        BY <1>5, <4>1
      <4> QED
        BY <2>3, <4>2
    <3>2. AllClosed(x, t, M2)
      BY <1>3, <3>1
    <3>3. \A i \in 1..Len(t) : t[i].depth = h + 1
      BY <2>1, <2>3
    <3>4. MetAtMost(x, t, M2, start, h + 1)
      BY <1>0, <1>1, <3>2, <3>3, NextDepthMet
    <3> QED
      BY <1>5, <2>1, <2>3, <3>2, <3>4 DEF BreadthFirst
  <2> QED
    BY <2>1, <2>2, <2>3
<1> QED
  BY <1>4, <1>5

-----------------------------------------------------------------------------
(* The spider's invariant.                                                 *)
SpiderTypes ==
  /\ input \in Inputs /\ next \in 0..Len(input.starts)
  /\ servers \in Seq(ServerNames) /\ urllist \in Seq(Item)
  /\ met \in SUBSET Pages /\ got \in Seq(Pages)
  /\ urllist # <<>> => next # 0 /\ Knows(servers, input.starts[next])
SpiderInv ==
  /\ SpiderTypes
  /\ next = 0 => met = {}
  /\ MetOnce(urllist, met)
  /\ IndexedOnce(input, Retrieved(urllist, met), got)
  /\ urllist # <<>> => ListedNear(input, urllist, input.starts[next])
  /\ OnlyAsked(input, got)
  /\ StartsMet(input, next, met)
  /\ AllMet(input, next, urllist, met)

(* The invariant holds at first.                                           *)
LEMMA SpiderInvInit ==
  ASSUME SpiderInit
  PROVE  SpiderInv
<1>1. input \in Inputs /\ next = 0 /\ servers = <<>> /\ urllist = <<>> /\ met = {} /\ got = <<>>
  BY DEF SpiderInit
<1>2. SpiderTypes
  <2>1. Len(input.starts) \in Nat
    BY <1>1, WebAssumption
  <2> QED
    BY <1>1, <2>1 DEF SpiderTypes
<1>3. Len(urllist) = 0 /\ Len(got) = 0
  BY <1>1
<1>4. Retrieved(urllist, met) = {}
  BY <1>1 DEF Retrieved
<1>5. MetOnce(urllist, met) /\ IndexedOnce(input, {}, got) /\ OnlyAsked(input, got)
  BY <1>1, <1>3 DEF MetOnce, IndexedOnce, OnlyAsked
<1>6. StartsMet(input, next, met)
  BY <1>1 DEF StartsMet
<1>7. AllMet(input, next, urllist, met)
  BY <1>1, <1>3, <1>4 DEF AllMet, AllClosed, BreadthFirst
<1> QED
  BY <1>1, <1>2, <1>4, <1>5, <1>6, <1>7 DEF SpiderInv

(* It holds after a page is retrieved.                                     *)
LEMMA SpiderInvRetrieve ==
  ASSUME SpiderInv, Retrieve
  PROVE  SpiderInv'
<1>1. PICK x \in Inputs, n \in Nat : x = input /\ n = next /\ n # 0 /\ n \in 1..Len(x.starts)
  <2>1. Len(input.starts) \in Nat
    BY WebAssumption DEF SpiderInv, SpiderTypes
  <2>2. next \in 0..Len(input.starts) /\ next # 0 /\ input \in Inputs
    BY DEF SpiderInv, SpiderTypes, Retrieve
  <2> QED
    BY <2>1, <2>2
<1>2. PICK list \in Seq(Item), M \in SUBSET Pages, pages \in Seq(Pages) :
        list = urllist /\ M = met /\ pages = got /\ list # <<>>
  BY DEF SpiderInv, SpiderTypes, Retrieve
<1>3. PICK start \in Pages : start = x.starts[n] /\ Knows(servers, start)
  <2>1. x.starts \in Seq(Pages)
    BY WebAssumption
  <2>2. x.starts[n] \in Pages
    BY <1>1, <2>1
  <2>3. Knows(servers, x.starts[n])
    BY <1>1, <1>2 DEF SpiderInv, SpiderTypes
  <2> QED
    BY <2>2, <2>3
<1>4. servers \in Seq(ServerNames)
  BY DEF SpiderInv, SpiderTypes
<1>5. PICK page \in Pages, h \in Nat : page = list[1].url /\ h = list[1].depth
  <2>1. list[1] \in Item
    BY <1>2
  <2> QED
    BY <2>1 DEF Item
<1> DEFINE links == x.web[page].links
           kind == x.web[page].kind
           d == h + (IF kind = "html" THEN 1 ELSE 0)
<1>6. links \in Seq(Pages) /\ d \in Nat
  BY WebAssumption
<1>7. PICK new \in Seq(Pages) :
        new = Joining(links, d, start) /\ Joins(new, links, Len(links), d, start)
  <2> HIDE DEF links, d
  <2> QED
    BY <1>6, JoiningJoins
<1> DEFINE M2 == M \cup ToSet(new)
           pages2 == IF kind \in {"html", "text"} THEN Append(pages, page) ELSE pages
<1>8. PICK t \in Seq(Item) :
        /\ t = Queued(Tail(list), [i \in 1..Len(new) |-> [url |-> new[i], depth |-> d]])
        /\ After(t, list, new, d)
  <2> HIDE DEF d
  <2>1. After(Queued(Tail(list), [i \in 1..Len(new) |-> [url |-> new[i], depth |-> d]]), list, new, d)
    BY <1>2, <1>6, ListAfter
  <2> QED
    BY <2>1 DEF After
<1>9. /\ urllist' = t /\ met' = M2 /\ got' = pages2
      /\ input' = x /\ next' = n /\ servers' = servers
  <2>1. Head(urllist).url = page /\ Head(urllist).depth = h
    BY <1>2, <1>5
  <2>2. Links(page) = links /\ Kind(page) = kind
    BY <1>1 DEF Links, Kind
  <2>3. input.starts[next] = start
    BY <1>1, <1>3
  <2> HIDE DEF links, kind
  <2> QED
    BY <1>1, <1>2, <1>7, <1>8, <2>1, <2>2, <2>3 DEF Retrieve, Marked
<1> HIDE DEF links, kind, d, pages2
<1>10. \A p \in Pages : Permitted(servers, p, d, start) <=> MayFollow(x, p, start) /\ ~TooDeep(d)
  BY <1>1, <1>3, <1>4, PermittedMay
<1>11. x.maxdepth \in Nat /\ (TooDeep(d) <=> x.maxdepth # 0 /\ d >= x.maxdepth)
  BY <1>1, WebAssumption DEF TooDeep
<1>12. \A k \in 1..Len(new) :
         new[k] \in ToSet(links) /\ MayFollow(x, new[k], start) /\ (x.maxdepth # 0 => d < x.maxdepth)
  <2>1. \A k \in 1..Len(new) : new[k] \in Pages
    OBVIOUS
  <2>2. \A k \in 1..Len(new) : new[k] \in ToSet(links) /\ Permitted(servers, new[k], d, start)
    BY <1>7 DEF Joins
  <2> QED
    BY <1>6, <1>10, <1>11, <2>1, <2>2
<1>13. AllNew(M, new)
  BY <1>2, <1>7 DEF Joins, AllNew
<1>14. /\ MetOnce(list, M) /\ IndexedOnce(x, Retrieved(list, M), pages)
       /\ ListedNear(x, list, start) /\ OnlyAsked(x, pages)
       /\ StartsMet(x, n, M) /\ AllMet(x, n, list, M)
  BY <1>1, <1>2, <1>3 DEF SpiderInv
<1>15. /\ MetOnce(t, M2) /\ FirstRetrieved(t, list, new, M)
       /\ page \in M /\ page \notin Retrieved(list, M)
  BY <1>2, <1>5, <1>6, <1>8, <1>13, <1>14, MetOnceAfter
<1>26. Retrieved(t, M2) = Retrieved(list, M) \cup {page}
  BY <1>5, <1>15 DEF FirstRetrieved
<1>16. IndexedOnce(x, Retrieved(t, M2), pages2)
  <2>1. IndexedOnce(x, Retrieved(list, M) \cup {page}, pages2)
    BY <1>14, <1>15, IndexedAfter DEF pages2, kind
  <2> QED
    BY <1>26, <2>1
<1>17. /\ page \in Within(x, start, h) /\ (x.maxdepth # 0 => h < x.maxdepth)
       /\ MayFollow(x, page, start)
  <2>1. 1 \in 1..Len(list)
    BY <1>2
  <2>2. page \in Within(x, start, h) /\ (x.maxdepth # 0 => h < x.maxdepth)
    BY <1>5, <1>14, <2>1 DEF ListedNear
  <2> QED
    BY <2>2, WithinFacts
<1>18. ListedNear(x, t, start)
  BY <1>2, <1>5, <1>6, <1>8, <1>12, <1>14, NearAfter DEF d, kind, links
<1>19. OnlyAsked(x, pages2)
  <2>1. CASE kind \in {"html", "text"}
    <3>1. page \in Asked(x, start)
      BY <1>17, <2>1, NearAsked DEF kind
    <3>2. \E k \in 1..Len(x.starts) : page \in Asked(x, x.starts[k])
      BY <1>1, <1>3, <3>1
    <3>3. \A i \in 1..Len(pages2) : (i \in 1..Len(pages) /\ pages2[i] = pages[i]) \/ pages2[i] = page
      BY <2>1 DEF pages2
    <3> QED
      BY <1>14, <3>2, <3>3 DEF OnlyAsked
  <2>2. CASE kind \notin {"html", "text"}
    BY <1>14, <2>2 DEF pages2
  <2> QED
    BY <2>1, <2>2
<1>20. (\A p : Covered(M, p) => Covered(M2, p)) /\ (\A q : Closed(x, M, q) => Closed(x, M2, q))
  BY ClosedMore
<1>21. StartsMet(x, n, M2)
  BY <1>14, <1>20 DEF StartsMet
<1>22. (x.maxdepth = 0 \/ d < x.maxdepth) => Closed(x, M2, page)
  <2> SUFFICES ASSUME x.maxdepth = 0 \/ d < x.maxdepth,
                      NEW p \in ToSet(links), MayFollow(x, p, start)
      PROVE  Covered(M2, p)
    BY <1>17, ClosedNow DEF links
  <2>1. PICK j \in 1..Len(links) : p = links[j] /\ p \in Pages
    <3>1. ToSet(links) = {links[j] : j \in 1..Len(links)}
      BY <1>6 DEF ToSet
    <3>2. \A j \in 1..Len(links) : links[j] \in Pages
      BY <1>6
    <3> QED
      BY <3>1, <3>2
  <2>2. Permitted(servers, links[j], d, start)
    BY <1>6, <1>10, <1>11, <2>1
  <2>3. \/ \E q \in met : SamePage(links[j], q)
        \/ \E k \in 1..Len(new) : SamePage(links[j], new[k])
    BY <1>7, <2>2 DEF Joins
  <2>4. \A k \in 1..Len(new) : new[k] \in M2
    BY DEF ToSet
  <2> QED
    BY <1>2, <2>1, <2>3, <2>4 DEF Covered
<1>23. AllMet(x, n, t, M2)
  <2>1. CASE x.maxdepth = 0
    <3>1. AllClosed(x, list, M)
      BY <1>14, <2>1 DEF AllMet
    <3>2. AllClosed(x, t, M2)
      BY <1>20, <1>22, <1>26, <2>1, <3>1 DEF AllClosed
    <3> QED
      BY <2>1, <3>2 DEF AllMet
  <2>2. CASE x.maxdepth # 0
    <3>1. SUFFICES ASSUME OneByOne(x) PROVE BreadthFirst(x, n, t, M2)
      BY <2>2 DEF AllMet
    <3>2. n = 1
      BY <1>1, <3>1 DEF OneByOne
    <3>3. BreadthFirst(x, 1, list, M)
      BY <1>14, <2>2, <3>1, <3>2 DEF AllMet
    <3>4. d \in {h, h + 1}
      BY DEF d
    <3>5. Len(new) # 0 => d = h + 1
      <4>1. SUFFICES ASSUME Len(new) # 0 PROVE kind = "html"
        BY DEF d
      <4>2. 1 \in 1..Len(new)
        BY <4>1
      <4>3. links # <<>>
        BY <1>12, <4>2 DEF ToSet
      <4>4. kind # "moved"
        BY <3>1 DEF OneByOne, kind
      <4> QED
        BY <4>3, <4>4, WebAssumption DEF links, kind
    <3>6. \A i \in 1..Len(t) : t[i].depth < x.maxdepth
      BY <1>18, <2>2 DEF ListedNear
    <3>7. d < x.maxdepth => Closed(x, M2, list[1].url)
      BY <1>5, <1>22
    <3>8. h < x.maxdepth
      BY <1>17, <2>2
    <3> QED
      BY <1>2, <1>5, <1>6, <1>8, <1>13, <1>14, <3>1, <3>3, <3>4, <3>5, <3>6, <3>7, <3>8, BreadthAfter
  <2> QED
    BY <2>1, <2>2
<1>24. SpiderTypes'
  <2>1. pages2 \in Seq(Pages)
    BY DEF pages2
  <2>2. M2 \in SUBSET Pages
    BY DEF ToSet
  <2>3. n \in 0..Len(x.starts)
    BY <1>1
  <2> HIDE DEF M2
  <2>4. Knows(servers', input'.starts[next'])
    BY <1>3, <1>9
  <2> QED
    BY <1>1, <1>4, <1>9, <2>1, <2>2, <2>3, <2>4 DEF SpiderTypes
<1> HIDE DEF M2
<1>25. /\ MetOnce(urllist', met') /\ IndexedOnce(input', Retrieved(urllist', met'), got')
       /\ ListedNear(input', urllist', input'.starts[next'])
       /\ OnlyAsked(input', got') /\ StartsMet(input', next', met')
       /\ AllMet(input', next', urllist', met')
  BY <1>3, <1>9, <1>15, <1>16, <1>18, <1>19, <1>21, <1>23
<1> QED
  BY <1>1, <1>9, <1>24, <1>25 DEF SpiderInv

(* It holds after the next address of IndexDir is tried.                   *)
LEMMA SpiderInvNextStart ==
  ASSUME SpiderInv, NextStart
  PROVE  SpiderInv'
<1>1. PICK x \in Inputs, n \in Nat :
        x = input /\ n = next /\ n < Len(x.starts) /\ Len(x.starts) \in Nat /\ x.starts \in Seq(Pages)
  <2>1. input \in Inputs /\ next \in 0..Len(input.starts)
    BY DEF SpiderInv, SpiderTypes
  <2>2. input.starts \in Seq(Pages)
    BY <2>1, WebAssumption
  <2> QED
    BY <2>1, <2>2 DEF NextStart
<1>2. PICK list \in Seq(Item), M \in SUBSET Pages, pages \in Seq(Pages) :
        list = urllist /\ M = met /\ pages = got /\ list = <<>>
  BY DEF SpiderInv, SpiderTypes, NextStart
<1>3. PICK start \in Pages : start = x.starts[n + 1]
  BY <1>1
<1>4. PICK known \in Seq(ServerNames) :
        known = GetServerInfo(servers, start) /\ Knows(known, start)
  BY ServerKnown DEF SpiderInv, SpiderTypes
<1>5. /\ input' = x /\ next' = n + 1 /\ got' = pages /\ servers' = known
      /\ n + 1 \in 0..Len(x.starts) /\ n + 1 # 0
  BY <1>1, <1>2, <1>3, <1>4 DEF NextStart
<1>6. Permitted(known, start, 0, start) <=> MayFollow(x, start, start)
  <2>1. Permitted(known, start, 0, start) <=> MayFollow(x, start, start) /\ ~TooDeep(0)
    BY <1>1, <1>4, PermittedMay
  <2>2. ~TooDeep(0)
    BY <1>1, WebAssumption DEF TooDeep
  <2> QED
    BY <2>1, <2>2
<1> DEFINE refused == ~MayFollow(x, start, start) \/ Covered(M, start)
           item == [url |-> start, depth |-> 0]
<1>7. /\ refused => urllist' = list /\ met' = M
      /\ ~refused => urllist' = <<item>> /\ met' = M \cup {start}
  <2>1. refused <=> ~Permitted(known, start, 0, start) \/ \E q \in met : SamePage(start, q)
    BY <1>2, <1>6 DEF Covered
  <2>2. Queued(<<>>, <<item>>) = <<item>>
    <3>1. item \in Item
      BY DEF Item
    <3> HIDE DEF item
    <3> QED
      BY <3>1 DEF Queued
  <2> HIDE DEF refused, item
  <2> QED
    BY <1>1, <1>2, <1>3, <1>4, <2>1, <2>2 DEF NextStart, Marked, item
<1>8. /\ MetOnce(list, M) /\ IndexedOnce(x, Retrieved(list, M), pages)
      /\ OnlyAsked(x, pages) /\ StartsMet(x, n, M) /\ AllMet(x, n, list, M)
      /\ n = 0 => M = {}
  BY <1>1, <1>2 DEF SpiderInv
<1>9. Retrieved(list, M) = M
  BY <1>2 DEF Retrieved, Listed
<1>10. x.maxdepth \in Nat
  BY WebAssumption
<1>11. OneByOne(x) => n = 0 /\ M = {}
  BY <1>1, <1>8 DEF OneByOne
<1>12. CASE refused
  <2>1. StartsMet(x, n + 1, M)
    <3>1. \A k \in 1..(n + 1) : k \in 1..n \/ k = n + 1
      BY <1>1
    <3> QED
      BY <1>3, <1>8, <1>12, <3>1 DEF StartsMet
  <2>2. AllMet(x, n + 1, list, M)
    <3>1. CASE x.maxdepth = 0
      BY <1>8, <3>1 DEF AllMet
    <3>2. CASE x.maxdepth # 0
      <4>1. OneByOne(x) => AllClosed(x, list, M)
        BY <1>9, <1>11 DEF AllClosed
      <4>2. Len(list) = 0
        BY <1>2
      <4> QED
        BY <3>2, <4>1, <4>2 DEF AllMet, BreadthFirst
    <3> QED
      BY <3>1, <3>2
  <2> HIDE DEF refused
  <2>3. SpiderTypes'
    BY <1>1, <1>2, <1>5, <1>7, <1>12 DEF SpiderTypes
  <2> QED
    BY <1>2, <1>5, <1>7, <1>8, <1>12, <2>1, <2>2, <2>3 DEF SpiderInv
<1>13. CASE ~refused
  <2>1. PICK t \in Seq(Item) : t = <<item>> /\ Len(t) = 1 /\ t[1].url = start /\ t[1].depth = 0
    <3>1. item \in Item /\ item.url = start /\ item.depth = 0
      BY DEF Item
    <3> HIDE DEF item
    <3>2. <<item>> \in Seq(Item) /\ Len(<<item>>) = 1
      BY <3>1
    <3>3. <<item>>[1] = item
      OBVIOUS
    <3> QED
      BY <3>1, <3>2, <3>3
  <2> DEFINE M2 == M \cup {start}
  <2>2. \A i \in 1..Len(t) : i = 1
    BY <2>1
  <2>3. MayFollow(x, start, start) /\ \A q \in M : ~SamePage(start, q) /\ ~SamePage(q, start)
    BY <1>13, SamePages DEF Covered
  <2>4. start \notin M
    BY <2>3, SamePages
  <2>5. Listed(t) = {start}
    BY <2>1 DEF Listed
  <2>6. Retrieved(t, M2) = M
    BY <2>4, <2>5 DEF Retrieved
  <2>7. MetOnce(t, M2)
    BY <1>8, <2>1, <2>2, <2>3 DEF MetOnce
  <2>8. ListedNear(x, t, start)
    <3>1. start \in Within(x, start, 0)
      BY <2>3, WithinFacts
    <3> QED
      BY <1>10, <2>1, <2>2, <3>1 DEF ListedNear
  <2>9. (\A p : Covered(M, p) => Covered(M2, p)) /\ (\A q : Closed(x, M, q) => Closed(x, M2, q))
    BY ClosedMore
  <2>10. StartsMet(x, n + 1, M2)
    <3>1. \A k \in 1..(n + 1) : k \in 1..n \/ k = n + 1
      BY <1>1
    <3>2. Covered(M2, start)
      BY SamePages DEF Covered
    <3> HIDE DEF M2, refused
    <3> QED
      BY <1>3, <1>8, <2>9, <3>1, <3>2 DEF StartsMet
  <2>11. AllMet(x, n + 1, t, M2)
    <3>1. CASE x.maxdepth = 0
      <4>1. AllClosed(x, t, M2)
        BY <1>8, <1>9, <2>6, <2>9, <3>1 DEF AllMet, AllClosed
      <4> QED
        BY <3>1, <4>1 DEF AllMet
    <3>2. CASE x.maxdepth # 0
      <4>1. SUFFICES ASSUME OneByOne(x) PROVE BreadthFirst(x, n + 1, t, M2)
        BY <3>2 DEF AllMet
      <4>2. AllClosed(x, t, M2)
        BY <1>11, <2>6, <4>1 DEF AllClosed
      <4>3. TwoDepths(t, 0)
        BY <2>1, <2>2 DEF TwoDepths
      <4>4. start = x.starts[1]
        BY <1>3, <1>11, <4>1
      <4>5. MetAtMost(x, t, M2, start, 0)
        <5>1. Within(x, start, 0) \subseteq {start}
          <6>1. Within(x, start, 0) = Nearest(x, start)
            BY WithinSteps
          <6>2. Nearest(x, start) \subseteq {start}
            BY <4>1, WithoutMoves DEF OneByOne
          <6> QED
            BY <6>1, <6>2
        <5> QED
          BY <2>1, <2>2, <5>1, SamePages DEF MetAtMost
      <4> HIDE DEF M2
      <4> QED
        BY <2>1, <4>2, <4>3, <4>4, <4>5 DEF BreadthFirst
    <3> QED
      BY <3>1, <3>2
  <2>12. urllist' = t /\ met' = M2
    BY <1>7, <1>13, <2>1
  <2>13. M2 \in SUBSET Pages
    OBVIOUS
  <2> HIDE DEF refused, M2
  <2>14. input'.starts[next'] = start
    BY <1>3, <1>5
  <2>15. SpiderTypes'
    BY <1>1, <1>4, <1>5, <2>1, <2>12, <2>13, <2>14 DEF SpiderTypes
  <2> QED
    BY <1>5, <1>8, <1>9, <2>6, <2>7, <2>8, <2>10, <2>11, <2>12, <2>14, <2>15 DEF SpiderInv
<1> QED
  BY <1>12, <1>13

(* It holds after every step.                                              *)
LEMMA SpiderInvNext ==
  ASSUME SpiderInv, [SpiderNext]_spiderVars
  PROVE  SpiderInv'
<1>1. CASE NextStart
  BY <1>1, SpiderInvNextStart
<1>2. CASE Retrieve
  BY <1>2, SpiderInvRetrieve
<1>3. CASE UNCHANGED spiderVars
  <2>1. input' = input /\ next' = next /\ servers' = servers /\ urllist' = urllist /\ met' = met /\ got' = got
    BY <1>3 DEF spiderVars
  <2> QED
    BY <2>1 DEF SpiderInv, SpiderTypes
<1> QED
  BY <1>1, <1>2, <1>3 DEF SpiderNext

(* It gives what is promised of the pages.                                 *)
LEMMA SpiderInvGives ==
  ASSUME SpiderInv
  PROVE  EveryPageOnce
<1>1. PICK x \in Inputs, n \in Nat :
        x = input /\ n = next /\ Len(x.starts) \in Nat /\ x.starts \in Seq(Pages)
  <2>1. input \in Inputs /\ next \in 0..Len(input.starts)
    BY DEF SpiderInv, SpiderTypes
  <2> QED
    BY <2>1, WebAssumption
<1>2. PICK list \in Seq(Item), M \in SUBSET Pages, pages \in Seq(Pages) :
        list = urllist /\ M = met /\ pages = got
  BY DEF SpiderInv, SpiderTypes
<1>3. /\ MetOnce(list, M) /\ IndexedOnce(x, Retrieved(list, M), pages)
      /\ OnlyAsked(x, pages) /\ StartsMet(x, n, M) /\ AllMet(x, n, list, M)
  BY <1>1, <1>2 DEF SpiderInv
<1>4. x.maxdepth \in Nat
  BY WebAssumption
<1>5. /\ ToSet(x.starts) = {x.starts[k] : k \in 1..Len(x.starts)}
      /\ ToSet(pages) = {pages[i] : i \in 1..Len(pages)}
  <2>1. ToSet(x.starts) = {x.starts[k] : k \in 1..Len(x.starts)}
    BY <1>1 DEF ToSet
  <2>2. ToSet(pages) = {pages[i] : i \in 1..Len(pages)}
    BY DEF ToSet
  <2> QED
    BY <2>1, <2>2
<1>6. AskedOnce
  <2>1. ASSUME NEW i \in 1..Len(pages), NEW j \in 1..(i - 1) PROVE ~SamePage(pages[i], pages[j])
    <3>1. j \in 1..Len(pages) /\ i # j
      OBVIOUS
    <3> QED
      BY <1>3, <3>1 DEF IndexedOnce, MetOnce, Retrieved
  <2>2. ASSUME NEW i \in 1..Len(pages)
        PROVE  \E start \in ToSet(x.starts) : pages[i] \in Asked(x, start)
    BY <1>3, <1>5 DEF OnlyAsked
  <2> QED
    BY <1>1, <1>2, <2>1, <2>2 DEF AskedOnce
<1>7. SpiderComplete
  <2>1. SUFFICES ASSUME SpiderDone, NearestFirst, NEW k \in 1..Len(x.starts), NEW p \in Asked(x, x.starts[k])
        PROVE  \E q \in ToSet(pages) : SamePage(p, q)
    <3>1. SUFFICES ASSUME SpiderDone, NearestFirst, NEW start \in ToSet(x.starts), NEW p \in Asked(x, start)
          PROVE  \E q \in ToSet(pages) : SamePage(p, q)
      BY <1>1, <1>2 DEF SpiderComplete
    <3>2. PICK k \in 1..Len(x.starts) : start = x.starts[k]
      BY <1>5, <3>1
    <3> QED
      BY <3>1, <3>2
  <2>2. n = Len(x.starts) /\ list = <<>> /\ Len(list) = 0 /\ Retrieved(list, M) = M
    BY <1>1, <1>2, <2>1 DEF SpiderDone, Retrieved, Listed
  <2>3. PICK start \in Pages : start = x.starts[k] /\ (MayFollow(x, start, start) => Covered(M, start))
    BY <1>1, <1>3, <2>2 DEF StartsMet
  <2>4. Reach(x) \in Nat
    BY <1>4, WebAssumption, FS_CardinalityType DEF Reach
  <2>5. p \in Within(x, start, Reach(x)) /\ p \in Pages /\ x.web[p].kind \in {"html", "text"}
    BY <2>1, <2>3, <2>4, WithinSteps DEF Asked
  <2>6. Covered(M, p)
    <3>1. CASE AllClosed(x, list, M)
      <4>1. \A q \in M : Closed(x, M, q)
        BY <2>2, <3>1 DEF AllClosed
      <4> QED
        BY <2>3, <2>4, <2>5, <4>1, AllWithin
    <3>2. CASE ~AllClosed(x, list, M)
      <4>1. x.maxdepth # 0
        BY <1>3, <3>2 DEF AllMet
      <4>2. OneByOne(x)
        BY <1>1, <2>1, <4>1 DEF NearestFirst, OneByOne, Kind
      <4>3. BreadthFirst(x, n, list, M)
        BY <1>3, <4>1, <4>2 DEF AllMet
      <4>4. n = 1 /\ k = 1
        BY <2>2, <4>2 DEF OneByOne
      <4>5. \A q \in Within(x, x.starts[1], x.maxdepth - 1) : Covered(M, q)
        BY <2>2, <3>2, <4>3, <4>4 DEF BreadthFirst
      <4> QED
        BY <2>3, <2>5, <4>1, <4>4, <4>5 DEF Reach
    <3> QED
      BY <3>1, <3>2
  <2>7. PICK q \in M : SamePage(p, q)
    BY <2>6 DEF Covered
  <2>8. x.web[q].kind \in {"html", "text"}
    BY <2>5, <2>7, WebAssumption
  <2>9. \E i \in 1..Len(pages) : pages[i] = q
    BY <1>3, <2>2, <2>7, <2>8 DEF IndexedOnce
  <2> QED
    BY <1>5, <2>7, <2>9
<1> QED
  BY <1>6, <1>7 DEF EveryPageOnce

-----------------------------------------------------------------------------
(* The theorems.                                                           *)

(* The spider does its own steps or none.                                  *)
LEMMA SpiderSteps ==
  /\ SourcesInit => SpiderInit
  /\ [SourcesNext]_sourcesVars => [SpiderNext]_spiderVars
<1>1. SourcesInit => SpiderInit
  BY DEF SourcesInit, SpiderUnused
<1>2. [SourcesNext]_sourcesVars => [SpiderNext]_spiderVars
  BY DEF SourcesNext, IndexPath, Others, FromFiles, FromWeb, FromProgram, sourcesVars
<1> QED
  BY <1>1, <1>2

(* The spider obeys the rules of robots.txt for it, or else those for all, *)
(* in whatever order records, agents and rules stand: for every file, of   *)
(* parserobotstxt in httpserver.c.                                         *)
THEOREM RobotsObeyedAlways ==
  SourcesSpec => []RobotsObeyed
<1> DEFINE Inv == input \in Inputs
<1>1. SourcesInit => Inv
  BY SpiderSteps DEF SpiderInit
<1>2. Inv /\ [SourcesNext]_sourcesVars => Inv'
  BY SpiderSteps DEF SpiderNext, NextStart, Retrieve, spiderVars
<1>3. Inv => RobotsObeyed
  BY RobotsAssumption, RobotsParsed DEF RobotsObeyed, Robots, IsRobots
<1> QED
  BY <1>1, <1>2, <1>3, PTL DEF SourcesSpec

(* Every page that an address of IndexDir asks for is indexed when the     *)
(* list is empty, and none twice or without being asked for: for every     *)
(* finite web, with its circles, redirects and equivalent servers, of      *)
(* http_indexpath and add_url in http.c.                                   *)
THEOREM EveryPageOnceAlways ==
  SourcesSpec => []EveryPageOnce
<1>1. SourcesInit => SpiderInv
  BY SpiderSteps, SpiderInvInit
<1>2. SpiderInv /\ [SourcesNext]_sourcesVars => SpiderInv'
  BY SpiderSteps, SpiderInvNext
<1> QED
  BY <1>1, <1>2, SpiderInvGives, PTL DEF SourcesSpec
=============================================================================
