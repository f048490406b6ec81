------------------------------- MODULE TrackNames -------------------------------
(***************************************************************************)
(* The NAME of a rendition (_track_display_name and what it calls, with    *)
(* the tables of regions.py): the track's language, the script and the     *)
(* region its tag or its source title names, then what the title says      *)
(* besides.                                                                *)
(*                                                                         *)
(* A title is a sequence of parts; a part is the words outside its         *)
(* brackets (main) and those of each bracket; a word is one token, folded, *)
(* unless its capitals matter ("BR").  A code is its language's key and    *)
(* its subtags.  The tables are cut to the rows the tokens of these titles *)
(* fall under, and a name's length (_TITLE_WORDS_MAX) is left out.         *)
(***************************************************************************)
EXTENDS Naturals, SequencesExt, TLC

Code(key, subs) == [key |-> key, subs |-> subs]

\* The tokens that are spelt as a code, each as it spells one.
CodeOf ==
  [por |-> Code("pt", <<>>), PT |-> Code("pt", <<>>), BR |-> Code("br", <<>>),
   zho |-> Code("zh", <<>>), chs |-> Code("chs", <<>>), TW |-> Code("tw", <<>>),
   eng |-> Code("en", <<>>), uk |-> Code("uk", <<>>), sdh |-> Code("sdh", <<>>),
   und |-> Code("und", <<>>)]
  @@ ("pt-BR" :> Code("pt", <<"BR">>)) @@ ("pt-PT" :> Code("pt", <<"PT">>))
  @@ ("por-comentario" :> Code("pt", <<"comentario">>))
  @@ ("zh-Hant" :> Code("zh", <<"Hant">>)) @@ ("zh-Hans-TW" :> Code("zh", <<"Hans", "TW">>))
  @@ ("en-GB-x-own" :> Code("en", <<"GB", "x", "own">>)) @@ ("tlh-GB" :> Code("tlh", <<"GB">>))

Singletons == {"x"}

(***************************************************************************)
(* The tables.                                                             *)
(***************************************************************************)

SCRIPT_NAMES == [Hans |-> "Simplified", Hant |-> "Traditional"]

REGION_NAMES ==
  [BR |-> "Brazil", PT |-> "Portugal", TW |-> "Taiwan", GB |-> "United Kingdom", UK |-> "United Kingdom"]

LANGUAGE_REGIONS == [pt |-> {"BR", "PT"}, zh |-> {"TW"}, en |-> {"GB"}]

\* A table by language: none for one that has no row.
RowOf(table, key) == IF key \in DOMAIN table THEN table[key] ELSE << >>

LANGUAGE_NAMES == [pt |-> {"portuguese"}, zh |-> {"chinese"}, en |-> {"english"}]
OWN_NAMES == [pt |-> {"portugues"}, zh |-> {"zhongwen"}]

REGION_WORDS == ("brazil" :> "BR") @@ ("taiwan" :> "TW") @@ ("uk" :> "GB")
OWN_REGION_WORDS == [pt |-> ("brasil" :> "BR"), zh |-> ("taiwanese" :> "TW")]
DIALECTS == [pt |-> ("brazilian" :> "BR")]
TITLE_REGION_WORDS == [pt |-> ("europeu" :> "PT")]
CHINESE_SCRIPTS == ("simplified" :> "Hans") @@ ("chs" :> "Hans") @@ ("traditional" :> "Hant")

NoLanguageCodes == {"und", "zxx", "mul", "mis"}

(***************************************************************************)
(* What a code and a piece of a title say of a language.                   *)
(***************************************************************************)

Says(script, region) == [script |-> script, region |-> region]
Nothing == Says("", "")

\* {} for a code with a subtag that is no script or region in its place.
SubtagsOf(code) ==
  LET named == SelectSeq(code.subs, LAMBDA s : s \in Singletons)
      subs == IF named = <<>> THEN code.subs
              ELSE SubSeq(code.subs, 1, (CHOOSE i \in DOMAIN code.subs :
                     code.subs[i] \in Singletons /\ \A j \in 1 .. i - 1 : code.subs[j] \notin Singletons) - 1)
  IN {Says(p[1], p[2]) : p \in {q \in (DOMAIN SCRIPT_NAMES \cup {""}) \X (DOMAIN REGION_NAMES \cup {""}) :
        subs = SelectSeq(q, LAMBDA n : n # "")}}

LanguageParts(code) ==
  IF SubtagsOf(code) = {} THEN Nothing ELSE CHOOSE says \in SubtagsOf(code) : TRUE

SameRegion(a, b) == a # "" /\ b # "" /\ REGION_NAMES[a] = REGION_NAMES[b]

NamesOf(key) ==
  IF key \in DOMAIN LANGUAGE_NAMES
  THEN LANGUAGE_NAMES[key] \cup (IF key \in DOMAIN OWN_NAMES THEN OWN_NAMES[key] ELSE {}) ELSE {}

\* The first of some readings that reads anything.
FirstOf(readings) ==
  LET some == {i \in DOMAIN readings : readings[i] # {}}
  IN IF some = {} THEN {} ELSE readings[CHOOSE i \in some : \A j \in some : i <= j]

InTable(table, word) == IF word \in DOMAIN table THEN {Says("", table[word])} ELSE {}

\* The words are one token here, a phrase that is a table's row or not.
WordsSay(words, key) ==
  IF Len(words) # 1 THEN {}
  ELSE FirstOf(<<
         IF key = "zh" /\ words[1] \in DOMAIN CHINESE_SCRIPTS
           THEN {Says(CHINESE_SCRIPTS[words[1]], "")} ELSE {},
         InTable(RowOf(TITLE_REGION_WORDS, key), words[1]), InTable(RowOf(OWN_REGION_WORDS, key), words[1]),
         InTable(REGION_WORDS, words[1]), InTable(RowOf(DIALECTS, key), words[1])>>)

PieceSays(piece, key, bracketed) ==
  LET one == Len(piece) = 1
      region == IF one /\ bracketed /\ key \in DOMAIN LANGUAGE_REGIONS
                THEN {Says("", r) : r \in LANGUAGE_REGIONS[key] \cap {piece[1]}} ELSE {}
      code == IF one /\ piece[1] \in DOMAIN CodeOf /\ CodeOf[piece[1]].key = key
              THEN SubtagsOf(CodeOf[piece[1]]) ELSE {}
      name == IF one /\ piece[1] \in NamesOf(key) THEN {Nothing} ELSE {}
      named == IF piece[1] \in NamesOf(key) THEN WordsSay(Tail(piece), key) ELSE {}
      called == IF piece[Len(piece)] \in NamesOf(key) THEN WordsSay(Front(piece), key) ELSE {}
  IN FirstOf(<<region, code, name, WordsSay(piece, key), named, called>>)

(***************************************************************************)
(* A title read.                                                           *)
(***************************************************************************)

Piece(part, bracketed, words) == [part |-> part, bracketed |-> bracketed, words |-> words]

\* A title's pieces in order: each part's main, then its brackets.
PiecesOf(title) ==
  LET of(k) == (IF title[k].main = <<>> THEN <<>> ELSE <<Piece(k, FALSE, title[k].main)>>)
               \o [b \in DOMAIN title[k].brackets |-> Piece(k, TRUE, title[k].brackets[b])]
  IN FlattenSeq([k \in DOMAIN title |-> of(k)])

\* The first piece a part keeps stands outside its brackets.
TitleOf(pieces) ==
  LET parts == SetToSortSeq({pieces[i].part : i \in DOMAIN pieces}, <)
      of(k) == LET kept == SelectSeq(pieces, LAMBDA p : p.part = k)
               IN [main |-> kept[1].words, brackets |-> [b \in 1 .. Len(kept) - 1 |-> kept[b + 1].words]]
  IN [n \in DOMAIN parts |-> of(parts[n])]

\* The mutant of Agrees that doesn't ask what the title named before.
AgreesWithTag(own, found, says) ==
  /\ says.script # "" => own.script \in {"", says.script}
  /\ says.region # "" => own.region = "" \/ SameRegion(own.region, says.region)

Agrees(own, found, says) ==
  /\ says.script # "" => {own.script, found.script} \subseteq {"", says.script}
  /\ says.region # "" => \A r \in {own.region, found.region} : r = "" \/ SameRegion(r, says.region)

Found(found, says) ==
  Says(IF found.script # "" THEN found.script ELSE says.script,
       IF found.region # "" THEN found.region ELSE says.region)

ReadTitle(title, tag) ==
  LET own == LanguageParts(tag)
      take(read, piece) ==
        LET says == {s \in PieceSays(piece.words, tag.key, piece.bracketed) : Agrees(own, read.found, s)}
        IN IF says = {} THEN [read EXCEPT !.kept = Append(@, piece)]
           ELSE [read EXCEPT !.found = Found(@, CHOOSE s \in says : TRUE)]
      pieces == PiecesOf(title)
      read == FoldLeft(take, [kept |-> <<>>, found |-> Nothing], pieces)
  IN IF tag.key \in NoLanguageCodes \/ read.kept = pieces
     THEN [title |-> title, found |-> Nothing]
     ELSE [title |-> TitleOf(read.kept), found |-> read.found]

(***************************************************************************)
(* What a title says besides.                                              *)
(***************************************************************************)

FormatWords == {"ac3"}
LayoutWords == {"5.1"}
Numbers == {"#2"}

TokensOf(title) ==
  UNION {Range(title[k].main) \cup UNION {Range(title[k].brackets[b]) : b \in DOMAIN title[k].brackets} :
           k \in DOMAIN title}

WithoutLayout(title) ==
  LET pieces == PiecesOf(title)
      bare == [i \in DOMAIN pieces |->
                 [pieces[i] EXCEPT !.words = SelectSeq(@, LAMBDA w : w \notin LayoutWords)]]
      left == SelectSeq(bare, LAMBDA p : p.words # <<>>)
      parts == SetToSortSeq({left[i].part : i \in DOMAIN left}, <)
      of(k, bracketed) == SelectSeq(left, LAMBDA p : p.part = k /\ p.bracketed = bracketed)
      words(ps) == [i \in DOMAIN ps |-> ps[i].words]
  IN [n \in DOMAIN parts |->
        [main |-> FlattenSeq(words(of(parts[n], FALSE))), brackets |-> words(of(parts[n], TRUE))]]

Is(title, words) == title = <<[main |-> words, brackets |-> <<>>]>>

\* A title that is one code: its language's own, or no language's.
IsLanguageCode(title, tag) ==
  \E token \in DOMAIN CodeOf :
    /\ Is(title, <<token>>)
    /\ LET code == CodeOf[token]  says == LanguageParts(code)  own == LanguageParts(tag)
       IN \/ code.key \in NoLanguageCodes
          \/ /\ code.key = tag.key /\ says.script \in {"", own.script}
             /\ says.region = "" \/ SameRegion(says.region, own.region)

OnlyNumbers(title) == title = <<>> \/ \E n \in Numbers : Is(title, <<n>>)

\* The name a title begins with goes; a lone bracket after it is opened.
WithoutName(title, tag) ==
  LET first == title[1]
      names == IF NamesOf(tag.key) # {} THEN NamesOf(tag.key) ELSE {tag.key}
      rest == [first EXCEPT !.main = Tail(@)]
  IN IF first.main = <<>> \/ tag.key = "und" THEN title
     ELSE IF first.main[1] \notin names THEN title
     ELSE IF rest.main = <<>> /\ rest.brackets = <<>> THEN Tail(title)
     ELSE IF rest.main = <<>> /\ Len(rest.brackets) = 1 /\ Len(title) = 1
          THEN <<[main |-> rest.brackets[1], brackets |-> <<>>]>>
     ELSE <<rest>> \o Tail(title)

TitleWords(title, tag) ==
  LET bare == WithoutLayout(title)
  IN IF TokensOf(title) \cap FormatWords # {} \/ OnlyNumbers(bare) \/ IsLanguageCode(bare, tag)
     THEN <<>>
     ELSE LET words == WithoutName(bare, tag) IN IF OnlyNumbers(words) THEN <<>> ELSE words

(***************************************************************************)
(* The names.                                                              *)
(***************************************************************************)

\* No script or region for a code the table doesn't know, or no language's.
LanguageName(key, says) ==
  [key |-> key, says |-> IF key \in NoLanguageCodes \/ key \notin DOMAIN LANGUAGE_NAMES THEN Nothing ELSE says]

TrackName(tag, title) ==
  LET read == ReadTitle(title, tag)
      words == TitleWords(read.title, tag)
  IN IF tag.key = "und" /\ words # <<>> THEN [language |-> LanguageName("", Nothing), words |-> words, purpose |-> ""]
     ELSE [language |-> LanguageName(tag.key, Found(LanguageParts(tag), read.found)),
           words |-> words, purpose |-> ""]

\* What the words of a title say a track is for.
PurposeWords == [comentario |-> "commentary", sdh |-> "sdh", forced |-> "forced"]
                @@ ("por-comentario" :> "commentary")
Purposes(title) == {PurposeWords[w] : w \in TokensOf(title) \cap DOMAIN PurposeWords}

\* What its record says it is for is added to a track's name (TrackName),
\* where that doesn't say it.
Marked(name, purpose, shown) ==
  [name EXCEPT !.purpose = IF purpose \in shown \ Purposes(name.words) THEN purpose ELSE ""]

AudioDisplayName(name, purpose) == Marked(name, purpose, {"commentary", "description"})

\* A forced track's record says it is for that, whatever else it is.
SubtitleDisplayName(name, purpose, forced) ==
  Marked(name, IF forced THEN "forced" ELSE purpose, {"forced", "sdh", "commentary"})
=============================================================================
