---------------------------- MODULE DurableFile ----------------------------
(***************************************************************************)
(* The file system as src/ledger.ts uses it.  A file is what the page      *)
(* cache shows (cur) together with every content a power loss may leave    *)
(* (may).  A content is a sequence of lines and the state of its end:      *)
(*   "clean"  the last line ends in a newline;                             *)
(*   "torn"   an unterminated, unparseable fragment follows the lines;     *)
(*   "noeol"  the last line is whole but its newline was never written;    *)
(*   "junk"   some newline-terminated line does not parse.                 *)
(***************************************************************************)
EXTENDS Sequences, Integers

Tails == {"clean", "torn", "noeol", "junk"}

Contents(Line) == [recs : Seq(Line), tail : Tails]

Lines(x) == {x.recs[i] : i \in DOMAIN x.recs}

Empty == [recs |-> << >>, tail |-> "clean"]

\* A file whose content has been fsynced.
Synced(x) == [cur |-> x, may |-> {x}]

Files(Line) == [cur : Contents(Line), may : SUBSET Contents(Line)]

(***************************************************************************)
(* The length the folds of ledger.ts report is one byte past the end of a  *)
(* "noeol" content, because they count the newline that is not there.  The *)
(* next line is therefore written after a hole and the two lines become    *)
(* one terminated line that parses as nothing.                             *)
(***************************************************************************)
Extended(x, r) ==
  IF x.tail \in {"clean", "torn"}
    THEN [recs |-> Append(x.recs, r), tail |-> "clean"]
    ELSE [recs |-> x.recs, tail |-> "junk"]

\* Writing stopped part of the way: after a hole the earlier line is lost too.
Torn(x) ==
  IF x.tail = "noeol"
    THEN [recs |-> SubSeq(x.recs, 1, Len(x.recs) - 1), tail |-> "torn"]
    ELSE [recs |-> x.recs, tail |-> "torn"]

Partial(x, r) ==
  {Torn(x)} \cup
    (IF x.tail = "noeol" THEN {}
     ELSE {[recs |-> Append(x.recs, r), tail |-> "noeol"]})

(***************************************************************************)
(* The outcomes of "drop the torn tail, write the line at the durable      *)
(* offset, fsync": nothing written, cut short, written but fsync failed,   *)
(* written and durable.  A crash between the write and the fsync is one of *)
(* the failed outcomes followed by the crash.                              *)
(***************************************************************************)
AppendOutcomes(f, r) ==
  LET whole == Extended(f.cur, r)
      part  == Partial(f.cur, r)
  IN  {[file |-> f, ok |-> FALSE]}
      \cup {[file |-> [cur |-> x, may |-> f.may \cup {x, Torn(f.cur)}], ok |-> FALSE] : x \in part}
      \cup {[file |-> [cur |-> whole, may |-> f.may \cup part \cup {whole}], ok |-> FALSE]}
      \cup {[file |-> Synced(whole), ok |-> TRUE]}
=============================================================================
