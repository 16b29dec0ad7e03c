----------------------------- MODULE TargetsFile -----------------------------
(***************************************************************************)
(* monitoring_targets.c without its file handling: the list of saved       *)
(* targets, the document targets_save writes and what targets_load makes   *)
(* of a document, and the strings in it.                                   *)
(*                                                                         *)
(* A document is a sequence of tokens: the opening `{ "targets": [`, one   *)
(* token for an entry with or without the comma after it, and the closing  *)
(* `] }`.  Of the strings of an entry the name is written out, character   *)
(* by character; the other fields are its `target`.                        *)
(***************************************************************************)
EXTENDS Integers, Sequences, SequencesExt

CONSTANT NameSize   \* TARGET_NAME_MAX

-----------------------------------------------------------------------------
(* The list.                                                               *)

\* target_list_find: the positions of the entries called name.
Positions(list, name) == {i \in DOMAIN list : list[i].name = name}

Find(list, name) == list[CHOOSE i \in Positions(list, name) : TRUE]

\* target_list_upsert: in place if the name is there, else at the end.
Upsert(list, entry) ==
    IF Positions(list, entry.name) = {}
    THEN Append(list, entry)
    ELSE [i \in DOMAIN list |-> IF list[i].name = entry.name THEN entry ELSE list[i]]

\* target_list_remove: those after the entry move up.
Without(list, name) ==
    IF Positions(list, name) = {} THEN list
    ELSE RemoveAt(list, CHOOSE i \in Positions(list, name) : TRUE)

-----------------------------------------------------------------------------
(* Strings.                                                                *)

DQ == "\""
BS == "\\"

\* The escapes that are letters, by the character they stand for.
Letters == [LF |-> "n", CR |-> "r", TAB |-> "t"]

\* Mutant: a backslash in the text is not doubled.
EscapeForgetsBackslash(char) ==
    CASE char = DQ             -> <<BS, DQ>>
      [] char \in DOMAIN Letters -> <<BS, Letters[char]>>
      [] char = "ESC"          -> <<BS, "u", "0", "0", "1", "b">>
      [] OTHER                 -> <<char>>

\* json_write_string, one character.  ESC stands for the control characters
\* without a letter.
Escape(char) ==
    CASE char \in {DQ, BS}     -> <<BS, char>>
      [] char \in DOMAIN Letters -> <<BS, Letters[char]>>
      [] char = "ESC"          -> <<BS, "u", "0", "0", "1", "b">>
      [] OTHER                 -> <<char>>

\* json_write_string: the characters one after the other, in quotes.
WriteString(text) ==
    LET Written[n \in 0 .. Len(text)] ==
            IF n = 0 THEN <<DQ>> ELSE Written[n - 1] \o Escape(text[n])
    IN  Written[Len(text)] \o <<DQ>>

\* json_read_string: what an escaped character stands for.  \u is not decoded.
Unescape(char) ==
    IF \E c \in DOMAIN Letters : Letters[c] = char
    THEN CHOOSE c \in DOMAIN Letters : Letters[c] = char
    ELSE char

\* A turn of the loop of json_read_string leaves what was read, whether a
\* backslash came before or the quote is closed, and then the position after it.
Turn(text, state, next) == [text |-> text, state |-> state, next |-> next]

\* One turn, with the byte at a position.
ReadByte(was, byte, at, size) ==
    CASE was.state = "closed"  -> was
      [] was.state = "escaped" -> Turn(Append(was.text, Unescape(byte)), "open", 0)
      [] was.state = "open" /\ byte = DQ -> Turn(was.text, "closed", at + 1)
      [] was.state = "open" /\ byte = BS /\ at < size -> Turn(was.text, "escaped", 0)
      [] OTHER -> Turn(Append(was.text, byte), "open", 0)

\* json_read_string on bytes, after the opening quote at position 1: the text
\* up to the closing quote, cut to size - 1, and the position after the quote;
\* 0 if there is none.
ReadString(bytes, size) ==
    LET Read[n \in 0 .. Len(bytes) - 1] ==
            IF n = 0 THEN Turn(<<>>, "open", 0)
            ELSE ReadByte(Read[n - 1], bytes[n + 1], n + 1, Len(bytes))
        whole == Read[Len(bytes) - 1]
        kept  == IF Len(whole.text) < size - 1 THEN Len(whole.text) ELSE size - 1
    IN  [text |-> SubSeq(whole.text, 1, kept), next |-> whole.next]

-----------------------------------------------------------------------------
(* The document.                                                           *)

Opening == [kind |-> "opening"]
Closing == [kind |-> "closing"]
Hole    == [kind |-> "hole"]      \* bytes nobody wrote
EntryToken(entry, after) ==
    [kind |-> "entry", name |-> WriteString(entry.name), target |-> entry.target,
     after |-> after]

\* What targets_save writes for a list.
Document(list) ==
    <<Opening>> \o [i \in DOMAIN list |-> EntryToken(list[i], IF i < Len(list) THEN "comma" ELSE "end")]
    \o <<Closing>>

\* A token json_read_targets_array can take at position i: an entry follows `[`
\* or a comma, the closing follows `[` or an entry without a comma.
Fits(tokens, i) ==
    LET before == tokens[i - 1]
        comma  == before.kind = "entry" /\ before.after = "comma"
        no_comma == before.kind = "entry" /\ before.after = "end"
    IN  \/ /\ tokens[i].kind = "entry"
           /\ ReadString(tokens[i].name, NameSize).next = Len(tokens[i].name) + 1
           /\ before = Opening \/ comma
        \/ tokens[i] = Closing /\ (before = Opening \/ no_comma)

\* Where the document that begins the file ends.
Ends(tokens) == {i \in 2 .. Len(tokens) :
                    /\ tokens[1] = Opening
                    /\ tokens[i] = Closing
                    /\ \A j \in 2 .. i : Fits(tokens, j)}

\* Mutant: the end of the file ends the list too.
ReadableToTheEnd(tokens) ==
    /\ tokens # <<>>
    /\ tokens[1] = Opening
    /\ \A j \in 2 .. Len(tokens) : Fits(tokens, j)

\* json_read_document succeeds.  It stops at the closing brace and does not
\* look at what follows.  An empty file is not a document.
Readable(tokens) == Ends(tokens) # {}

\* json_read_target: an entry with a name is added, or takes the place of the
\* one of that name.
AddToken(list, token) ==
    LET name == ReadString(token.name, NameSize).text
    IN  IF token.kind = "entry" /\ name # <<>>
        THEN Upsert(list, [name |-> name, target |-> token.target])
        ELSE list

\* The entries it has upserted by then, one after the other.
Entries(tokens) ==
    LET Read[n \in 0 .. Len(tokens)] ==
            IF n = 0 THEN <<>> ELSE AddToken(Read[n - 1], tokens[n])
    IN  Read[IF Ends(tokens) = {} THEN Len(tokens) ELSE CHOOSE i \in Ends(tokens) : TRUE]

=============================================================================
