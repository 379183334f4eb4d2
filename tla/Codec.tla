------------------------------- MODULE Codec --------------------------------
(* The encoding of connections in the store and in requests, character by    *)
(* character where a property tells characters apart: json_escape,           *)
(* json_field_str, next_json_object and what add, update, save and load of   *)
(* management.c do with them.                                                *)
(*                                                                           *)
(* A text is a sequence of characters: the ones the code looks for, Newline  *)
(* for it, return and tab, the names of the two fields, one sign each, and   *)
(* "x" for all the others.  A connection has two fields: "protocol", which a *)
(* save writes as it is, and "text", which stands for the eleven that a save *)
(* escapes: it must not be empty, as the hostname, and it is as long as the  *)
(* private key, which update reads into a smaller buffer.  The id, written   *)
(* as it is too, is hexadecimal.  Capacities are those of C arrays: a text   *)
(* in an array of Cap characters has at most Cap - 1.                        *)
EXTENDS Integers, Sequences, SequencesExt

CONSTANTS
    ProtocolCap,  \* size of the protocol of a GuacConnection
    FieldCap,     \* size of its private key
    ValueCap,     \* size of `val', through which update reads a field
    EscapeCap,    \* size of the array a field is escaped into
    ObjectCap,    \* size of `obj', through which a load reads an object
    MaxRecords,   \* MAX_CONNECTIONS
    Supported,    \* the protocols protocol_supported knows
    Protocols, Texts  \* what requests give for the two fields

VARIABLES
    table,  \* g_connections[0 .. g_connection_count - 1]
    disk,   \* the store after "connections":, a sequence of characters
    given   \* what the last add or update of each record gave (history)

vars == <<table, disk, given>>

Quote     == "\""
Backslash == "\\"
Newline   == "\n"
Colon     == ":"
Open      == "{"
Close     == "}"
Comma     == ","
ListOpen  == "["
ListClose == "]"
Field     == {"protocol", "text"}
Char      == {Quote, Backslash, Newline, Colon, Open, Close, Comma, ListOpen,
              ListClose, "n", "x"} \cup Field

\* 32, 256 and 1024; 2100 for a field of 1024, all of whose characters may take
\* two; and 8192, where the longest object has 8105.
CodecAssumption ==
    /\ {ProtocolCap, FieldCap, ValueCap, EscapeCap, ObjectCap, MaxRecords}
            \subseteq Nat
    /\ 1 < ProtocolCap /\ ProtocolCap <= ValueCap /\ ValueCap <= FieldCap
    /\ EscapeCap > 6 /\ EscapeCap > 2 * (FieldCap - 1)
    /\ ObjectCap >= (ProtocolCap - 1) + (EscapeCap - 1) + 16
    /\ Supported \subseteq Seq(Char) \ {<<>>}
    /\ Protocols \subseteq Seq(Char) /\ Texts \subseteq Seq(Char)

ASSUME CodecAssumption

-----------------------------------------------------------------------------
(* Writing: json_escape and serialize_connection.                            *)

\* A plausible bug: backslashes are written as they are.
EscapeQuoteOnly(c) ==
    CASE c = Quote   -> <<Backslash, c>>
      [] c = Newline -> <<Backslash, "x", "x", "x", "x", "x">>
      [] OTHER       -> <<c>>

\* A control character becomes \u00xx, here a backslash and five others.
Escape(c) ==
    CASE c \in {Quote, Backslash} -> <<Backslash, c>>
      [] c = Newline              -> <<Backslash, "x", "x", "x", "x", "x">>
      [] OTHER                    -> <<c>>

\* It stops at the first character whose escape does not fit.
EscapeNext(cap, e, c) ==
    IF e.full \/ Len(e.out) + Len(Escape(c)) >= cap
    THEN [e EXCEPT !.full = TRUE]
    ELSE [e EXCEPT !.out = @ \o Escape(c)]

Escaped(text, cap) ==
    LET e[n \in 0 .. Len(text)] ==
            IF n = 0 THEN [out |-> <<>>, full |-> FALSE]
            ELSE EscapeNext(cap, e[n - 1], text[n])
    IN  e[Len(text)].out

\* The name of a field is one sign.  No escaped text can spell a needle, for a
\* quote in it follows a backslash, and in a needle one follows a letter.
Needle(f) == <<Quote, f, Quote, Colon, Quote>>

\* The object of two texts, as they are.
Object(protocol, text) ==
    <<Open>> \o Needle("protocol") \o protocol \o <<Quote, Comma>>
            \o Needle("text") \o text \o <<Quote, Close>>

Serialized(r) == Object(r.protocol, Escaped(r.text, EscapeCap))

Item(records, n) ==
    (IF n = 1 THEN <<>> ELSE <<Comma>>) \o Serialized(records[n])

Stored(records) ==
    LET w[n \in 0 .. Len(records)] ==
            IF n = 0 THEN <<ListOpen>> ELSE w[n - 1] \o Item(records, n)
    IN  w[Len(records)] \o <<ListClose>>

-----------------------------------------------------------------------------
(* Reading: json_field_str, next_json_object and load_connections.           *)

\* A plausible bug: an escaped backslash is not known.
UnescapeNoBackslash ==
    [c \in {Quote, "n"} |-> IF c = "n" THEN Newline ELSE c]

Unescape == [c \in {Quote, Backslash, "n"} |-> IF c = "n" THEN Newline ELSE c]

\* A plausible bug: the place of the terminating zero is forgotten.
ReadNextPastEnd(cap, v, c) ==
    LET out == IF v.at = "slash" THEN Append(v.out, Backslash) ELSE v.out
    IN  CASE v.at = "end" -> v
          [] v.at = "slash" /\ c \in DOMAIN Unescape ->
                [out |-> Append(v.out, Unescape[c]), at |-> "text"]
          [] OTHER ->
                IF c = Quote \/ Len(out) >= cap THEN [out |-> out, at |-> "end"]
                ELSE IF c = Backslash THEN [out |-> out, at |-> "slash"]
                ELSE [out |-> Append(out, c), at |-> "text"]

\* One character of a value.  A backslash before a character that Unescape
\* does not know stands for itself.
ReadNext(cap, v, c) ==
    LET out == IF v.at = "slash" THEN Append(v.out, Backslash) ELSE v.out
    IN  CASE v.at = "end" -> v
          [] v.at = "slash" /\ c \in DOMAIN Unescape ->
                [out |-> Append(v.out, Unescape[c]), at |-> "text"]
          [] OTHER ->
                IF c = Quote \/ Len(out) + 1 >= cap
                THEN [out |-> out, at |-> "end"]
                ELSE IF c = Backslash THEN [out |-> out, at |-> "slash"]
                ELSE [out |-> Append(out, c), at |-> "text"]

\* The value that text begins with, read into an array of cap characters.
Value(text, cap) ==
    LET v[n \in 0 .. Len(text)] ==
            IF n = 0 THEN [out |-> <<>>, at |-> "text"]
            ELSE ReadNext(cap, v[n - 1], text[n])
    IN  v[Len(text)].out

IsNeedle(json, i, f) == SubSeq(json, i, i + 4) = Needle(f)

\* The value after the first place the name of the field is found at.
FieldStr(json, f, cap) ==
    LET places == {i \in 1 .. Len(json) - 4 : IsNeedle(json, i, f)}
        first  == CHOOSE i \in places : \A j \in places : i <= j
    IN  IF places = {} THEN <<>>
        ELSE Value(SubSeq(json, first + 5, Len(json)), cap)

\* A plausible bug: every quote ends a string.
ScanNextAnyQuote(cap, s, c) ==
    LET inside(at) == [s EXCEPT !.object = Append(@, c), !.at = at]
    IN  CASE s.at = "end" -> s
          [] s.at = "seek" ->
                IF c = Open
                THEN [s EXCEPT !.object = <<c>>, !.depth = 1, !.at = "object"]
                ELSE IF c = ListClose THEN [s EXCEPT !.at = "end"] ELSE s
          [] s.at = "string" ->
                inside(IF c = Quote THEN "object" ELSE "string")
          [] OTHER ->
                IF c = Quote THEN inside("string")
                ELSE IF c = Open \/ (c = Close /\ s.depth > 1)
                THEN [s EXCEPT !.object = Append(@, c),
                               !.depth = IF c = Open THEN @ + 1 ELSE @ - 1]
                ELSE IF c # Close THEN inside("object")
                ELSE IF Len(s.object) + 1 >= cap THEN [s EXCEPT !.at = "end"]
                ELSE [found |-> Append(s.found, Append(s.object, c)),
                      object |-> <<>>, depth |-> 0, at |-> "seek"]

\* One character of the search for objects.  A brace inside a string does not
\* count, nor a quote after a backslash.  An object that is too long for the
\* caller's array ends the load, as the end of the array does.
ScanNext(cap, s, c) ==
    LET inside(at) == [s EXCEPT !.object = Append(@, c), !.at = at]
    IN  CASE s.at = "end" -> s
          [] s.at = "seek" ->
                IF c = Open
                THEN [s EXCEPT !.object = <<c>>, !.depth = 1, !.at = "object"]
                ELSE IF c = ListClose THEN [s EXCEPT !.at = "end"] ELSE s
          [] s.at = "slash" -> inside("string")
          [] s.at = "string" ->
                inside(IF c = Backslash THEN "slash"
                       ELSE IF c = Quote THEN "object" ELSE "string")
          [] OTHER ->
                IF c = Quote THEN inside("string")
                ELSE IF c = Open \/ (c = Close /\ s.depth > 1)
                THEN [s EXCEPT !.object = Append(@, c),
                               !.depth = IF c = Open THEN @ + 1 ELSE @ - 1]
                ELSE IF c # Close THEN inside("object")
                ELSE IF Len(s.object) + 1 >= cap THEN [s EXCEPT !.at = "end"]
                ELSE [found |-> Append(s.found, Append(s.object, c)),
                      object |-> <<>>, depth |-> 0, at |-> "seek"]

\* An object that the file ends in the middle of is taken as it is.
Objects(file, cap) ==
    LET s[n \in 0 .. Len(file)] ==
            IF n = 0
            THEN [found |-> <<>>, object |-> <<>>, depth |-> 0, at |-> "seek"]
            ELSE ScanNext(cap, s[n - 1], file[n])
        last == s[Len(file)]
    IN  IF last.at \in {"seek", "end"} \/ Len(last.object) >= cap
        THEN last.found
        ELSE Append(last.found, last.object)

\* The size of a field's own array.
Cap == [f \in Field |-> IF f = "protocol" THEN ProtocolCap ELSE FieldCap]

ReadRecord(json, cap) == [f \in Field |-> FieldStr(json, f, cap[f])]

LoadNext(records, r) ==
    IF (\E f \in Field : r[f] = <<>>) \/ Len(records) >= MaxRecords THEN records
    ELSE Append(records, r)

\* What a load makes of a file: one connection for each object with a protocol
\* and a hostname, while there is room in the table.
Loaded(file) ==
    LET objects == Objects(file, ObjectCap)
        l[n \in 0 .. Len(objects)] ==
            IF n = 0 THEN <<>>
            ELSE LoadNext(l[n - 1], ReadRecord(objects[n], Cap))
    IN  l[Len(objects)]

-----------------------------------------------------------------------------
(* Requests.  JSON.stringify in a browser and json_escape_into of the        *)
(* command write a newline as \n, which json_field_str does read.  A request *)
(* is taken to fit BODY_CAP, to which the command cuts it.                   *)

MessageEscape(c) ==
    IF c = Newline THEN <<Backslash, "n">> ELSE Escape(c)

MessageText(text) ==
    LET m[n \in 0 .. Len(text)] ==
            IF n = 0 THEN <<>> ELSE m[n - 1] \o MessageEscape(text[n])
    IN  m[Len(text)]

Message(r) == Object(MessageText(r.protocol), MessageText(r.text))

Request == [protocol : Protocols, text : Texts]

\* Only an add asks whether the protocol is supported.
Add(r) ==
    LET read == ReadRecord(Message(r), Cap) IN
    /\ Len(table) < MaxRecords
    /\ read.protocol \in Supported /\ read.text # <<>>
    /\ table' = Append(table, read)
    /\ disk' = Stored(table')
    /\ given' = Append(given, r)

\* What an array of cap characters holds of a text.
Cut(text, cap) == IF Len(text) < cap THEN text ELSE SubSeq(text, 1, cap - 1)

\* What update reads through `val'.
ReadUpdate(r) ==
    LET read == ReadRecord(Message(r), [f \in Field |-> ValueCap])
    IN  [f \in Field |-> Cut(read[f], Cap[f])]

\* A field read as empty, or left out, keeps its value.
Updated(old, new) == [f \in Field |-> IF new[f] = <<>> THEN old[f] ELSE new[f]]

Update(i, r) ==
    /\ table' = [table EXCEPT ![i] = Updated(@, ReadUpdate(r))]
    /\ disk' = Stored(table')
    /\ given' = [given EXCEPT ![i] = Updated(@, r)]

\* A text that json_escape would write as it is.
Harmless(text) == ToSet(text) \cap {Quote, Backslash, Newline} = {}

\* Whether what a save writes as it is needs no escape.
AllHarmless == \A i \in DOMAIN table : Harmless(table[i].protocol)

\* The save at the end of a connect, which changes no text.
Save ==
    /\ disk' = Stored(table)
    /\ UNCHANGED <<table, given>>

\* A reload, or a restart of the service.  Where a protocol may have spoiled the
\* store, what is read counts as given.
Load ==
    /\ table' = Loaded(disk)
    /\ given' = IF AllHarmless THEN given ELSE table'
    /\ UNCHANGED disk

Init == table = <<>> /\ disk = <<>> /\ given = <<>>

Next ==
    \/ \E r \in Request : Add(r)
    \/ \E i \in DOMAIN table, r \in Request : Update(i, r)
    \/ Save
    \/ Load

Spec == Init /\ [][Next]_vars

-----------------------------------------------------------------------------
(* Correctness.                                                              *)

\* Every field fits its array, and has only characters a text can have, even
\* after a load of a store that a protocol has spoiled.
TypeOK ==
    /\ \A i \in DOMAIN table, f \in Field :
            Len(table[i][f]) < Cap[f] /\ table[i][f] \in Seq(Char)
    /\ Len(table) <= MaxRecords /\ Len(given) = Len(table)

Plain(text) == Newline \notin ToSet(text)

\* A text without control characters stays what the request gave, cut to the
\* size of an array it went through, through any number of saves, loads and
\* changes of the other fields and connections, whatever quotes, backslashes
\* and braces are in it (management.c:60-113).
PlainTextKept ==
    \A i \in DOMAIN table, f \in Field :
        Plain(given[i][f]) =>
            \E cap \in {ValueCap, Cap[f]} : table[i][f] = Cut(given[i][f], cap)

\* While no protocol needs an escape, a load finds every connection that a save
\* wrote, no more and no fewer: no text ends its string, its object or the array
\* early, and none makes an object too long to be read (management.c:333-362).
NothingLost == AllHarmless => Len(Loaded(Stored(table))) = Len(table)

\* While no protocol needs an escape, whatever a save and a load do to a text,
\* they do it once: later saves and loads give the same connections again
\* (management.c:221-307, 366-422).
DamageSettles ==
    LET once == Loaded(Stored(table))
    IN  AllHarmless => Loaded(Stored(once)) = once

\* The manual: the store keeps "every connection and all of its parameters",
\* and connections survive a restart.
ParametersSurvive == [][Load => table' = table]_vars

\* The comment of next_json_object: its search respects quoted strings and
\* escapes, and is exact, so that a load finds as many connections as there were.
ConnectionsSurvive == [][Load => Len(table') = Len(table)]_vars

\* The manual: Edit modifies a connection's parameters.  A text that fits its
\* field is the connection's, the whole of it.
EditedAsGiven ==
    \A i \in DOMAIN table, f \in Field :
        Plain(given[i][f]) /\ Len(given[i][f]) < Cap[f] =>
            table[i][f] = given[i][f]

=============================================================================
