----------------------------- MODULE SessionInfo -----------------------------
(***************************************************************************)
(* What src/session_info.rs makes of the SessionInfo text: the id of the   *)
(* sub-session, the roster, and the type of the session.                   *)
(*                                                                         *)
(* A text is a record.  ids are the values of its SubSessionID keys from   *)
(* top to bottom, 0 the placeholder; ai says whether it has the name of an *)
(* AI roster; track is its track, and every sub-session has another; read  *)
(* says which of the two parsers takes it, the one of the drivers and the  *)
(* one of the sessions, for each asks for other keys, and both for well    *)
(* formed YAML, which it is not while iRacing is writing it; named are the *)
(* cars whose driver it gives; types are the types of its sessions in      *)
(* their order, "" where one is missing.                                   *)
(***************************************************************************)
EXTENDS Orders

\* parse_sub_session_id: a scan of the lines, in malformed text too.
NoId == 0
IsId(id) == id > 0
ParsedId(text) ==
    LET resolved == {i \in DOMAIN text.ids : IsId(text.ids[i])}
    IN  IF resolved = {} THEN NoId ELSE FirstAt(text.ids, resolved)

\* synthetic_sub_session_id: a hash of the track and of the UTC day, above zero.
FirstSynthetic == 100
SyntheticId(track, day) == FirstSynthetic * (day + 1) + track

\* The id the pipeline goes by: an AI session has no other than the synthetic one.
SubSessionId(text, day) ==
    IF ParsedId(text) = NoId /\ text.ai THEN SyntheticId(text.track, day) ELSE ParsedId(text)

\* SessionMetadata::parse: the session with the number of the frame, or the first one
\* when there is none with it; if that leaves the type open, the first type in the text.
NoType == ""
FirstType(text) ==
    LET given == {i \in DOMAIN text.types : text.types[i] # NoType}
    IN  IF given = {} THEN NoType ELSE FirstAt(text.types, given)
ListedType(text, num) ==
    CASE text.types = <<>> -> NoType
      [] num + 1 \in DOMAIN text.types -> text.types[num + 1]
      [] OTHER -> text.types[1]
SessionType(text, num) ==
    IF "sessions" \in text.read /\ ListedType(text, num) # NoType
    THEN ListedType(text, num)
    ELSE FirstType(text)

(* The roster cache.  A name is the track of the text that gave it, and so tells the *)
(* sub-session: the driver of a car is another one in another sub-session.           *)
NoTick == -1
NoTrack == 0
NewRoster == [tick |-> NoTick, named |-> {}, of |-> NoTrack]
NeedsUpdate(roster, tick) == roster.tick # tick

\* update: a text without drivers leaves the roster and its tick as they are.
Updated(roster, tick, text) ==
    IF "drivers" \in text.read
    THEN [tick |-> tick, named |-> text.named, of |-> text.track]
    ELSE roster
Names(roster, car) == car \in roster.named
=============================================================================
