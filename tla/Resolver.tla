------------------------------ MODULE Resolver -------------------------------
(***************************************************************************)
(* From what somebody typed to tracks: classify (src/src/urls.rs),         *)
(* identifiers and normalize (src/src/resolver.rs).  What the backend      *)
(* finds is data of the instance.                                          *)
(***************************************************************************)
EXTENDS Integers, SequencesExt

CONSTANTS
    QUEUE_LIMIT,     \* Limits.queue
    PLAYLIST_LIMIT,  \* Limits.playlists
    ALLOW_STREAMS

ASSUME ResolverAssumption ==
    QUEUE_LIMIT \in Nat \ {0} /\ PLAYLIST_LIMIT \in Nat \ {0} /\ ALLOW_STREAMS \in BOOLEAN

(***************************************************************************)
(* The text of a request, which is not blank, by what the parser of URLs   *)
(* sees in it.  A list or a video counts only if its identifier is valid.  *)
(***************************************************************************)
Text ==
    [url: BOOLEAN,
     youtube: BOOLEAN,  \* http or https, a YouTube host, no user, password, port
     list: BOOLEAN, video: BOOLEAN]

Classify(text) ==
    IF ~text.url THEN "search"
    ELSE IF ~text.youtube THEN "unsupported"
    ELSE IF text.list THEN "playlist"
    ELSE IF text.video THEN "video"
    ELSE "unsupported"

\* What the backend says of one track, as far as the policy looks.
RawTrack ==
    [name: STRING, wellformed: BOOLEAN, blank: BOOLEAN, long: BOOLEAN,
     stream: BOOLEAN, youtube: BOOLEAN]

\* Its answer: loadType and the tracks in data, if those are of that type;
\* "other" is a type that is not known or data of another shape.
Answer ==
    [type: {"track", "playlist", "search"}, tracks: Seq(RawTrack)]
    \union [type: {"error", "empty", "other"}, tracks: {<<>>}]

Failures == {"none", "no match", "invalid response", "load failed",
             "unavailable", "unsupported", "full"}

Resolution == [failure: Failures, tracks: Seq(RawTrack), rejected: Nat, omitted: Nat]

Failed(failure) == [failure |-> failure, tracks |-> <<>>, rejected |-> 0, omitted |-> 0]

\* A search takes only videos of YouTube.
Playable(raw, search) ==
    /\ raw.wellformed /\ ~raw.blank /\ ~raw.long
    /\ ALLOW_STREAMS \/ ~raw.stream
    /\ search => raw.youtube

Least(a, b) == IF a <= b THEN a ELSE b

Limit(playlist, search, capacity) ==
    Least(Least(capacity, QUEUE_LIMIT),
          IF playlist THEN PLAYLIST_LIMIT ELSE IF search THEN capacity ELSE 1)

\* Mutant: the limit is checked after the track is taken.
ConsideredLate(r, raw, playlist, search, limit) ==
    IF ~playlist /\ ~search /\ r.tracks # <<>> THEN r
    ELSE IF ~Playable(raw, search) THEN [r EXCEPT !.rejected = @ + 1]
    ELSE IF Len(r.tracks) > limit
         THEN IF playlist THEN [r EXCEPT !.omitted = @ + 1] ELSE r
    ELSE [r EXCEPT !.tracks = Append(@, raw)]

\* One turn of normalize's loop; a direct link ends it with its first track.
Considered(r, raw, playlist, search, limit) ==
    IF ~playlist /\ ~search /\ r.tracks # <<>> THEN r
    ELSE IF ~Playable(raw, search) THEN [r EXCEPT !.rejected = @ + 1]
    ELSE IF Len(r.tracks) >= limit
         THEN IF playlist THEN [r EXCEPT !.omitted = @ + 1] ELSE r
    ELSE [r EXCEPT !.tracks = Append(@, raw)]

Normalize(answer, playlist, search, capacity) ==
    LET Turn(r, raw) ==
            Considered(r, raw, playlist, search, Limit(playlist, search, capacity))
        result == FoldLeft(Turn, Failed("none"), answer.tracks)
    IN  CASE capacity = 0 -> Failed("full")
          [] capacity > 0 /\ answer.type = "error" -> Failed("load failed")
          [] capacity > 0 /\ answer.type = "empty" -> Failed("no match")
          [] capacity > 0 /\ answer.type = "other" -> Failed("invalid response")
          [] OTHER -> IF result.tracks = <<>> THEN Failed("no match") ELSE result
=============================================================================
