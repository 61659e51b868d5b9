---------------------------- MODULE HlsPlaylist ----------------------------
(***************************************************************************)
(* What hls_download (src/src/hls.c) does before its threads start: it     *)
(* fetches the playlist, chooses a variant and an audio rendition of a     *)
(* master playlist, reads the media playlist line by line and fetches the  *)
(* key; and hls_download_audio the same for the audio playlist.            *)
(* HlsDownload takes over from there.                                      *)
(*                                                                         *)
(* A line is a record of the tag and the attributes the code looks at;     *)
(* blank lines and other tags, which change nothing, do not appear.  The   *)
(* lines come one by one, as if the server thought them up.                *)
(***************************************************************************)
EXTENDS Integers, FiniteSets, ResolveUrl, FiniteSetsExt

CONSTANTS Playlists,         \* the URLs a download may begin with
          MasterLines,       \* lines of master playlists
          MediaLines,        \* lines of media playlists
          MaxMasterLines, MaxMediaLines,  \* bounds: lines of a playlist
          Qualities,         \* --hls-quality, see Quality below
          MaxVariants,       \* HLS_MAX_VARIANTS
          MaxSegments        \* HLS_MAX_SEGMENTS

\* The best, the worst, or the best up to a height.
Quality(want, height) == [want |-> want, height |-> height]

ASSUME PlaylistAssumption ==
    /\ Qualities \subseteq [want : {"best", "worst", "height"}, height : Nat]
    /\ {MaxMasterLines, MaxMediaLines} \subseteq Nat
    /\ {MaxVariants, MaxSegments} \subseteq Nat \ {0}

References == {l.ref : l \in {m \in MasterLines \cup MediaLines : m.tag \in {"URL", "MEDIA", "KEY"}}} \ {None}

Bases == Playlists \cup {Resolve(b, r) : b \in Playlists, r \in References}

\* A line that is no tag is a reference, and extractor_resolve_url makes a URL of every one.
ASSUME LinesAssumption ==
    /\ \A l \in MasterLines : l.tag = "STREAM-INF" => {l.bw, l.h} \subseteq Int
    /\ \A l \in MasterLines \cup MediaLines : l.tag = "URL" => l.ref # None
    /\ \A b \in Bases, r \in References : Resolve(b, r) # None

VARIABLES
    plphase,   \* "fetch", "master", "variant", "media", "key", "ready", "noaudio" or "failed"
    kind,      \* "video", or "audio" in hls_download_audio
    base,      \* the URL the playlist was asked for under
    text,      \* the lines read of it
    quality,   \* what is asked for, once it matters
    master,    \* hls_master_t and what hls_parse_master remembers of a STREAM-INF
    media,     \* hls_media_t and hls_keystate_t
    chosen,    \* the variant, NoVariant before there is one
    audiourl,  \* audio_url
    key        \* first_key_url, whose key was fetched

plvars == <<plphase, kind, base, text, quality, master, media, chosen, audiourl, key>>

NoMaster == [variants |-> <<>>, audios |-> <<>>, pending |-> None]

NoMedia == [segments |-> <<>>, sequence |-> 0, enc |-> FALSE, key |-> None, iv |-> None, pending |-> FALSE]

NoVariant == [bw |-> 0, h |-> 0, group |-> None, url |-> None]

PlaylistInit ==
    /\ plphase = "fetch" /\ kind = "video"
    /\ base \in Playlists /\ quality = None
    /\ text = <<>> /\ master = NoMaster /\ media = NoMedia
    /\ chosen = NoVariant /\ audiourl = None /\ key = None

\* The video cannot be had at all; the audio only means a video without it.
GiveUp == plphase' = IF kind = "video" THEN "failed" ELSE "noaudio"

-----------------------------------------------------------------------------
(***************************************************************************)
(* The master playlist                                                     *)
(***************************************************************************)

\* A rendition's place in the list is not used up by other types, but by one
\* without a URI.
AddMedia(m, line) ==
    IF line.type # "AUDIO" \/ Len(m.audios) >= MaxVariants THEN m
    ELSE [m EXCEPT !.audios = Append(@, [group |-> line.group, default |-> line.default,
              url |-> IF line.ref = None THEN None ELSE Resolve(base, line.ref)])]

\* The URL goes with the STREAM-INF last seen; at the limit, that one stays.
AddVariant(m, line) ==
    IF m.pending = None \/ Len(m.variants) >= MaxVariants THEN m
    ELSE [m EXCEPT !.variants = Append(@, [bw |-> m.pending.bw, h |-> m.pending.h,
                                           group |-> m.pending.group, url |-> Resolve(base, line.ref)]),
                   !.pending = None]

MasterLine(m, line) ==
    IF line.tag = "STREAM-INF" THEN [m EXCEPT !.pending = line]
    ELSE IF line.tag = "MEDIA" THEN AddMedia(m, line)
    ELSE IF line.tag = "URL" THEN AddVariant(m, line)
    ELSE m

Higher(c, b) == IF c.h # b.h THEN c.h > b.h ELSE c.bw > b.bw

\* What replaces the one chosen so far: of equal ones the first is best, the last worst.
Better(want, c, b) ==
    CASE want = "best" -> Higher(c, b)
      [] want = "worst" -> ~Higher(c, b)
      [] want = "smallest" -> Higher(b, c)

\* The loops of hls_select_variant, over all the variants.
Winner(vs, want) ==
    LET chosenof[i \in 1..Len(vs)] ==
            IF i = 1 THEN vs[1]
            ELSE IF Better(want, vs[i], chosenof[i - 1]) THEN vs[i] ELSE chosenof[i - 1]
    IN  chosenof[Len(vs)]

Fits_AnyHeight(c, b, height) == b = NoVariant \/ Higher(c, b)

Fits(c, b, height) == c.h <= height /\ (b = NoVariant \/ Higher(c, b))

\* The highest up to a height, if there is one.
UpTo(vs, height) ==
    LET bestof[i \in 0..Len(vs)] ==
            IF i = 0 THEN NoVariant
            ELSE IF Fits(vs[i], bestof[i - 1], height) THEN vs[i] ELSE bestof[i - 1]
    IN  bestof[Len(vs)]

\* Without any height the limit can only mean the smallest.
SelectVariant(vs, q) ==
    IF q.want \in {"best", "worst"} THEN Winner(vs, q.want)
    ELSE IF (\A i \in DOMAIN vs : vs[i].h <= 0) \/ UpTo(vs, q.height) = NoVariant THEN Winner(vs, "smallest")
    ELSE UpTo(vs, q.height)

Renditions(m, v) == {i \in DOMAIN m.audios : m.audios[i].url # None /\ v.group # None /\ m.audios[i].group = v.group}

\* The first default one, or else the first.
PickAudio(m, v) ==
    LET defaults == {i \in Renditions(m, v) : m.audios[i].default}
    IN  IF Renditions(m, v) = {} THEN None
        ELSE m.audios[Min(IF defaults = {} THEN Renditions(m, v) ELSE defaults)].url

-----------------------------------------------------------------------------
(***************************************************************************)
(* A media playlist                                                        *)
(***************************************************************************)

\* An IV of its own, or else the number of the segment.
SegmentIv(m) ==
    IF ~m.enc THEN None
    ELSE IF m.iv # None THEN m.iv
    ELSE <<"sequence", m.sequence + Len(m.segments)>>

AddSegment(m, line) ==
    [m EXCEPT !.segments = Append(@, [url |-> Resolve(base, line.ref), enc |-> m.enc,
                                      key |-> IF m.enc THEN m.key ELSE None, iv |-> SegmentIv(m)]),
              !.pending = FALSE]

ApplyKey_KeepsIv(m, line) ==
    [m EXCEPT !.enc = line.method = "AES-128",
              !.key = IF line.method = "AES-128" THEN Resolve(base, line.ref) ELSE None,
              !.iv = IF line.method = "AES-128" /\ line.iv # None THEN line.iv ELSE @]

\* media_apply_key forgets all of the key before.
ApplyKey(m, line) ==
    [m EXCEPT !.enc = line.method = "AES-128",
              !.key = IF line.method = "AES-128" THEN Resolve(base, line.ref) ELSE None,
              !.iv = IF line.method = "AES-128" THEN line.iv ELSE None]

\* Other methods, a key without a URI, an IV that is not 16 bytes of hex, an
\* init segment, too many segments.
Unsupported(m, line) ==
    \/ line.tag = "KEY" /\ line.method \notin {"NONE", "AES-128"}
    \/ line.tag = "KEY" /\ line.method = "AES-128" /\ (line.ref = None \/ line.iv = <<"malformed">>)
    \/ line.tag = "MAP"
    \/ line.tag = "URL" /\ m.pending /\ Len(m.segments) >= MaxSegments

MediaLine(m, line) ==
    IF line.tag = "EXTINF" THEN [m EXCEPT !.pending = TRUE]
    ELSE IF line.tag = "MEDIA-SEQUENCE" THEN [m EXCEPT !.sequence = line.number]
    ELSE IF line.tag = "KEY" THEN ApplyKey(m, line)
    ELSE IF line.tag = "URL" /\ m.pending THEN AddSegment(m, line)
    ELSE m

Encrypted(m) == {i \in DOMAIN m.segments : m.segments[i].enc}

FirstKey(m) == IF Encrypted(m) = {} THEN None ELSE m.segments[Min(Encrypted(m))].key

KeyRotates(m) == \E i \in Encrypted(m) : m.segments[i].key # FirstKey(m)

-----------------------------------------------------------------------------
(***************************************************************************)
(* hls_download and hls_download_audio                                     *)
(***************************************************************************)

\* It cannot be fetched, or the answer is not a playlist.
FetchFails ==
    /\ plphase \in {"fetch", "variant"}
    /\ GiveUp
    /\ UNCHANGED <<kind, base, text, quality, master, media, chosen, audiourl, key>>

\* Whether it is a master playlist is a matter of its having a STREAM-INF.
Fetch ==
    /\ plphase = "fetch"
    /\ plphase' \in {"master", "media"}
    /\ UNCHANGED <<kind, base, text, quality, master, media, chosen, audiourl, key>>

ReadMasterLine ==
    /\ plphase = "master"
    /\ Len(text) < MaxMasterLines
    /\ \E line \in MasterLines : text' = Append(text, line) /\ master' = MasterLine(master, line)
    /\ UNCHANGED <<plphase, kind, base, quality, media, chosen, audiourl, key>>

EndMaster ==
    /\ plphase = "master"
    /\ \E i \in DOMAIN text : text[i].tag = "STREAM-INF"
    /\ IF master.variants = <<>>
       THEN GiveUp /\ UNCHANGED <<base, quality, chosen, audiourl>>
       ELSE \E q \in Qualities :
            LET v == SelectVariant(master.variants, q)
            IN  /\ plphase' = "variant" /\ quality' = q
                /\ chosen' = v /\ base' = v.url /\ audiourl' = PickAudio(master, v)
    /\ UNCHANGED <<kind, text, master, media, key>>

\* The variant's playlist: of the one before, only audio_url is used again.
FetchVariant ==
    /\ plphase = "variant"
    /\ plphase' = "media"
    /\ text' = <<>> /\ master' = NoMaster /\ chosen' = NoVariant /\ quality' = None
    /\ UNCHANGED <<kind, base, media, audiourl, key>>

ReadMediaLine ==
    /\ plphase = "media"
    /\ Len(text) < MaxMediaLines
    /\ \E line \in MediaLines :
         /\ text' = Append(text, line)
         /\ IF Unsupported(media, line)
            THEN GiveUp /\ UNCHANGED media
            ELSE media' = MediaLine(media, line) /\ UNCHANGED plphase
    /\ UNCHANGED <<kind, base, quality, master, chosen, audiourl, key>>

EndMedia ==
    /\ plphase = "media"
    /\ IF media.segments = <<>> THEN GiveUp
       ELSE plphase' = IF FirstKey(media) = None THEN "ready" ELSE "key"
    /\ UNCHANGED <<kind, base, text, quality, master, media, chosen, audiourl, key>>

\* One key for all of the playlist.
FetchKey ==
    /\ plphase = "key"
    /\ IF KeyRotates(media) THEN GiveUp ELSE plphase' = "ready"
    /\ key' = FirstKey(media)
    /\ UNCHANGED <<kind, base, text, quality, master, media, chosen, audiourl>>

KeyFails ==
    /\ plphase = "key"
    /\ GiveUp
    /\ UNCHANGED <<kind, base, text, quality, master, media, chosen, audiourl, key>>

\* The segments are downloaded (see HlsDownload), and then those of the audio.
FetchAudio ==
    /\ plphase = "ready" /\ kind = "video" /\ audiourl # None
    /\ kind' = "audio" /\ plphase' = "media"
    /\ base' = audiourl /\ text' = <<>> /\ media' = NoMedia /\ key' = None
    /\ UNCHANGED <<quality, master, chosen, audiourl>>

AudioFails ==
    /\ plphase = "ready" /\ kind = "video" /\ audiourl # None
    /\ kind' = "audio" /\ plphase' = "noaudio"
    /\ UNCHANGED <<base, text, quality, master, media, chosen, audiourl, key>>

PlaylistNext ==
    \/ FetchFails \/ Fetch
    \/ ReadMasterLine \/ EndMaster \/ FetchVariant
    \/ ReadMediaLine \/ EndMedia
    \/ FetchKey \/ KeyFails
    \/ FetchAudio \/ AudioFails

PlaylistSpec == PlaylistInit /\ [][PlaylistNext]_plvars

-----------------------------------------------------------------------------

\* What a media playlist says of line i (RFC 8216): it is the URL of a segment if
\* there is an EXTINF since the URL before, its key is that of the last KEY above
\* it, and its number counts from MEDIA-SEQUENCE, which is above all segments.
SegmentLine(i) ==
    /\ text[i].tag = "URL"
    /\ \E p \in 1..(i - 1) : text[p].tag = "EXTINF" /\ \A q \in (p + 1)..(i - 1) : text[q].tag # "URL"

SegmentLines == {i \in DOMAIN text : SegmentLine(i)}

KeyLine(i) == Max({0} \cup {p \in 1..(i - 1) : text[p].tag = "KEY"})

InTheClear(i) == KeyLine(i) = 0 \/ text[KeyLine(i)].method = "NONE"

FirstNumber ==
    LET tags == {i \in DOMAIN text : text[i].tag = "MEDIA-SEQUENCE"}
    IN  IF tags = {} THEN 0 ELSE text[Max(tags)].number

SequenceFirst == \A i \in DOMAIN text : text[i].tag = "MEDIA-SEQUENCE" => \A s \in SegmentLines : i < s

Says(segment, i) ==
    /\ segment.url = Resolve(base, text[i].ref)
    /\ segment.enc = ~InTheClear(i)
    /\ segment.enc =>
         /\ segment.key = Resolve(base, text[KeyLine(i)].ref) /\ segment.key = key
         /\ LET iv == text[KeyLine(i)].iv
                before == Cardinality({s \in SegmentLines : s < i})
            IN  IF iv # None THEN segment.iv = iv
                ELSE SequenceFirst => segment.iv = <<"sequence", FirstNumber + before>>

\* What goes to the threads is the playlist's segments, all and in order, each to
\* be decrypted with the key and the IV that hold where it stands; and every one
\* that is encrypted with the one key that was fetched.
SegmentsRight ==
    plphase = "ready" =>
        /\ Len(media.segments) = Cardinality(SegmentLines)
        /\ \A i \in SegmentLines : Says(media.segments[Cardinality({s \in SegmentLines : s <= i})], i)

\* Of the variants, one that no other is nearer to what was asked for: the best,
\* the worst, the best up to a height; the lowest if all are above it, or none
\* has a height.  And its audio, if it names a group, is of that group, the
\* default one if that has a URL.
VariantRight ==
    (chosen # NoVariant /\ plphase = "variant") =>
        LET vs == ToSet(master.variants)
            fit == {v \in vs : quality.want = "height" /\ v.h <= quality.height /\ \E w \in vs : w.h > 0}
            group == {a \in ToSet(master.audios) : a.group = chosen.group /\ a.url # None}
        IN  /\ chosen \in vs
            /\ quality.want = "best" => ~\E v \in vs : Higher(v, chosen)
            /\ quality.want = "worst" => ~\E v \in vs : Higher(chosen, v)
            /\ fit # {} => chosen \in fit /\ ~\E v \in fit : Higher(v, chosen)
            /\ (quality.want = "height" /\ fit = {}) => ~\E v \in vs : Higher(chosen, v)
            /\ IF chosen.group = None \/ group = {} THEN audiourl = None
               ELSE \E a \in group : a.url = audiourl /\ (a.default \/ ~\E d \in group : d.default)

PlaylistRight == SegmentsRight /\ VariantRight

=============================================================================
