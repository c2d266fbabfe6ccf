-------------------------------- MODULE Gapless --------------------------------
(* What a track says of the frames to skip at its ends: the Xing and LAME   *)
(* tag of an MP3, iTunSMPB, OpusHead and granules.                          *)
(* src/desktop/src/audio/decode/gapless_info.cpp                            *)
(*                                                                          *)
(* An MPEG header is the record of its bit fields. A first frame is the     *)
(* record of what an encoder wrote in it and of how much of it was read; a  *)
(* number that does not parse is NoHex.                                     *)
EXTENDS Integers, Sequences, FiniteSetsExt, SequencesExt

CONSTANTS
    Max32,       \* greatest skip (2^32 - 1 in the code)
    Unknown,     \* kUnknownFrames
    NoHex,
    Slack        \* frames a tag may claim beyond the stream and a tenth (4096)

Failed == [ok |-> FALSE]
Decoder == 529   \* kMp3DecoderDelay
Info(start, end, valid, source) ==
    [ok |-> TRUE, start |-> start, end |-> end, valid |-> valid, source |-> source]

PlayableFrames(i) ==
    IF i.valid = Unknown THEN Unknown
    ELSE IF i.start + i.end >= i.valid THEN 0 ELSE i.valid - (i.start + i.end)
SampleExact(i) == i.source # "none"
CanSplice(outgoing, incoming) ==
    SampleExact(outgoing) /\ SampleExact(incoming) /\ outgoing.valid # Unknown

-----------------------------------------------------------------------------
(* MPEG frame header                                                        *)

Mpeg1L3 == <<0, 32, 40, 48, 56, 64, 80, 96, 112, 128, 160, 192, 224, 256, 320, 0>>
Mpeg2L3 == <<0, 8, 16, 24, 32, 40, 48, 56, 64, 80, 96, 112, 128, 144, 160, 0>>
Mpeg1L2 == <<0, 32, 48, 56, 64, 80, 96, 112, 128, 160, 192, 224, 256, 320, 384, 0>>
Mpeg1L1 == <<0, 32, 64, 96, 128, 160, 192, 224, 256, 288, 320, 352, 384, 416, 448, 0>>
Kbps(v, l) == IF v # 3 THEN Mpeg2L3 ELSE CASE l = 3 -> Mpeg1L3 [] l = 2 -> Mpeg1L2 [] OTHER -> Mpeg1L1
Rates(v) == CASE v = 3 -> <<44100, 48000, 32000, 0>>
              [] v = 2 -> <<22050, 24000, 16000, 0>>
              [] OTHER -> <<11025, 12000, 8000, 0>>

SamplesPerFrame(v, l) == CASE l = 1 -> 384 [] l = 2 -> 1152 [] OTHER -> IF v = 3 THEN 1152 ELSE 576
FrameBytes(l, spf, kbps, rate, pad) ==
    IF l = 1 THEN ((12 * kbps * 1000) \div rate + (IF pad THEN 4 ELSE 0)) * 4
    ELSE ((spf \div 8) * kbps * 1000) \div rate + (IF pad THEN 1 ELSE 0)
SideInfoSwapped(v, mono) ==   \* mutant: MPEG-2 mono takes MPEG-1's size
    IF v = 3 THEN (IF mono THEN 17 ELSE 32) ELSE 17
SideInfo(v, mono) == IF v = 3 THEN (IF mono THEN 17 ELSE 32) ELSE (IF mono THEN 9 ELSE 17)

\* version and layer are the bits of the header: 3 is MPEG-1, 1 is Layer III.
ParseHeader(h, given) ==
    LET l == 4 - h.layer
        kbps == Kbps(h.version, l)[h.bitrate + 1]
        rate == Rates(h.version)[h.rate + 1]
        spf == SamplesPerFrame(h.version, l)
    IN  IF given < 4 \/ ~h.sync \/ h.version = 1 \/ h.layer = 0 \/ kbps = 0 \/ rate = 0 THEN Failed
        ELSE [ok |-> TRUE, layer |-> l, crc |-> h.protected, rate |-> rate, kbps |-> kbps, spf |-> spf,
              channels |-> IF h.mode = 3 THEN 1 ELSE 2, bytes |-> FrameBytes(l, spf, kbps, rate, h.padded),
              side |-> IF l = 3 THEN SideInfo(h.version, h.mode = 3) ELSE 0]

-----------------------------------------------------------------------------
(* Xing / Info and LAME                                                     *)

\* The polynomial x^16 + x^15 + x^2 + 1, a bit of the data at a time.
Flip(x, b) == IF (x \div b) % 2 = 1 THEN x - b ELSE x + b
Shift(crc, bit) ==
    LET top == crc \div 32768
        twice == (crc * 2) % 65536
    IN  IF top = bit THEN twice ELSE Flip(Flip(twice + 1, 4), 32768)
Crc16(bytes) ==
    FoldLeft(LAMBDA crc, b : FoldLeft(LAMBDA c, p : Shift(c, (b \div p) % 2), crc, <<128, 64, 32, 16, 8, 4, 2, 1>>), 0, bytes)

\* The optional fields in their fixed order, and what each takes.
Optional == <<[flag |-> 1, size |-> 4], [flag |-> 2, size |-> 4], [flag |-> 4, size |-> 100], [flag |-> 8, size |-> 4]>>
Has(flags, bit) == (flags \div bit) % 2 = 1
Cursor(flags, start, k) == start + MapThenSumSet(LAMBDA j : IF Has(flags, Optional[j].flag) THEN Optional[j].size ELSE 0, 1..k)

\* f.at is the offset of the magic, or of no magic at all.
ParseXingLame(f) ==
    LET h == ParseHeader(f.header, f.given)
        offset == 4 + (IF h.crc THEN 2 ELSE 0) + h.side
        end == Cursor(f.flags, offset + 8, 4)
        tag == [ok |-> TRUE, counted |-> Has(f.flags, 1), count |-> f.count, lame |-> FALSE]
    IN  IF ~h.ok THEN Failed
        ELSE IF h.layer # 3 \/ f.given < offset + 8 \/ f.at # offset THEN Failed
        ELSE IF \E k \in 1..4 : Has(f.flags, Optional[k].flag) /\ f.given < Cursor(f.flags, offset + 8, k) THEN Failed
        ELSE IF f.given < end + 36 \/ ~f.printable THEN tag
        ELSE [ok |-> TRUE, counted |-> tag.counted, count |-> f.count, lame |-> TRUE,
              delay |-> f.packed[1] * 16 + f.packed[2] \div 16, padding |-> (f.packed[2] % 16) * 256 + f.packed[3],
              sound |-> f.stored = 0 \/ f.stored = Crc16(<<f.flags, f.count>> \o f.packed)]

FromXingLame(tag, spf) ==
    LET valid == IF tag.counted /\ spf > 0 THEN tag.count * spf ELSE Unknown
        start == tag.delay + Decoder
        end == IF tag.padding > Decoder THEN tag.padding - Decoder ELSE 0
        untrusted == Info(Decoder, 0, valid, "none")
    IN  IF ~tag.lame THEN untrusted
        ELSE IF ~tag.sound \/ (valid # Unknown /\ start + end >= valid) THEN untrusted
        ELSE Info(start, end, valid, "xing-lame")
Mp3GaplessInfo(f) ==
    LET h == ParseHeader(f.header, f.given)
        tag == ParseXingLame(f)
    IN  IF ~h.ok \/ ~tag.ok THEN Info(Decoder, 0, Unknown, "none") ELSE FromXingLame(tag, h.spf)

-----------------------------------------------------------------------------
(* iTunSMPB, OpusHead, granules                                             *)

\* v.fields are the words of the value, v.size its bytes.
ParseITunSmpb(v, hint) ==
    LET n == Len(v.fields)
        priming == v.fields[2]
        padding == v.fields[3]
        total == v.fields[4]
    IN  IF v.size > 512 \/ n < 4 \/ n > 16 THEN Failed
        ELSE IF NoHex \in {priming, padding, total} THEN Failed
        ELSE IF priming > Max32 \/ padding > Max32 THEN Failed
        ELSE IF total > 0 /\ priming + padding > total THEN Failed
        ELSE IF hint # Unknown /\ total > 0 /\ total > hint + hint \div 10 + Slack THEN Failed
        ELSE Info(priming, padding, IF total > 0 THEN total ELSE Unknown, "itunsmpb")

AacFallback(priming, total) == Info(priming, 0, total, "none")
Native(total) == Info(0, 0, total, "native")

ParseOpusHead(h) ==
    IF h.size < 19 \/ ~h.magic \/ h.version \div 16 # 0 \/ h.channels = 0 THEN Failed
    ELSE IF h.family \in {1, 2} /\ h.size < 21 + h.channels THEN Failed
    ELSE [ok |-> TRUE, preSkip |-> h.preSkip]
FromOpusHead(head, total, rate) ==
    LET skip == IF rate # 0 /\ rate # 48000 THEN (head.preSkip * rate + 24000) \div 48000 ELSE head.preSkip
    IN  Info(Min({skip, Max32}), 0, total, "opushead")

FromGranule(final, initial) ==
    LET skip == IF initial < 0 THEN -(initial + 1) + 1 ELSE 0
    IN  IF final < 0 \/ skip > Max32 \/ final < skip THEN Failed
        ELSE Info(skip, 0, final, "granule")

-----------------------------------------------------------------------------

\* Where an encoder puts its tag (ISO 11172-3 and 13818-3), and the frame it
\* writes there, with the checksum of its bytes or with none.
TagPlace(h) == 4 + (IF h.protected THEN 2 ELSE 0)
                 + (IF h.version = 3 THEN 17 ELSE 9) + (IF h.mode = 3 THEN 0 ELSE IF h.version = 3 THEN 15 ELSE 8)
Packed(delay, padding) == <<delay \div 16, (delay % 16) * 16 + padding \div 256, padding % 256>>
Written(h, flags, count, delay, padding, checked) ==
    [header |-> h, given |-> 400, at |-> TagPlace(h), flags |-> flags, count |-> count, printable |-> TRUE,
     packed |-> Packed(delay, padding),
     stored |-> IF checked THEN Crc16(<<flags, count>> \o Packed(delay, padding)) ELSE 0]

\* A frame lasts as long as its bytes at its bitrate, to a slot.
FrameKeepsBitrate(h) ==
    LET p == ParseHeader(h, 4)
        slot == IF p.layer = 1 THEN 4 ELSE 1
        wanted == p.spf * p.kbps * 125
        given == p.bytes * p.rate
    IN  p.ok => wanted <= given + slot * p.rate /\ given <= wanted + slot * slot * p.rate

\* The skips an encoder wrote are the skips that are played, in every
\* version and channel mode, whichever of the optional fields it left out;
\* cut anywhere, the tag loses its authority and never gives other skips.
TagReadsBack(h, flags, count, delay, padding) ==
    LET f == Written(h, flags, count, delay, padding, TRUE)
        i == Mp3GaplessInfo(f)
        p == ParseHeader(h, 4)
        trim == delay + Decoder + Max({0, padding - Decoder})
    IN  p.ok /\ p.layer = 3 =>
          /\ i = IF Has(flags, 1) /\ trim >= count * p.spf THEN Info(Decoder, 0, count * p.spf, "none")
                 ELSE Info(delay + Decoder, Max({0, padding - Decoder}),
                           IF Has(flags, 1) THEN count * p.spf ELSE Unknown, "xing-lame")
          /\ \A given \in {3, TagPlace(h) + 7, TagPlace(h) + 11, TagPlace(h) + 20, TagPlace(h) + 43, 120, 188, 189, 190} :
                LET cut == Mp3GaplessInfo([f EXCEPT !.given = given])
                IN  cut = i \/ (cut.source = "none" /\ cut.start = Decoder /\ cut.end = 0)

\* One byte changed under a checksum that was written: the skips are not
\* those of the damaged byte.
DamageIsSeen(h, flags, count, delay, padding) ==
    LET f == Written(h, flags, count, delay, padding, TRUE)
    IN  f.stored # 0 =>
          \A k \in 1..3, b \in {0, 1, 16, 128, 255} :
             b # f.packed[k] => ~SampleExact(Mp3GaplessInfo([f EXCEPT !.packed[k] = b]))

\* Skips that claim to be exact leave something of the track, or the whole
\* of it was trimmed on purpose; what cannot be is refused.
TrimFits(v, hint) ==
    LET i == ParseITunSmpb(v, hint)
    IN  i.ok => /\ i.start <= Max32 /\ i.end <= Max32
                /\ i.valid # Unknown => /\ PlayableFrames(i) = i.valid - i.start - i.end
                                        /\ hint # Unknown => PlayableFrames(i) <= hint + hint \div 10 + Slack
                /\ CanSplice(i, Native(1)) <=> i.valid # Unknown
GranuleFits(final, initial) ==
    LET i == FromGranule(final, initial)
    IN  i.ok => i.valid = final /\ PlayableFrames(i) = final + Min({0, initial})
\* The head skip lasts as long at the rate that is played as at 48 kHz.
PreSkipKeepsTime(preSkip, rate) ==
    LET i == FromOpusHead([preSkip |-> preSkip], Unknown, rate)
        heard == i.start * 48000
        asked == preSkip * rate
    IN  rate # 0 /\ i.start < Max32 => heard <= asked + 24000 /\ asked <= heard + 24000
=============================================================================
