------------------------------- MODULE WfdParams -------------------------------
(***************************************************************************)
(* What the two sessions negotiate: services/impl/wfd/wfd_message.cpp and  *)
(* the tables of wfd_session_def.h.  The sink answers M3 with what it can  *)
(* decode and the port it listens on, the source picks from that and says  *)
(* so in M4, and the sink sets its tracks up from M4.                      *)
(*                                                                         *)
(* A bit mask is the set of its bits; the one number that is shifted and   *)
(* cut to a byte, native, stays a number.  The source of this repository   *)
(* asks for the four parameters below and no others (WfdRtspM3Request).    *)
(***************************************************************************)
EXTENDS Naturals, Sequences

CONSTANTS DecoderSizes,  \* CEA resolutions that the H.264 decoder of the sink takes
          DecoderModes   \* AAC modes that the audio decoder of the sink takes

\* The CEA row of VIDEO_RESOLUTION_TABLE, up to VIDEO_R1_RESOLUTION_SIZE.
CeaTable == <<<<640, 480, 60>>, <<720, 480, 60>>, <<720, 480, 60>>, <<720, 576, 50>>, <<720, 576, 50>>,
              <<1280, 720, 30>>, <<1280, 720, 60>>, <<1920, 1080, 30>>, <<1920, 1080, 60>>, <<1920, 1080, 60>>,
              <<1280, 720, 25>>, <<1280, 720, 50>>, <<1920, 1080, 25>>, <<1920, 1080, 50>>, <<1920, 1080, 50>>,
              <<1280, 720, 24>>, <<1920, 1080, 24>>>>
R1Sizes == 0..(Len(CeaTable) - 1)

\* AUDIO_CONFIG_TABLE: sample rate and channels of each mode.
AudioTable == [LPCM |-> <<<<44100, 2>>, <<48000, 2>>, <<48000, 1>>, <<48000, 6>>, <<48000, 8>>,
                          <<48000, 2>>, <<96000, 2>>, <<96000, 2>>, <<96000, 6>>, <<96000, 8>>>>,
               AAC  |-> <<<<48000, 2>>, <<48000, 4>>, <<48000, 6>>, <<48000, 8>>>>]

\* log(mask) / log(2), cut to an integer.
HighestBit(mask) == CHOOSE i \in mask : \A j \in mask : j <= i

-----------------------------------------------------------------------------
(* M3, at the sink *)

CeaOfFormat == [VIDEO_1920X1080_60 |-> 8, VIDEO_1920X1080_30 |-> 7, VIDEO_1920X1080_25 |-> 12,
                VIDEO_1280X720_60 |-> 6, VIDEO_1280X720_30 |-> 5, VIDEO_1280X720_25 |-> 10,
                VIDEO_640X480_60 |-> 0]
IsVideoResolutionSupport(index) == index \in DecoderSizes
GetSupportVideoResolution == {i \in R1Sizes : IsVideoResolutionSupport(i)}
GetVideoFormatResolution(format) ==
    LET index == IF format \in DOMAIN CeaOfFormat THEN CeaOfFormat[format] ELSE 0
    IN  IF IsVideoResolutionSupport(index) THEN index ELSE 0

\* native holds the mask, not the index, and only its lowest byte.
OfferVideo(format) ==
    LET index == GetVideoFormatResolution(format)
        mask == IF format = "VIDEO_NONE" THEN GetSupportVideoResolution ELSE {index}
    IN  [native |-> IF format = "VIDEO_NONE" THEN 0 ELSE (2 ^ index * 8) % 256,
         cea    |-> IF mask = {} THEN {0} ELSE mask]

AacMode == [AUDIO_48000_16_2 |-> 0, AUDIO_48000_16_4 |-> 1, AUDIO_48000_16_6 |-> 2, AUDIO_48000_16_8 |-> 3]
IsSupportAudioModes(mode) == mode \in DecoderModes
GetSupportAudioCodecList == [codec |-> "AAC", modes |-> {i \in 0..3 : IsSupportAudioModes(i)}]
GetAudioFormat(format) ==
    LET mode == IF format \in DOMAIN AacMode THEN AacMode[format] ELSE 0
    IN  CASE format = "AUDIO_44100_8_2"  -> [codec |-> "LPCM", modes |-> {0}]
          [] format = "AUDIO_44100_16_2" -> [codec |-> "LPCM", modes |-> {1}]
          [] OTHER -> [codec |-> "AAC", modes |-> {IF IsSupportAudioModes(mode) THEN mode ELSE 0}]
OfferAudio(format) == IF format = "AUDIO_NONE" THEN GetSupportAudioCodecList ELSE GetAudioFormat(format)

\* The fields of wfd_client_rtp_ports: profile, two ports and mode.
SetClientRtpPorts(port) == <<"RTP/AVP/UDP;unicast", port, 0, "mode=play">>
GetClientRtpPorts(fields) == fields[2]

\* SetM3ResponseParam, for the parameters of WfdRtspM3Request.
M3Params(config) == [video |-> OfferVideo(config.video), audio |-> OfferAudio(config.audio),
                     ports |-> SetClientRtpPorts(config.port)]

-----------------------------------------------------------------------------
(* M3 and M4, at the source *)

FormatOfCea == [i \in {0, 5, 6, 7, 8, 12} |->
                   CHOOSE f \in DOMAIN CeaOfFormat : CeaOfFormat[f] = i]
GetVideoFormatsByCea(index) == IF index \in DOMAIN FormatOfCea THEN FormatOfCea[index] ELSE "VIDEO_640X480_60"

\* The choice is made from native; the masks are read and not used.
GetVideoFormats(video) ==
    IF video.native % 8 = 0 THEN GetVideoFormatsByCea(video.native \div 8) ELSE "VIDEO_640X480_60"

\* PCM only if there is no AAC; the two LPCM modes that mask 1 stands for do not count.
GetAudioCodecs(audio) == IF audio.codec = "LPCM" /\ \E i \in audio.modes : i > 0 THEN "PCM" ELSE "AAC"

Choose(m3) == [video |-> GetVideoFormats(m3.video), codec |-> GetAudioCodecs(m3.audio),
               port |-> GetClientRtpPorts(m3.ports)]

\* Variant with a fault: every format but the smallest goes out as the next one of the table.
ShiftedSettleVideo(format) ==
    CASE format \in {"VIDEO_1920X1080_60", "VIDEO_1920X1080_30"} -> {8}
      [] OTHER                                                   -> {1}

\* WfdRtspM4Request::SetVideoFormats: 60 frames per second are not offered for the large formats.
SettleVideo(format) ==
    CASE format \in {"VIDEO_1920X1080_60", "VIDEO_1920X1080_30"} -> {7}
      [] format = "VIDEO_1920X1080_25"                           -> {12}
      [] format = "VIDEO_1280X720_30"                            -> {5}
      [] format = "VIDEO_1280X720_25"                            -> {10}
      [] OTHER                                                   -> {0}

SettleAudio(codec) == IF codec = "PCM" THEN [codec |-> "LPCM", modes |-> {1}] ELSE [codec |-> "AAC", modes |-> {0}]

SettlePort(port) == SetClientRtpPorts(port)

M4Params(choice) == [cea |-> SettleVideo(choice.video), audio |-> SettleAudio(choice.codec),
                     ports |-> SettlePort(choice.port)]

-----------------------------------------------------------------------------
(* M4, at the sink *)

NoTrack == [video |-> <<>>, audio |-> <<>>]

GetVideoTrack(m4, old) == IF m4.cea = {} THEN old ELSE CeaTable[HighestBit(m4.cea) + 1]
GetAudioTrack(m4, old) == IF m4.audio.modes = {} THEN old
                          ELSE AudioTable[m4.audio.codec][HighestBit(m4.audio.modes) + 1]
Tracks(m4, old) == [video |-> GetVideoTrack(m4, old.video), audio |-> GetAudioTrack(m4, old.audio)]
=============================================================================
