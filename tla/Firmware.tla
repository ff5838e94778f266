------------------------------- MODULE Firmware -------------------------------
(***************************************************************************)
(* Parts of the nRF5340 firmware, and the ESP32 beside it, that are        *)
(* modelled without the others: the state of each is its own, and what it  *)
(* takes from the rest of the firmware is an input of its actions.  part   *)
(* says which one of them a behaviour is about; the others stay as they    *)
(* start.                                                                  *)
(*                                                                         *)
(* The gateway's parts, which share state, are composed in Gateway.tla,    *)
(* the broadcast sink's in AuracastSink.tla.                               *)
(***************************************************************************)
EXTENDS Headset, AudioRx, AudioDatapath, Advertising, Broadcaster, MediaControl, SdPlayback,
        Lc3Streamer, BoardLinks, Esp32Bridge

VARIABLE part
linkVars == <<boardLinksVars, esp32Vars>>
firmwareVars == <<part, headsetVars, audioRxVars, datapathVars, advertisingVars, broadcasterVars,
                  mediaVars, sdPlaybackVars, lc3Vars, linkVars>>

PartNames == {"headset", "audio_rx", "datapath", "advertising", "broadcaster", "media", "sd_playback",
              "lc3_streamer", "board_links", "esp32"}

Init ==
    /\ part \in PartNames
    /\ HeadsetInit
    /\ AudioRxInit
    /\ DatapathInit
    /\ AdvertisingInit
    /\ BroadcasterInit
    /\ MediaInit
    /\ SdPlaybackInit
    /\ Lc3Init
    /\ BoardLinksInit
    /\ Esp32Init
    \* The network that is stored, or the delay that the datapath starts with, tells no other
    \* part's behaviours apart.
    /\ part # "esp32" => nvs = NoNetwork
    /\ part # "datapath" => \A d \in PresDelays : pres.delay <= d

\* Everything but a part's own variables.
headsetPlayVars == <<headsetVars, audioRxVars, datapathVars>>
radioVars == <<advertisingVars, broadcasterVars, mediaVars>>
cardVars == <<sdPlaybackVars, lc3Vars>>

Next ==
    /\ UNCHANGED part
    /\ \/ /\ part = "headset" /\ HeadsetNext
          /\ UNCHANGED <<audioRxVars, datapathVars, radioVars, cardVars, linkVars>>
       \/ /\ part = "audio_rx" /\ AudioRxNext
          /\ UNCHANGED <<headsetVars, datapathVars, radioVars, cardVars, linkVars>>
       \/ /\ part = "datapath" /\ DatapathNext
          /\ UNCHANGED <<headsetVars, audioRxVars, radioVars, cardVars, linkVars>>
       \/ /\ part = "advertising" /\ AdvertisingNext
          /\ UNCHANGED <<headsetPlayVars, broadcasterVars, mediaVars, cardVars, linkVars>>
       \/ /\ part = "broadcaster" /\ BroadcasterNext
          /\ UNCHANGED <<headsetPlayVars, advertisingVars, mediaVars, cardVars, linkVars>>
       \/ /\ part = "media" /\ MediaNext
          /\ UNCHANGED <<headsetPlayVars, advertisingVars, broadcasterVars, cardVars, linkVars>>
       \/ /\ part = "sd_playback" /\ SdPlaybackNext
          /\ UNCHANGED <<headsetPlayVars, radioVars, lc3Vars, linkVars>>
       \/ /\ part = "lc3_streamer" /\ Lc3Next
          /\ UNCHANGED <<headsetPlayVars, radioVars, sdPlaybackVars, linkVars>>
       \/ /\ part = "board_links" /\ BoardLinksNext
          /\ UNCHANGED <<headsetPlayVars, radioVars, cardVars, esp32Vars>>
       \/ /\ part = "esp32" /\ Esp32Next
          /\ UNCHANGED <<headsetPlayVars, radioVars, cardVars, boardLinksVars>>

Spec == Init /\ [][Next]_firmwareVars

-----------------------------------------------------------------------------
\* The types of every part's variables.
TypeOK ==
    /\ part \in PartNames
    /\ HeadsetTypeOK
    /\ AudioRxTypeOK
    /\ DatapathTypeOK
    /\ AdvertisingTypeOK
    /\ BroadcasterTypeOK
    /\ MediaTypeOK
    /\ SdPlaybackTypeOK
    /\ Lc3TypeOK
    /\ BoardLinksTypeOK
    /\ Esp32TypeOK

\* What interrupts, tasks and threads share on the way from the radio's processor to a
\* client of the bridge stays coherent: buffers, taps, queued lines and credentials.
LinksHold == SharedBuffersHold /\ FreshForClient /\ JoinedIsStored
=============================================================================
