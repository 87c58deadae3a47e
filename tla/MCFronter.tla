----------------------------- MODULE MCFronter -----------------------------
(***************************************************************************)
(* The instances of the Apps Script relay client (domain_fronter.rs) that  *)
(* TLC explores: the rotation over deployments, the relay of a request,    *)
(* the download in ranges; the reading and decoding of a response, the     *)
(* daily quota and the cutting of video requests.  They share no state in  *)
(* the code, so `part` chooses in Init which of them runs, and the others  *)
(* keep their initial state: one run explores the disjoint union of their  *)
(* state spaces.                                                           *)
(***************************************************************************)
EXTENDS Deployments, Relay, RangeDownload, HttpResponse, ResponseBody, QuotaDay, SabrStrip

VARIABLE part

dataVars == <<hrVars, rbVars, qdVars, sbVars>>
fronterVars == <<part, depVars, rlVars, rgVars, dataVars>>

(* Three deployments are the fewest with a slow set; four configurations   *)
(* keep the interplay of the records that matter to each other.            *)
MCSetups ==
    {[n |-> 3, kinds |-> {"latency"}, flight |-> 1, strikes |-> 2],
     [n |-> 3, kinds |-> {"relay", "fanout"}, flight |-> 2, strikes |-> 2],
     [n |-> 2, kinds |-> {"timeout"}, flight |-> 1, strikes |-> 2],
     [n |-> 2, kinds |-> {"relay", "timeout", "probe"}, flight |-> 1, strikes |-> 1]}

Req(unsafe, key, exit, fan) == [unsafe |-> unsafe, key |-> key, exit |-> exit, fan |-> fan]

(* Coalesced and separate GETs, a fan-out, the exit node before a GET, and *)
(* unsafe requests with a fan-out configured and through the exit node.    *)
MCMixes ==
    {<<Req(FALSE, "k", FALSE, 1), Req(FALSE, "k", FALSE, 1)>>,
     <<Req(FALSE, "k", FALSE, 1), Req(FALSE, "l", FALSE, 1)>>,
     <<Req(FALSE, "k", FALSE, 2), Req(FALSE, "k", FALSE, 1)>>,
     <<Req(FALSE, "k", TRUE, 1), Req(FALSE, "k", FALSE, 1)>>,
     <<Req(TRUE, "none", FALSE, 2)>>,
     <<Req(TRUE, "none", TRUE, 1)>>}

(* Every way to cut up to three bytes into chunks.                         *)
MCChunkLists == {<<>>, <<1>>, <<2>>, <<3>>, <<1, 2>>, <<2, 1>>, <<1, 1, 1>>}

(* The calendar in steps of 23 hours through 2000, a leap century, 2001,   *)
(* 2023, 2024, and 2100, a common century, a month at a time; hour by hour *)
(* through the weeks of March and November in which the clocks may change, *)
(* in four years; and the counter around two midnights.  (Days since       *)
(* 1970.)                                                                  *)
MCStarts ==
    {[hour |-> (year + 31 * month) * 24, step |-> 23, ticks |-> 33, counts |-> FALSE] :
        year \in {10957, 11323, 19358, 19723, 47482}, month \in 0..11}
    \cup {[hour |-> day * 24, step |-> 1, ticks |-> 200, counts |-> FALSE] :
            day \in {19423, 19789, 20154, 20519} \cup {19661, 20027, 20392, 20757}}
    \cup {[hour |-> 473369, step |-> 8, ticks |-> 6, counts |-> TRUE]}

(* A request the cut applies to, and one for another host.                 *)
MCSabrRequests ==
    {[post |-> TRUE, videoplayback |-> TRUE, youtube |-> y] : y \in BOOLEAN}

-----------------------------------------------------------------------------
FronterInit ==
    /\ part \in {"deployments", "relay", "range", "response", "body", "quota", "sabr"}
    /\ DepInit /\ (part # "deployments" => setup = CHOOSE u \in Setups : u.n = 3)
    /\ RlInit /\ (part # "relay" => req = CHOOSE m \in Mixes : TRUE)
    /\ RgInit /\ (part # "range" => total = (CHOOSE n \in Totals : TRUE) /\ ~streaming)
    /\ HrInit /\ (part # "response" => hrPeer = CHOOSE p \in Peers : TRUE)
    /\ RbInit /\ (part # "body" => rbSetup = CHOOSE s \in RbSetups : s.path = "relay")
    /\ QdInit /\ (part # "quota" => qdStart = CHOOSE s \in Starts : s.counts)
    /\ SbInit /\ (part # "sabr" => sbRequest = CHOOSE r \in SabrRequests : TRUE)

Only(p) == part = p /\ UNCHANGED part
ButDeployments == UNCHANGED <<rlVars, rgVars, dataVars>>
ButRelay == UNCHANGED <<depVars, rgVars, dataVars>>
ButRange == UNCHANGED <<depVars, rlVars, dataVars>>
ButData == UNCHANGED <<depVars, rlVars, rgVars>>

FronterNext ==
    \/ Only("deployments") /\ DepNext /\ ButDeployments
    \/ Only("relay") /\ RlNext /\ ButRelay
    \/ Only("range") /\ RgNext /\ ButRange
    \/ Only("response") /\ HrNext /\ UNCHANGED <<rbVars, qdVars, sbVars>> /\ ButData
    \/ Only("body") /\ RbNext /\ UNCHANGED <<hrVars, qdVars, sbVars>> /\ ButData
    \/ Only("quota") /\ QdNext /\ UNCHANGED <<hrVars, rbVars, sbVars>> /\ ButData
    \/ Only("sabr") /\ SbNext /\ UNCHANGED <<hrVars, rbVars, qdVars>> /\ ButData

(* Traffic keeps coming and clocks advance; a request and a download keep  *)
(* running, as their tasks are polled until they return.                   *)
FronterRuns ==
    \/ Only("deployments") /\ Traffic /\ ButDeployments
    \/ Only("relay") /\ (\E r \in Reqs : ReqStep(r)) /\ ButRelay
    \/ Only("range") /\ RgStep /\ ButRange

ClockRuns == Only("deployments") /\ Tick /\ ButDeployments

FronterSpec ==
    /\ FronterInit /\ [][FronterNext]_fronterVars
    /\ WF_fronterVars(FronterRuns) /\ WF_fronterVars(ClockRuns)

-----------------------------------------------------------------------------
(* The contract of what is read and handed on: ranges stitched without a   *)
(* gap, a response whole and read to its very end, a body labelled as what *)
(* it is, and a video request cut only where it may be; and the records    *)
(* kept of the deployments are what the code can write.                    *)
DownloadsSound ==
    /\ DepTypeOK
    /\ RgTypeOK /\ StitchedInOrder /\ CompleteIsWhole /\ WrapperNeverTruncates
    /\ HrTypeOK /\ WholeOrError /\ EndsAtBoundary /\ NoFalseError
    /\ RbTypeOK /\ DeliveredAsLabelled /\ NoEnvelopeAsPage
    /\ OnlySurplusTracksCut

(* What no step does: pick a worse deployment than there is, ban one for   *)
(* timeouts of unrelated incidents, lift a cooldown that is newer than the *)
(* probe, repeat an unsafe request that may have run, or miss a day.       *)
FronterSteps ==
    [][SelectsBest /\ StrikesAreOneBurst /\ ProbeKeepsNewerEntry /\ NoReplayAfterMaybe
       /\ CalendarExact]_fronterVars

(* No deployment is banned for good, every request is answered and every   *)
(* download ends.  (The last two reach states that are never left, so      *)
(* "again and again" is "for ever" for them; of the other parts no         *)
(* progress is asked.)                                                     *)
FronterProgress ==
    []<>(\/ part = "deployments" /\ UsedAgain
         \/ part = "relay" /\ AllAnswered
         \/ part = "range" /\ DownloadOver
         \/ part \in {"response", "body", "quota", "sabr"})
=============================================================================
