-------------------------- MODULE MCRtspConnection --------------------------
(* Small instances of RtspConnection for TLC.                               *)
EXTENDS RtspConnection

\* A PLAY, as short as a request with a byte in it can be.
MCPlay == <<LF, CR, LF, CR, LF>>
MCPlayRequests == {MCPlay}

\* All streams of nine bytes, the size of the buffer, for a client that is sent
\* nothing; a client that plays, and sends RTCP or PLAY again, or nothing more.
Long == [1 .. 9 -> Byte]
MCRtcp == <<Dollar, 1, 0, 1, 2>>
Replays == {MCPlay \o MCRtcp, MCPlay \o MCPlay}
MCStreams == Long \cup Replays \cup {MCPlay}

\* Access units: all byte strings up to five over a zero, a one and the header of an
\* IDR; and up to three NAL units behind long and short start codes, of sizes around
\* the payload limit, with zeros inside and behind.
Raw == UNION {[1 .. n -> {0, 1, 101}] : n \in 1 .. 5}
StartCodes == {<<0, 0, 1>>, <<0, 0, 0, 1>>}
NalBodies == {<<>>, <<103, 9>>, <<101, 2>>, <<97, 2, 0, 3, 4>>, <<101, 2, 3, 4, 5, 6>>,
           <<101, 2, 3, 4, 5, 6, 7>>, <<104, 7, 0>>}
One == {c \o b : c \in StartCodes, b \in NalBodies}
Parts == {<<0, 0, 0, 1, 103, 9>>, <<0, 0, 1, 104, 8>>, <<0, 0, 0, 1, 101, 2, 3, 4, 5, 6>>}
Few == {<<0, 0, 1, 97, 2, 0, 3, 4, 5, 6, 7>>, <<0, 0, 0, 1, 103, 9, 0, 0, 1, 101, 2>>, <<0, 1>>}
MCUnits == Raw \cup Few \cup {a \o b : a \in One, b \in One}
               \cup {a \o b \o c : a \in Parts, b \in Parts, c \in Parts}

MCClients == {"silent", "plays", "replays"}
MCSends(c) == CASE c = "silent" -> Long [] c = "plays" -> {MCPlay} [] c = "replays" -> Replays
MCGets(c) == CASE c = "silent" -> {} [] c = "plays" -> MCUnits [] c = "replays" -> Few
=============================================================================
