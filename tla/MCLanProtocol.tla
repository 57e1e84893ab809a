---------------------------- MODULE MCLanProtocol ----------------------------
EXTENDS LanProtocol

\* Messages that are empty, not worth compressing, and compressed to a run, to a run as
\* long as a run may be, and to a run and more.
Messages == {<<>>, <<1>>, <<0, 0>>, <<0, 0, 0, 0>>, <<0, 0, 0, 1>>, <<1, 0, 1, 0>>}

UpToSixBytes == BoundedSeq({0, 1, 2}, 6)
=============================================================================
