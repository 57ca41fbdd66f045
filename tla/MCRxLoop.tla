------------------------------- MODULE MCRxLoop -------------------------------
\* Instances of RxLoop for TLC: two-valued bytes, so LEN and CTR are 0..3,
\* LEN 3 is oversized and the CTR wraps after four frames.
EXTENDS RxLoop

MCPayloads == {<<1>>, <<1, 0>>}

\* Junk no part of which reads as an acceptable header: less than a header, and
\* a second impossible one, as in test_oversized_len_rejection.
HarmlessJunk == {<<1, 1>>, <<1, 1, 1, 1>>}

\* The bytes after an oversized header look like a one-byte frame.
FrameLikeJunk == {<<1, 0, 0, 0, 1>>}
NoJunk == {}
=============================================================================
