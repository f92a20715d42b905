------------------------------- MODULE MCHttp -------------------------------
(* Answers of every kind that the framing tells apart.                      *)
EXTENDS Http

Ok == StatusLine("HTTP/1.1", <<2, 0, 0>>)
NoContent == StatusLine("HTTP/1.1", <<2, 0, 4>>)
EarlyHints == StatusLine("HTTP/1.1", <<1, 0, 3>>)
Unavailable == StatusLine("HTTP/1.0", <<5, 0, 3>>)
OtherVersion == StatusLine("HTTP/2.0", <<2, 0, 0>>)
FourDigits == StatusLine("HTTP/1.1", <<2, 0, 0, 0>>)
CutCode == StatusLine("HTTP/1.1", <<2, 0>>)
OfLength(digits) == Field("content-length", digits)
Chunked == Field("transfer-encoding", <<NotADigit>>)
Lookalike == Field("x-content-length", <<9>>)
TwoBytes == <<Byte, Byte>>

MCResponses ==
  { ResponseOf(Ok, <<OfLength(<<2>>)>>, TwoBytes),
    ResponseOf(Ok, <<Lookalike, OfLength(<<0, 2>>), OfLength(<<1>>)>>, TwoBytes),
    ResponseOf(Ok, <<OfLength(<<0>>)>>, <<>>),
    ResponseOf(Ok, <<OfLength(<<5>>)>>, <<Byte>> \o CrLf \o CrLf),
    ResponseOf(Ok, <<OfLength(<<2>>)>>, <<Byte>>),
    ResponseOf(Ok, <<OfLength(<<1>>)>>, TwoBytes),
    ResponseOf(Ok, <<OfLength(<<3, 1>>)>>, <<>>),
    ResponseOf(Ok, <<OfLength(<<3, 4>>)>>, TwoBytes),
    ResponseOf(Ok, <<OfLength(<<NotADigit, 2>>)>>, TwoBytes),
    ResponseOf(Ok, <<OfLength(<<>>)>>, <<>>),
    ResponseOf(Ok, <<>>, TwoBytes),
    ResponseOf(Ok, <<OfLength(<<2>>), Chunked>>, TwoBytes),
    ResponseOf(NoContent, <<>>, <<>>),
    ResponseOf(EarlyHints, <<Lookalike>>, <<Ok>> \o CrLf \o CrLf),
    ResponseOf(Unavailable, <<Lookalike, OfLength(<<1>>)>>, <<Byte>>),
    ResponseOf(Unavailable, <<Lookalike, Lookalike, Lookalike, OfLength(<<1>>)>>, <<Byte>>),
    ResponseOf(OtherVersion, <<OfLength(<<1>>)>>, <<Byte>>),
    ResponseOf(FourDigits, <<>>, <<>>),
    ResponseOf(CutCode, <<OfLength(<<0>>)>>, <<>>) }

MCPlaces ==
  { <<<<Byte>>, <<Slash>>>>, <<<<Byte>>, <<Byte>>>>, <<<<>>, <<Slash>>>>,
    <<<<Byte>>, <<Slash>> \o CrLf \o CrLf \o <<Byte>>>>, <<<<Byte, Lf>>, <<Slash>>>> }
=============================================================================
