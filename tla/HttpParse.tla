----------------------------- MODULE HttpParse -----------------------------
(***************************************************************************)
(* http.c: the parser of the request line, and what process_request and    *)
(* http_status_code_int make of its verdict.  The parser sees whatever one *)
(* read has returned, here any text that grows piece by piece.             *)
(*                                                                         *)
(* A text is a sequence of characters, and pointers are positions in it.   *)
(* The words of the protocol are as short as they can be without becoming  *)
(* ambiguous: GET is "G", HEAD is "H", HTTP/1.1 is "P" "1" and HTTP/1.0 is *)
(* "P" "0"; "x" is any other character.                                    *)
(***************************************************************************)
EXTENDS Integers, Sequences

CONSTANTS
  UriLimit,   \* settings->uri_length_limit
  MaxPieces   \* bound on the text: the pieces that arrive

ASSUME HttpParseAssumption == UriLimit \in Nat \ {0} /\ MaxPieces \in Nat

VARIABLES
  str,     \* the text read so far
  pieces   \* how many pieces it was made of

vars == <<str, pieces>>

SP == " "
CR == "\r"

Pieces ==
  {<<"G", SP>>, <<"H", SP>>, <<"x">>, <<SP>>, <<"P", "1">>, <<"P", "0">>, <<CR>>}

Before(s, i) == SubSeq(s, 1, i - 1)
Has(s, ch)   == \E i \in DOMAIN s : s[i] = ch

Init == str = <<>> /\ pieces = 0

\* What follows the first '\r' matters only as text in which strpbrk may stop:
\* one piece of it is enough.
Arrive ==
  /\ pieces < MaxPieces
  /\ Has(str, CR) => str[Len(str)] = CR /\ ~Has(Before(str, Len(str)), CR)
  /\ \E p \in Pieces : str' = str \o p
  /\ pieces' = pieces + 1

Next == Arrive

Spec == Init /\ [][Next]_vars

-----------------------------------------------------------------------------
\* string.h, as the parser uses it.

\* strchr and strpbrk: the first ch at or after from; the terminating 0, just
\* beyond the text, stands for NULL: it too lies behind every '\r'.
FirstFrom(s, from, ch) ==
  CHOOSE i \in from..(Len(s) + 1) :
    /\ \A j \in from..(i - 1) : s[j] # ch
    /\ i <= Len(s) => s[i] = ch

\* strspn: how many ch there are in a row.
Span(s, from, ch) ==
  CHOOSE n \in 0..(Len(s) + 1 - from) :
    /\ \A i \in from..(from + n - 1) : s[i] = ch
    /\ from + n <= Len(s) => s[from + n] # ch

-----------------------------------------------------------------------------
\* parse_http_req.

MethodOf(word) ==
  CASE word = <<"G">> -> "HTTP_GET"
    [] word = <<"H">> -> "HTTP_HEAD"
    [] OTHER          -> "none"

Versions == {<<"P", "1">>, <<"P", "0">>}

\* Mutant: one character more than the limit is let through.
TooLongByOne(uri_len) == uri_len > UriLimit + 1

TooLong(uri_len) == uri_len > UriLimit

\* Mutant: the character before the protocol belongs to it.
ProtocolStartEarly(uri_end, skip_spaces) == uri_end + skip_spaces - 1

\* skip_spaces is, at http.c:49, again the number of spaces before the uri.
ProtocolStart(uri_end, skip_spaces) == uri_end + skip_spaces

\* Mutant: the uri may end behind the line.
AnywhereBeyond(uri_end, line_end) == FALSE

BeyondLine(uri_end, line_end) == uri_end > line_end

parse_http_req(s) ==
  LET line_end    == FirstFrom(s, 1, CR)
      method_end  == FirstFrom(s, 1, SP)
      skip_spaces == Span(s, method_end, SP)
      uri         == method_end + skip_spaces
      uri_end     == FirstFrom(s, uri, SP)
      protocol    == ProtocolStart(uri_end, skip_spaces)
  IN  IF ~Has(s, CR) \/ method_end > line_end THEN "PARSE_HTTP_INVALID_SYNTAX"
      ELSE IF MethodOf(Before(s, method_end)) = "none" THEN "PARSE_HTTP_INVALID_METHOD"
      ELSE IF BeyondLine(uri_end, line_end) THEN "PARSE_HTTP_INVALID_SYNTAX"
      ELSE IF TooLong(uri_end - uri) THEN "PARSE_HTTP_URI_TOO_LONG"
      ELSE IF SubSeq(s, protocol, line_end - 1) \notin Versions
           THEN "PARSE_HTTP_INVALID_VERSION"
      ELSE "PARSE_HTTP_OK"

\* process_request: the code of the response; a request that parses may still
\* fail for want of the file.
CodeOf ==
  [PARSE_HTTP_OK             |-> "HTTP_OK",
   PARSE_HTTP_INVALID_SYNTAX  |-> "HTTP_BAD_REQUEST",
   PARSE_HTTP_INVALID_VERSION |-> "HTTP_VERSION_NO_SUPPORTED",
   PARSE_HTTP_URI_TOO_LONG    |-> "HTTP_URI_TOO_LONG",
   PARSE_HTTP_INVALID_METHOD  |-> "HTTP_METHOD_NOT_ALLOWED"]

http_status_code_int ==
  [HTTP_OK |-> 200, HTTP_BAD_REQUEST |-> 400, HTTP_FORBIDDEN |-> 403,
   HTTP_NOT_FOUND |-> 404, HTTP_METHOD_NOT_ALLOWED |-> 405, HTTP_URI_TOO_LONG |-> 514,
   HTTP_INTERNAL_SERVER_ERROR |-> 500, HTTP_VERSION_NO_SUPPORTED |-> 505]

Status(s) == http_status_code_int[CodeOf[parse_http_req(s)]]

-----------------------------------------------------------------------------
\* Properties.

Line   == Before(str, FirstFrom(str, 1, CR))
Spaces == {i \in DOMAIN Line : Line[i] = SP}

\* What a line of three words, with one space between them, deserves.
Deserves(method, uri, version) ==
  IF MethodOf(method) = "none" THEN "PARSE_HTTP_INVALID_METHOD"
  ELSE IF Len(uri) > UriLimit  THEN "PARSE_HTTP_URI_TOO_LONG"
  ELSE IF version \notin Versions THEN "PARSE_HTTP_INVALID_VERSION"
  ELSE "PARSE_HTTP_OK"

\* A complete line of three words is judged word by word: the pointer
\* arithmetic of the parser finds exactly the words.
ThreeWordsJudged ==
  Has(str, CR) =>
    \A i, j \in Spaces :
      Spaces = {i, j} /\ i + 1 < j =>
        parse_http_req(str) =
          Deserves(SubSeq(Line, 1, i - 1), SubSeq(Line, i + 1, j - 1),
                   SubSeq(Line, j + 1, Len(Line)))

\* Whatever the parser accepts, http.c:49 included: the line starts with a known
\* method and ends in a known version, the uri between them is neither empty nor
\* too long, and as many characters separate uri and version as there are spaces
\* before the uri.
AcceptedShape ==
  parse_http_req(str) = "PARSE_HTTP_OK" =>
    \E m \in 1..Len(Line) : \E u \in 1..UriLimit :
      /\ Len(Line) = 1 + m + u + m + 2
      /\ MethodOf(<<Line[1]>>) # "none"
      /\ \A i \in 2..(1 + m) : Line[i] = SP
      /\ \A i \in (2 + m)..(1 + m + u) : Line[i] # SP
      /\ Line[2 + m + u] = SP
      /\ SubSeq(Line, Len(Line) - 1, Len(Line)) \in Versions

\* The verdict is about the first line alone: what has arrived behind its '\r',
\* and how much of it, makes no difference.
HeadersDoNotMatter ==
  [][Has(str, CR) => parse_http_req(str') = parse_http_req(str)]_vars

\* The comments of enum http_status_code, server.h:42-51.
Documented ==
  [HTTP_OK |-> 200, HTTP_BAD_REQUEST |-> 400, HTTP_FORBIDDEN |-> 403,
   HTTP_NOT_FOUND |-> 404, HTTP_METHOD_NOT_ALLOWED |-> 405, HTTP_URI_TOO_LONG |-> 414,
   HTTP_INTERNAL_SERVER_ERROR |-> 500, HTTP_VERSION_NO_SUPPORTED |-> 505]

\* The client is sent the status that the declaration of its code names.
StatusAsDocumented == Status(str) = Documented[CodeOf[parse_http_req(str)]]
=============================================================================
