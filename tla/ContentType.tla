---------------------------- MODULE ContentType ----------------------------
(***************************************************************************)
(* http.c: the Content-Type of a file, which is looked up by the extension *)
(* in its full path.  A path is a sequence of the separator "/", the dot,  *)
(* and words; two words in a row are one word, and not one of the table.   *)
(***************************************************************************)
EXTENDS Integers, Sequences

CONSTANTS
  Words,    \* words of file names, some of them extensions
  MaxWords  \* bound on the dots and words of one name

Dot   == "."
Slash == "/"

ASSUME ContentTypeAssumption ==
  /\ Words \subseteq STRING \ {Dot, Slash}
  /\ MaxWords \in Nat

VARIABLE path  \* what realpath has returned: [dir, base]; nothing in NoPath

NoPath == [dir |-> <<>>, base |-> <<>>]

\* A component of a path: neither empty nor "." nor "..".
Names ==
  (UNION {[1..n -> Words \cup {Dot}] : n \in 1..MaxWords}) \ {<<Dot>>, <<Dot, Dot>>}

\* The files of the static directory, and of the directories in it.
Paths == [dir : {<<Slash>> \o d \o <<Slash>> : d \in Names}, base : Names]

-----------------------------------------------------------------------------
Known ==
  [bin |-> "HTTP_CT_BIN",   bmp |-> "HTTP_CT_BMP",  css |-> "HTTP_CT_CSS",
   csv |-> "HTTP_CT_CSV",   gif |-> "HTTP_CT_GIF",  html |-> "HTTP_CT_HTML",
   htm |-> "HTTP_CT_HTML",  jpeg |-> "HTTP_CT_JPEG", jpg |-> "HTTP_CT_JPEG",
   js |-> "HTTP_CT_JS",     mjs |-> "HTTP_CT_JS",   json |-> "HTTP_CT_JSON",
   mp3 |-> "HTTP_CT_MP3",   mp4 |-> "HTTP_CT_MP4",  otf |-> "HTTP_CT_OTF",
   png |-> "HTTP_CT_PNG",   pdf |-> "HTTP_CT_PDF",  svg |-> "HTTP_CT_SVG",
   ttf |-> "HTTP_CT_TTF",   txt |-> "HTTP_CT_TXT"]

\* strcmp with each extension; the rest of the path has to be just that.
http_conten_type_from_ext(ext) ==
  IF Len(ext) = 1 /\ ext[1] \in DOMAIN Known THEN Known[ext[1]] ELSE "HTTP_CT_BIN"

Dots(s) == {k \in DOMAIN s : s[k] = Dot}

\* Mutant: strchr instead of strrchr.
FirstDot(s) == CHOOSE k \in Dots(s) : \A j \in Dots(s) : k <= j

LastDot(s) == CHOOSE k \in Dots(s) : \A j \in Dots(s) : j <= k

http_conten_type_from_filename(name) ==
  IF Dots(name) = {} THEN "HTTP_CT_BIN"
  ELSE http_conten_type_from_ext(SubSeq(name, LastDot(name) + 1, Len(name)))

-----------------------------------------------------------------------------
\* get_file_info passes the whole path, but only the name of the file matters: a
\* dot in the name of a directory changes nothing, a file without a dot is not
\* taken for what its directory or its name looks like, and of several
\* extensions the last one counts.
NameDecides ==
  path # NoPath =>
    LET type == http_conten_type_from_filename(path.dir \o path.base)
        n == Len(path.base) IN
    /\ type = http_conten_type_from_filename(path.base)
    /\ n > 1 /\ path.base[n - 1] = Dot /\ path.base[n] \in DOMAIN Known =>
         type = Known[path.base[n]]
    /\ type # "HTTP_CT_BIN" => n > 1 /\ path.base[n - 1] = Dot
=============================================================================
