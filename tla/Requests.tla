------------------------------ MODULE Requests ------------------------------
(***************************************************************************)
(* The requests of the clients and what they make of a response that is    *)
(* not a success.  Names of subjects and images travel in paths, so they   *)
(* are percent-encoded by the client, decoded by the gateway, which has to *)
(* know what a request is about, and decoded again by the backend.         *)
(*                                                                         *)
(* A name is a sequence of tokens.  "coded" counts how often a reserved    *)
(* character is percent-encoded: "/" has 0, a literal "%2F" has 1, and     *)
(* encoding it gives "%252F", 2.                                           *)
(***************************************************************************)
EXTENDS Naturals, Sequences

Sdks == {"python", "async", "go", "java", "node"}
Clients == Sdks \cup {"web", "rest"}

Reserved == {"/"}
Token(text) == [text |-> text, coded |-> 0]
Coded(text, n) == [text |-> text, coded |-> n]

\* Only reserved characters are ever found encoded.
IsToken(t) == t \in [text : STRING, coded : Nat] /\ (t.coded > 0 => t.text \in Reserved)
IsName(name) ==
  /\ name \in Seq([text : STRING, coded : Nat])
  /\ \A i \in DOMAIN name : IsToken(name[i])

quote(name) ==
  [i \in DOMAIN name |->
    IF name[i].text \in Reserved THEN [name[i] EXCEPT !.coded = @ + 1] ELSE name[i]]

unquote(path) ==
  [i \in DOMAIN path |->
    IF path[i].coded > 0 THEN [path[i] EXCEPT !.coded = @ - 1] ELSE path[i]]

IsWord(rest) == rest # <<>> /\ \A i \in DOMAIN rest : rest[i] # Token("/")

Dots == {<<Token(".")>>, <<Token("."), Token(".")>>}

\* URL libraries remove dot segments from the path of a request.
Resolved(rest) == IF rest \in Dots THEN <<>> ELSE rest

-----------------------------------------------------------------------------
(* Identifiers a client puts into a path.                                  *)

\* The SDKs and the web client refuse what would change the path.
path_segment(name) == name # <<>> /\ name \notin Dots

\* quote(safe=""), url.PathEscape, addPathSegment and encodeURIComponent.
Segment(name) == Resolved(quote(name))

-----------------------------------------------------------------------------
(* Requests.  "query" is the subject of the query string, decoded as it    *)
(* was encoded; "rest" is the raw path below the collection "base".        *)

Request(method, base, rest, query, body) ==
  [method |-> method, base |-> base, rest |-> rest, query |-> query, body |-> body]

NoName == <<Token("no name")>>

Below(name, word) == <<name[1], Token("/"), Token(word)>>

create_subject(name) == Request("POST", "subjects", <<>>, NoName, "json")
delete_subject(name) == Request("DELETE", "subjects", Segment(name), NoName, "none")
list_subjects == Request("GET", "subjects", <<>>, NoName, "none")
add_face(name, body) == Request("POST", "faces", <<>>, name, body)
delete_face(id) == Request("DELETE", "faces", Segment(id), NoName, "none")
recognize(body) == Request("POST", "recognize", <<>>, NoName, body)
detect(body) == Request("POST", "detection", <<>>, NoName, body)

\* Requests of the REST interface that no SDK makes; the web client lists faces.
rename_subject(name) == Request("PUT", "subjects", Segment(name), NoName, "json")
list_faces(name) == Request("GET", "faces", <<>>, name, "none")
delete_faces(name) == Request("DELETE", "faces", <<>>, name, "none")
delete_list(body) == Request("POST", "faces", <<Token("delete")>>, NoName, body)
verify_face(id, body) == Request("POST", "faces", Below(id, "verify"), NoName, body)
download(id) == Request("GET", "faces", Below(id, "img"), NoName, "none")
static_image(id) == Request("GET", "static", id, NoName, "none")

-----------------------------------------------------------------------------
(* The exception a response becomes: its class and the status it carries.  *)
(* "noface" says that the message of a 400 is about a missing face.        *)

Raised(class, status) == [class |-> class, status |-> status]

\* Mutant: an unknown service is reported as a refused key.
PythonRaises_404(a) ==
  IF a.status \in {401, 404} THEN Raised("authentication", 401)
  ELSE Raised("api", a.status)

PythonRaises(a) ==
  CASE a.status = 400 /\ a.noface -> Raised("noface", 400)
    [] a.status = 401 -> Raised("authentication", 401)
    [] a.status = 429 -> Raised("ratelimit", 429)
    [] a.status >= 500 -> Raised("server", 500)
    [] OTHER -> Raised("api", a.status)

AsyncRaises(a) == PythonRaises(a)

GoRaises(a) == Raised("api", a.status)

JavaRaises(a) ==
  IF a.status = 400 /\ a.noface THEN Raised("noface", 400) ELSE Raised("api", a.status)

NodeRaises(a) ==
  IF a.status = 400 /\ a.noface THEN Raised("noface", 400) ELSE Raised("api", a.status)

\* axios rejects with the response; a test of the REST interface sees it.
Raises(a) ==
  [python |-> PythonRaises(a), async |-> AsyncRaises(a), go |-> GoRaises(a),
   java |-> JavaRaises(a), node |-> NodeRaises(a),
   web |-> Raised("api", a.status), rest |-> Raised("api", a.status)]
=============================================================================
