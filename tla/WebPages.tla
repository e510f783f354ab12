------------------------------- MODULE WebPages -------------------------------
(***************************************************************************)
(* What a connector may do with the replies it gets: calls, asks, readings.*)
(* A call is the asks it makes, in order; an ask says, for each kind of    *)
(* reply, what may be done with it.  Here with the calls that every        *)
(* connector shares: documents (tools/pdf.py, ocr.py, audio.py), pages of  *)
(* the open web (tools/web_fetch.py) and its search (tools/web_search.py,  *)
(* news.py, gdelt.py).                                                     *)
(***************************************************************************)
EXTENDS Integers, Sequences

\* good: what was asked for.  down: no reply.  limited: 429 or 503.  refused:
\* another error status.  garbled: not what its type says.  odd: JSON that is
\* not an object.  bare: a well-formed reply, or page, without the content.
Replies == {"good", "down", "limited", "refused", "garbled", "odd", "bare"}

\* take: use the reply and go on.  last: use it and ask no more.  skip: go on
\* without it.  none: give the call up.  raises: an exception the connector does
\* not catch.
Uses == {"take", "last", "skip", "none", "raises"}

\* Readings: what a reply may lead to.
Otherwise(use) == [r \in Replies |-> IF r = "good" THEN {"take"} ELSE {use}]
But(reading, replies, uses) ==
    [r \in Replies |-> IF r \in replies THEN uses ELSE reading[r]]

Strict == Otherwise("none")
Extra == Otherwise("skip")
Layer == But(Extra, {"good"}, {"last"})
\* payload.get(...) on whatever JSON came.
Trusting == But(Strict, {"odd"}, {"raises"})
\* The same after `(data or {})`: an empty list is let through, a string is not.
HalfTrusting == But(Strict, {"odd"}, {"none", "raises"})
\* The body of any 200 is the content, blank or not.
AnyBody == But(Strict, {"garbled", "odd", "bare"}, {"take", "none"})
\* A page in the browser: nobody reads its status, so an error page is searched
\* for the selectors like any other.  A result list without them is empty ...
Listing == Strict
\* ... a profile is its heading, or the host's name, and what else is found.
Profile == But(Strict, Replies \ {"good", "down"}, {"take"})
\* ... a parsed page is its title and its text: an error page with a title will do.
Titled == But(Strict, Replies \ {"good", "down"}, {"take", "none"})

Ask(reading) == [reading |-> reading, again |-> 0]
\* A limited reply is asked for again, n times.
Patient(reading, n) == [reading |-> reading, again |-> n]

\* key: free; needs: raises MissingCredentialError without one; quits: returns
\* nothing without one; cached: needs one unless the reply is on disk.
\* empty: what comes of it when the asks are over and no reply was used: none, an
\* exception, or text made up without a reply (a placeholder, or the stub that
\* stands for speech nobody transcribed).
Call(key, asks) == [key |-> key, asks |-> asks, empty |-> "none"]
Free(asks) == Call("free", asks)
MadeUp(text, asks) == [Free(asks) EXCEPT !.empty = text]
One(reading) == {Free(<<Ask(reading)>>)}
Keyed(key, reading) == {Call(key, <<Ask(reading)>>)}

\* hosted: web_fetch dispatches the connector's pages to its fetch.
\* expands: the hits of a search become fetches.
\* bill: a fetched page may name the text of a bill.
Connector(search, fetch) ==
    [search |-> search, fetch |-> fetch, hosted |-> TRUE, expands |-> TRUE, bill |-> FALSE]
Unhosted(search, fetch) == [Connector(search, fetch) EXCEPT !.hosted = FALSE]

-----------------------------------------------------------------------------
(* Documents: pdf, ocr, audio.                                             *)

\* The bytes of a file are only read by the layers that follow.
Bytes == But(Strict, {"good", "garbled", "odd", "bare"}, {"skip"})
FetchPdfBytes == Ask(Bytes)
FetchImageBytes == Ask(Bytes)
FetchAudioBytes == Ask(Bytes)

\* The longest sparse text so far is kept for the end.
SparseLayer == But(Layer, {"bare"}, {"take"})
ExtractPypdf == Ask(SparseLayer)
ExtractPdfplumber == Ask(SparseLayer)
ExtractTesseractPages == Ask(SparseLayer)
ExtractVlmPages == Ask(Layer)
PdfLayers == <<ExtractPypdf, ExtractPdfplumber, ExtractTesseractPages>>
\* The vision tier is a setting.
ExtractPdf == {Free(<<FetchPdfBytes>> \o PdfLayers),
               Free(<<FetchPdfBytes>> \o PdfLayers \o <<ExtractVlmPages>>)}

ExtractTesseract == Ask(SparseLayer)
ExtractLocalVlm == Ask(Layer)
ExtractVlm == Ask(Layer)
ImageLayers == <<ExtractTesseract, ExtractLocalVlm>>
ExtractImage == {Free(<<FetchImageBytes>> \o ImageLayers),
                 Free(<<FetchImageBytes>> \o ImageLayers \o <<ExtractVlm>>)}

\* No backend can be imported, all fail, or the one that is there hears nothing:
\* the chunk's line says so.
Backend == Ask(Layer)
Transcribe == {MadeUp("silence", <<FetchAudioBytes, Backend>>)}

-----------------------------------------------------------------------------
(* Pages of the open web: web_fetch.                                       *)

\* A robots.txt that cannot be had allows everything.
RobotsAllows == Ask(But(Otherwise("skip"), {"good"}, {"skip", "none"}))

\* A short text goes on to the browser; should that fail, it is used after all.
FetchViaHttpx == Ask(But(Layer, {"garbled", "odd", "bare"}, {"take", "skip"}))

\* What is rendered is used, whatever its status, unless no text is in it.
FetchViaPlaywright ==
    Ask(But(But(Layer, Replies \ {"good", "down"}, {"last", "none"}), {"down"}, {"skip"}))

WebPage == {Free(<<RobotsAllows, FetchViaHttpx, FetchViaPlaywright>>)}

\* A file is looked at before whose host it is on; a page that no connector owns.
Files == ExtractPdf \union ExtractImage \union Transcribe
WebFetch == WebPage \union Files

\* Brave with a key, else the result list of DuckDuckGo in the browser.
SearchBrave == Keyed("quits", HalfTrusting)
WebSearch == SearchBrave \union One(Listing)
Web == Unhosted(WebSearch, WebFetch)

\* News: every feed and every scraped front page on its own; gdelt: its index.
FetchRss == Ask(Extra)
FetchScrape == Ask(Extra)
NewsSearch == {Free(<<FetchRss, FetchScrape>>)}
News == Unhosted(NewsSearch, {})
GdeltGet == Strict
GdeltSearch == One(GdeltGet)
Gdelt == Unhosted(GdeltSearch, WebFetch)
===============================================================================
