------------------------------ MODULE Connectors ------------------------------
(***************************************************************************)
(* The connectors of tools/: search(query) and fetch(url) of each are sets *)
(* of calls, one for each kind of query or page it tells apart.  Sourcing  *)
(* makes the calls.                                                        *)
(*                                                                         *)
(* Left out: what is parsed out of a reply that can be used, the URL       *)
(* checks before the first ask, the pauses between asks, and the copies of *)
(* replies some connectors keep on disk: serving one is getting it again.  *)
(***************************************************************************)
EXTENDS WebPages

-----------------------------------------------------------------------------
(* Congress, money, courts.                                                *)

\* Every further page of an enumeration is done without when it fails.
FecEnumerate == Free(<<Ask(Trusting), Ask(But(Extra, {"odd"}, {"raises"}))>>)
FecSearch == {Free(<<Ask(Trusting)>>), FecEnumerate}
FecFetchJson == Strict
\* The record, then totals, donors and purposes.
FecRecord == Free(<<Ask(FecFetchJson), Ask(Extra), Ask(Extra), Ask(Extra)>>)
FecFetchCandidate == FecRecord
FecFetchCommittee == FecRecord
Fec == Connector(FecSearch, {FecFetchCandidate, FecFetchCommittee})

CongressSearch == One(Strict)
CongressFetchJson == Strict
\* Text versions and summaries; sponsored and cosponsored bills.
CongressFetchBill == Free(<<Ask(CongressFetchJson), Ask(Extra), Ask(Extra)>>)
CongressFetchMember == Free(<<Ask(CongressFetchJson), Ask(Extra), Ask(Extra)>>)
CongressFetchHearing == Free(<<Ask(CongressFetchJson)>>)
Congress == [Connector(CongressSearch,
                       {CongressFetchBill, CongressFetchMember, CongressFetchHearing})
             EXCEPT !.bill = TRUE]

FedregisterSearch == One(Trusting)
FedregisterJson == Strict
FedregisterFetch == One(FedregisterJson)
Fedregister == Connector(FedregisterSearch, FedregisterFetch)

LdaSearch == One(Trusting)
LdaJson == Strict
LdaFetch == One(But(LdaJson, {"bare"}, {"take"}))
Lda == Connector(LdaSearch, LdaFetch)

UsaspendingPost == Strict
UsaspendingSearch == One(UsaspendingPost)
UsaspendingGet == Strict
UsaspendingFetch == One(But(UsaspendingGet, {"bare"}, {"take"}))
Usaspending == Connector(UsaspendingSearch, UsaspendingFetch)

NonprofitsSearch == One(Trusting)
NonprofitsJson == Strict
NonprofitsFetch == One(NonprofitsJson)
Nonprofits == Connector(NonprofitsSearch, NonprofitsFetch)

\* The entity, then its relationships; a search for those asks for both.
LittlesisJson == Strict
LittlesisSearch ==
    {Free(<<Ask(LittlesisJson)>>),
     Free(<<Ask(But(LittlesisJson, {"good"}, {"skip"})), Ask(LittlesisJson)>>)}
LittlesisFetch == {Free(<<Ask(LittlesisJson), Ask(Extra)>>)}
Littlesis == Connector(LittlesisSearch, LittlesisFetch)

OpencorporatesJson == Strict
OpencorporatesSearch == Keyed("quits", OpencorporatesJson)
OpencorporatesFetch == One(OpencorporatesJson)
Opencorporates == Connector(OpencorporatesSearch, OpencorporatesFetch)

EdgarSearch == Keyed("needs", Trusting)
\* The filing's index, then its main document, which is kept on disk.
EdgarGet == Strict
EdgarFetch == {Call("needs", <<Ask(But(EdgarGet, {"good"}, {"skip"})), Ask(AnyBody)>>)}
Edgar == Connector(EdgarSearch, EdgarFetch)

CourtlistenerSearch == Keyed("needs", Trusting)
CourtlistenerJson == Strict
CourtlistenerOpinion == Call("cached", <<Ask(CourtlistenerJson)>>)
\* The docket, then its entries.
CourtlistenerDocket ==
    Call("cached", <<Ask(But(CourtlistenerJson, {"bare"}, {"take"})), Ask(Extra)>>)
Courtlistener == Connector(CourtlistenerSearch, {CourtlistenerOpinion, CourtlistenerDocket})

\* The lists are downloaded when the local index is a day old, or not there; what
\* cannot be had is left out of it.
ListDownload == Ask(But(Extra, {"good"}, {"skip"}))
EnsureIndex == <<ListDownload, ListDownload>>
InIndex == Ask(Strict)
SanctionsSearch == {Free(<<InIndex>>), Free(EnsureIndex \o <<InIndex>>)}
FetchSdnDetails == Free(EnsureIndex \o <<InIndex>>)
FetchRecentActions == Free(<<Ask(But(Strict, {"garbled", "odd", "bare"}, {"take"}))>>)
\* The page of a whole list, and its place in the daily feed, are not asked for.
FetchListPage == MadeUp("placeholder", <<>>)
Sanctions == Connector(SanctionsSearch, {FetchSdnDetails, FetchRecentActions, FetchListPage})

\* The handler passes no state unless the plan does.
StaticSearch == Free(<<Ask(Strict)>>)
PortalSearch == Free(<<Ask(But(Listing, {"down"}, {"none", "raises"}))>>)
StateElectionSearch == {StaticSearch, PortalSearch, MadeUp("raises", <<>>)}
StateElectionFetch == One(AnyBody)
StateElection == Unhosted(StateElectionSearch, StateElectionFetch)

-----------------------------------------------------------------------------
(* Registers read in the browser.                                          *)

BbbSearch == One(Listing)
BbbFetch == One(Profile)
Bbb == Connector(BbbSearch, BbbFetch)

CalaccessSearch == One(Listing)
CalaccessFetch == One(Profile)
Calaccess == Connector(CalaccessSearch, CalaccessFetch)

SosSearch == One(Listing)
SosFetch == One(Profile)
Sos == Connector(SosSearch, SosFetch)

LicensingSearch == One(Listing)
LicensingFetch == One(Strict)
Licensing == Connector(LicensingSearch, LicensingFetch)

-----------------------------------------------------------------------------
(* Archives, libraries, scholarship.                                       *)

LocGet(reading) == Patient(reading, 2)
LocSearch == {Free(<<LocGet(Strict)>>)}
\* The item, then the text of a newspaper page.
LocItem == LocGet(But(Strict, {"bare"}, {"take"}))
LocOcr == LocGet(Extra)
LocFetch == {Free(<<LocItem, LocOcr>>)}
Loc == Connector(LocSearch, LocFetch)

NaraJson == Strict
NaraSearch == Keyed("quits", NaraJson)
NaraByNaid == NaraJson
NaraFetch == Keyed("quits", NaraByNaid)
Nara == Connector(NaraSearch, NaraFetch)

\* XML that does not parse is parsed again, leniently.
GallicaXml == But(Strict, {"garbled"}, {"take", "none"})
GallicaSearch == One(GallicaXml)
GallicaFetch == One(GallicaXml)
Gallica == Connector(GallicaSearch, GallicaFetch)

EuropeanaJson == Strict
EuropeanaSearch == Keyed("quits", EuropeanaJson)
EuropeanaRecord == EuropeanaJson
EuropeanaFetch == Keyed("quits", EuropeanaRecord)
Europeana == Connector(EuropeanaSearch, EuropeanaFetch)

DplaJson == Strict
DplaSearch == Keyed("quits", DplaJson)
DplaRecord == DplaJson
DplaFetch == Keyed("quits", DplaRecord)
Dpla == Unhosted(DplaSearch, DplaFetch)

TroveJson == Strict
TroveSearch == Keyed("needs", TroveJson)
TroveFetch == Keyed("needs", TroveJson)
Trove == Connector(TroveSearch, TroveFetch)

UknaJson == Strict
UknaSearch == One(UknaJson)
UknaRecord == UknaJson
UknaFetch == One(UknaRecord)
Ukna == Connector(UknaSearch, UknaFetch)

SmithsonianJson == Strict
SmithsonianSearch == One(SmithsonianJson)
\* The id as it is, then without its prefix.
SmithsonianRecord == Ask(Layer)
SmithsonianFetch == {Free(<<SmithsonianRecord, SmithsonianRecord>>)}
Smithsonian == Connector(SmithsonianSearch, SmithsonianFetch)

WikidataSparql == Patient(Strict, 1)
WikidataSearch == {Free(<<WikidataSparql>>)}
WikidataEntity == Patient(Strict, 1)
WikidataFetch == {Free(<<WikidataEntity>>)}
Wikidata == Connector(WikidataSearch, WikidataFetch)

MediawikiJson == Strict
WikisourceSearch == One(MediawikiJson)
WikisourceFetch == One(MediawikiJson)
Wikisource == Connector(WikisourceSearch, WikisourceFetch)

\* The hits, then the licences of their files: a hit without one is dropped.
CommonsImageinfo == MediawikiJson
CommonsSearch == {Free(<<Ask(But(MediawikiJson, {"good"}, {"skip"})), Ask(CommonsImageinfo)>>)}
CommonsFetch == One(CommonsImageinfo)
Commons == Connector(CommonsSearch, CommonsFetch)

IarchiveSearch == One(Strict)
IarchiveJson == Strict
IarchiveFetch == One(IarchiveJson)
Iarchive == Connector(IarchiveSearch, IarchiveFetch)

HathitrustLookup == Strict
HathitrustFetch == One(HathitrustLookup)
Hathitrust == Connector({}, HathitrustFetch)

\* The work, then what HathiTrust holds of it.
OpenlibraryRequest == Strict
OpenlibrarySearch == One(OpenlibraryRequest)
OpenlibraryFetch == {Free(<<Ask(OpenlibraryRequest), Ask(Extra)>>)}
Openlibrary == Connector(OpenlibrarySearch, OpenlibraryFetch)

OpenalexJson == Strict
OpenalexSearch == One(OpenalexJson)
OpenalexFetch == One(OpenalexJson)
Openalex == Connector(OpenalexSearch, OpenalexFetch)

PerseeSearch == One(Listing)
PerseeFetch == One(Titled)
Persee == Connector(PerseeSearch, PerseeFetch)

BneSearch == One(Listing)
BneFetch == One(Titled)
Bne == Connector(BneSearch, BneFetch)

IwmSearch == One(Listing)
IwmFetch == One(Titled)
Iwm == Connector(IwmSearch, IwmFetch)

CspanSearch == One(Listing)
CspanFetch == One(Titled)
Cspan == Connector(CspanSearch, CspanFetch)

ScholarSearch == Keyed("needs", Trusting)
\* A HEAD for the type, which may fail, then the page or the PDF.
ScholarFetch == {Free(<<Ask(But(Extra, {"good"}, {"skip"})), Ask(AnyBody)>>)}
Scholar == Unhosted(ScholarSearch, ScholarFetch)

\* The client library lets a connection error through.
ArxivSearch == One(But(Strict, {"down"}, {"none", "raises"}))
ArxivFetch == One(AnyBody)
Arxiv == [Unhosted(ArxivSearch, ArxivFetch) EXCEPT !.expands = FALSE]

-----------------------------------------------------------------------------
(* Platforms.                                                              *)

RedditSearch == One(HalfTrusting)
RedditFetch == One(Strict)
Reddit == Connector(RedditSearch, RedditFetch)

\* With a key the API, else the page of results in the browser.
YoutubeDataApi == Strict
YoutubeSerp == Listing
YoutubeSearch == One(YoutubeDataApi) \union One(YoutubeSerp)
\* Captions, else the sound transcribed; a restricted video gives nothing.
Captions == Ask(But(Layer, {"refused"}, {"none"}))
YtdlpAudio == Ask(But(Strict, {"good"}, {"skip"}))
YoutubeFetch == {MadeUp("silence", <<Captions, YtdlpAudio, Backend>>)}
Youtube == Connector(YoutubeSearch, YoutubeFetch)

LinkedinSearch == Keyed("needs", Strict)
LinkedinFetch == Keyed("needs", But(Strict, {"bare"}, {"take"}))
Linkedin == Unhosted(LinkedinSearch, LinkedinFetch)

-----------------------------------------------------------------------------
Registry ==
    {Web, News, Gdelt, Fec, Congress, Fedregister, Lda, Usaspending, Nonprofits, Littlesis,
     Opencorporates, Edgar, Courtlistener, Sanctions, StateElection, Bbb, Calaccess, Sos,
     Licensing, Loc, Nara, Gallica, Europeana, Dpla, Trove, Ukna, Smithsonian, Wikidata,
     Wikisource, Commons, Iarchive, Hathitrust, Openlibrary, Openalex, Persee, Bne, Iwm,
     Cspan, Scholar, Arxiv, Reddit, Youtube, Linkedin}

\* Those with a search task, and those with a fetch task of their own.
Searched == Registry \ {Hathitrust, Youtube}
Fetched == Searched \ {Web, News, Reddit}
===============================================================================
