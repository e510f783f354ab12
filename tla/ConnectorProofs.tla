---------------------------- MODULE ConnectorProofs ----------------------------
(***************************************************************************)
(* Every connector of the registry is well-formed: each of its calls opens *)
(* in one of the ways Sourcing knows, asks a list of asks that say what to *)
(* do with every kind of reply, and ends in one of the ways Sourcing knows.*)
(***************************************************************************)
EXTENDS Connectors, TLAPS

Readings == [Replies -> SUBSET Uses]
Asks == [reading : Readings, again : Nat]
Keys == {"free", "needs", "quits", "cached"}
Endings == {"none", "raises", "placeholder", "silence"}
AllCalls == [key : Keys, asks : Seq(Asks), empty : Endings]

WellFormed(c) == c.search \in SUBSET AllCalls /\ c.fetch \in SUBSET AllCalls

-----------------------------------------------------------------------------
(* The words a connector is written in.                                    *)

LEMMA OtherwiseTyped ==
    ASSUME NEW use \in Uses
    PROVE  Otherwise(use) \in Readings
  BY DEF Otherwise, Readings, Uses

LEMMA ButTyped ==
    ASSUME NEW reading \in Readings, NEW replies, NEW uses \in SUBSET Uses
    PROVE  But(reading, replies, uses) \in Readings
  BY DEF But, Readings

LEMMA ReadingsTyped ==
    /\ Strict \in Readings /\ Extra \in Readings /\ Layer \in Readings
    /\ Trusting \in Readings /\ HalfTrusting \in Readings /\ AnyBody \in Readings
    /\ Listing \in Readings /\ Profile \in Readings /\ Titled \in Readings
    /\ Bytes \in Readings /\ SparseLayer \in Readings
<1>1. Strict \in Readings /\ Extra \in Readings
  BY OtherwiseTyped DEF Strict, Extra, Uses
<1>2. /\ Trusting \in Readings /\ HalfTrusting \in Readings /\ AnyBody \in Readings
      /\ Listing \in Readings /\ Profile \in Readings /\ Titled \in Readings
      /\ Bytes \in Readings /\ Layer \in Readings
  BY <1>1, ButTyped
  DEF Trusting, HalfTrusting, AnyBody, Listing, Profile, Titled, Bytes, Layer, Uses
<1>3. SparseLayer \in Readings
  BY <1>2, ButTyped DEF SparseLayer, Uses
<1> QED BY <1>1, <1>2, <1>3

LEMMA AskTyped ==
    ASSUME NEW reading \in Readings
    PROVE  Ask(reading) \in Asks /\ \A n \in Nat : Patient(reading, n) \in Asks
  BY DEF Ask, Patient, Asks

LEMMA CallTyped ==
    ASSUME NEW asks \in Seq(Asks)
    PROVE  /\ \A key \in Keys : Call(key, asks) \in AllCalls
           /\ Free(asks) \in AllCalls
           /\ \A text \in Endings : MadeUp(text, asks) \in AllCalls
  BY DEF Call, Free, MadeUp, AllCalls, Keys, Endings

\* A call of up to five asks.
LEMMA ListsTyped ==
    /\ <<>> \in Seq(Asks)
    /\ \A a \in Asks : <<a>> \in Seq(Asks)
    /\ \A a, b \in Asks : <<a, b>> \in Seq(Asks)
    /\ \A a, b, c \in Asks : <<a, b, c>> \in Seq(Asks)
    /\ \A a, b, c, d \in Asks : <<a, b, c, d>> \in Seq(Asks)
  OBVIOUS

LEMMA OneTyped ==
    ASSUME NEW reading \in Readings
    PROVE  /\ One(reading) \in SUBSET AllCalls
           /\ \A key \in Keys : Keyed(key, reading) \in SUBSET AllCalls
  BY AskTyped, CallTyped, ListsTyped DEF One, Keyed

LEMMA ConnectorTyped ==
    ASSUME NEW search \in SUBSET AllCalls, NEW fetch \in SUBSET AllCalls
    PROVE  /\ WellFormed(Connector(search, fetch))
           /\ WellFormed(Unhosted(search, fetch))
  BY DEF WellFormed, Connector, Unhosted

-----------------------------------------------------------------------------
(* Documents, pages and search of the open web.                            *)

LEMMA FilesTyped == Files \in SUBSET AllCalls
<1> USE ReadingsTyped, AskTyped
<1>1. /\ FetchPdfBytes \in Asks /\ FetchImageBytes \in Asks /\ FetchAudioBytes \in Asks
      /\ ExtractPypdf \in Asks /\ ExtractPdfplumber \in Asks
      /\ ExtractTesseractPages \in Asks /\ ExtractVlmPages \in Asks
      /\ ExtractTesseract \in Asks /\ ExtractLocalVlm \in Asks /\ ExtractVlm \in Asks
      /\ Backend \in Asks
  BY DEF FetchPdfBytes, FetchImageBytes, FetchAudioBytes, ExtractPypdf, ExtractPdfplumber,
         ExtractTesseractPages, ExtractVlmPages, ExtractTesseract, ExtractLocalVlm,
         ExtractVlm, Backend
<1>2. /\ <<FetchPdfBytes>> \in Seq(Asks) /\ <<FetchImageBytes>> \in Seq(Asks)
      /\ <<ExtractVlmPages>> \in Seq(Asks) /\ <<ExtractVlm>> \in Seq(Asks)
      /\ PdfLayers \in Seq(Asks) /\ ImageLayers \in Seq(Asks)
      /\ <<FetchAudioBytes, Backend>> \in Seq(Asks)
  BY <1>1, ListsTyped DEF PdfLayers, ImageLayers
<1>3. \A s, t \in Seq(Asks) : s \o t \in Seq(Asks)
  OBVIOUS
<1>4. ExtractPdf \in SUBSET AllCalls
  BY <1>2, <1>3, CallTyped DEF ExtractPdf
<1>5. ExtractImage \in SUBSET AllCalls
  BY <1>2, <1>3, CallTyped DEF ExtractImage
<1>6. Transcribe \in SUBSET AllCalls
  BY <1>2, CallTyped DEF Transcribe, Endings
<1> QED BY <1>4, <1>5, <1>6 DEF Files

LEMMA PagesTyped == WebPage \in SUBSET AllCalls /\ WebFetch \in SUBSET AllCalls
<1>1. But(Otherwise("skip"), {"good"}, {"skip", "none"}) \in Readings
  BY OtherwiseTyped, ButTyped DEF Uses
<1>2. But(Layer, {"garbled", "odd", "bare"}, {"take", "skip"}) \in Readings
  BY ReadingsTyped, ButTyped DEF Uses
<1>3. But(But(Layer, Replies \ {"good", "down"}, {"last", "none"}), {"down"}, {"skip"}) \in Readings
  BY ReadingsTyped, ButTyped DEF Uses
<1>4. RobotsAllows \in Asks /\ FetchViaHttpx \in Asks /\ FetchViaPlaywright \in Asks
  BY <1>1, <1>2, <1>3, AskTyped DEF RobotsAllows, FetchViaHttpx, FetchViaPlaywright
<1>5. WebPage \in SUBSET AllCalls
  BY <1>4, ListsTyped, CallTyped DEF WebPage
<1> QED BY <1>5, FilesTyped DEF WebFetch

LEMMA OpenWeb == WellFormed(Web) /\ WellFormed(News) /\ WellFormed(Gdelt)
<1>1. WebSearch \in SUBSET AllCalls
  BY ReadingsTyped, OneTyped DEF WebSearch, SearchBrave, Keys
<1>2. FetchRss \in Asks /\ FetchScrape \in Asks
  BY ReadingsTyped, AskTyped DEF FetchRss, FetchScrape
<1>3. NewsSearch \in SUBSET AllCalls
  BY <1>2, ListsTyped, CallTyped DEF NewsSearch
<1>4. GdeltSearch \in SUBSET AllCalls
  BY ReadingsTyped, OneTyped DEF GdeltSearch, GdeltGet
<1> QED BY <1>1, <1>3, <1>4, PagesTyped, ConnectorTyped DEF Web, News, Gdelt

-----------------------------------------------------------------------------
(* The connectors, as Connectors groups them.                              *)

\* What each of them is made of.
LEMMA PartsTyped ==
    /\ \A r \in Readings : Ask(r) \in Asks /\ Patient(r, 1) \in Asks /\ Patient(r, 2) \in Asks
    /\ \A r \in Readings : \A k \in Keys :
          One(r) \in SUBSET AllCalls /\ Keyed(k, r) \in SUBSET AllCalls
    /\ \A a \in Asks : \A k \in Keys : Call(k, <<a>>) \in AllCalls /\ Free(<<a>>) \in AllCalls
    /\ \A a, b \in Asks : \A k \in Keys :
          Call(k, <<a, b>>) \in AllCalls /\ Free(<<a, b>>) \in AllCalls
    /\ \A a, b, c \in Asks : Free(<<a, b, c>>) \in AllCalls
    /\ \A a, b, c, d \in Asks : Free(<<a, b, c, d>>) \in AllCalls
    /\ "free" \in Keys /\ "needs" \in Keys /\ "quits" \in Keys /\ "cached" \in Keys
  BY AskTyped, OneTyped, CallTyped, ListsTyped DEF Keys

LEMMA CongressMoneyCourts ==
    /\ WellFormed(Fec) /\ WellFormed(Congress) /\ WellFormed(Fedregister) /\ WellFormed(Lda)
    /\ WellFormed(Usaspending) /\ WellFormed(Nonprofits) /\ WellFormed(Littlesis)
    /\ WellFormed(Opencorporates) /\ WellFormed(Edgar) /\ WellFormed(Courtlistener)
    /\ WellFormed(Sanctions) /\ WellFormed(StateElection)
<1>0. /\ But(Strict, {"bare"}, {"take"}) \in Readings
      /\ But(Strict, {"good"}, {"skip"}) \in Readings
      /\ But(Strict, {"garbled", "odd", "bare"}, {"take"}) \in Readings
      /\ But(Extra, {"odd"}, {"raises"}) \in Readings
      /\ But(Extra, {"good"}, {"skip"}) \in Readings
      /\ But(Listing, {"down"}, {"none", "raises"}) \in Readings
  BY ReadingsTyped, ButTyped DEF Uses
<1>1. WellFormed(Fec)
  <2>1. FecSearch \in SUBSET AllCalls
    BY <1>0, ReadingsTyped, PartsTyped DEF FecSearch, FecEnumerate
  <2>2. {FecFetchCandidate, FecFetchCommittee} \in SUBSET AllCalls
    BY ReadingsTyped, PartsTyped
    DEF FecFetchCandidate, FecFetchCommittee, FecRecord, FecFetchJson
  <2> QED BY <2>1, <2>2, ConnectorTyped DEF Fec
<1>2. WellFormed(Congress)
  <2>1. CongressSearch \in SUBSET AllCalls
    BY ReadingsTyped, PartsTyped DEF CongressSearch
  <2>2. {CongressFetchBill, CongressFetchMember, CongressFetchHearing} \in SUBSET AllCalls
    BY ReadingsTyped, PartsTyped
    DEF CongressFetchBill, CongressFetchMember, CongressFetchHearing, CongressFetchJson
  <2> QED BY <2>1, <2>2 DEF Congress, Connector, WellFormed
<1>3. /\ WellFormed(Fedregister) /\ WellFormed(Lda) /\ WellFormed(Usaspending)
      /\ WellFormed(Nonprofits) /\ WellFormed(Opencorporates)
  BY <1>0, ReadingsTyped, PartsTyped, ConnectorTyped
  DEF Fedregister, FedregisterSearch, FedregisterFetch, FedregisterJson,
      Lda, LdaSearch, LdaFetch, LdaJson,
      Usaspending, UsaspendingSearch, UsaspendingPost, UsaspendingFetch, UsaspendingGet,
      Nonprofits, NonprofitsSearch, NonprofitsFetch, NonprofitsJson,
      Opencorporates, OpencorporatesSearch, OpencorporatesFetch, OpencorporatesJson
<1>4. WellFormed(Littlesis)
  <2>0. /\ Ask(Strict) \in Asks /\ Ask(Extra) \in Asks
        /\ Ask(But(Strict, {"good"}, {"skip"})) \in Asks
    BY <1>0, ReadingsTyped, AskTyped
  <2>1. LittlesisSearch \in SUBSET AllCalls /\ LittlesisFetch \in SUBSET AllCalls
    BY <2>0, PartsTyped DEF LittlesisSearch, LittlesisFetch, LittlesisJson
  <2> QED BY <2>1, ConnectorTyped DEF Littlesis
<1>5. WellFormed(Edgar)
  <2>0. Ask(AnyBody) \in Asks /\ Ask(But(Strict, {"good"}, {"skip"})) \in Asks
    BY <1>0, ReadingsTyped, AskTyped
  <2>1. EdgarSearch \in SUBSET AllCalls
    BY ReadingsTyped, PartsTyped DEF EdgarSearch
  <2>2. EdgarFetch \in SUBSET AllCalls
    BY <2>0, PartsTyped DEF EdgarFetch, EdgarGet
  <2> QED BY <2>1, <2>2, ConnectorTyped DEF Edgar
<1>6. WellFormed(Courtlistener)
  <2>0. /\ Ask(Strict) \in Asks /\ Ask(Extra) \in Asks
        /\ Ask(But(Strict, {"bare"}, {"take"})) \in Asks
    BY <1>0, ReadingsTyped, AskTyped
  <2>1. CourtlistenerSearch \in SUBSET AllCalls
    BY ReadingsTyped, PartsTyped DEF CourtlistenerSearch
  <2>2. CourtlistenerOpinion \in AllCalls /\ CourtlistenerDocket \in AllCalls
    BY <2>0, PartsTyped DEF CourtlistenerOpinion, CourtlistenerDocket, CourtlistenerJson
  <2> QED BY <2>1, <2>2, ConnectorTyped DEF Courtlistener
<1>7. WellFormed(Sanctions)
  <2>1. ListDownload \in Asks /\ InIndex \in Asks
    BY <1>0, ReadingsTyped, PartsTyped DEF ListDownload, InIndex
  <2>2. EnsureIndex \o <<InIndex>> \in Seq(Asks)
    BY <2>1, ListsTyped DEF EnsureIndex
  <2>3. SanctionsSearch \in SUBSET AllCalls
    BY <2>1, <2>2, PartsTyped, CallTyped DEF SanctionsSearch
  <2>4. FetchSdnDetails \in AllCalls /\ FetchRecentActions \in AllCalls /\ FetchListPage \in AllCalls
    BY <1>0, <2>2, PartsTyped, CallTyped, ListsTyped
    DEF FetchSdnDetails, FetchRecentActions, FetchListPage, Endings
  <2> QED BY <2>3, <2>4, ConnectorTyped DEF Sanctions
<1>8. WellFormed(StateElection)
  <2>1. StateElectionSearch \in SUBSET AllCalls /\ StateElectionFetch \in SUBSET AllCalls
    BY <1>0, ReadingsTyped, PartsTyped, CallTyped, ListsTyped
    DEF StateElectionSearch, StaticSearch, PortalSearch, StateElectionFetch, Endings
  <2> QED BY <2>1, ConnectorTyped DEF StateElection
<1> QED BY <1>1, <1>2, <1>3, <1>4, <1>5, <1>6, <1>7, <1>8

LEMMA BrowserRegisters ==
    WellFormed(Bbb) /\ WellFormed(Calaccess) /\ WellFormed(Sos) /\ WellFormed(Licensing)
  BY ReadingsTyped, PartsTyped, ConnectorTyped
  DEF Bbb, BbbSearch, BbbFetch, Calaccess, CalaccessSearch, CalaccessFetch,
      Sos, SosSearch, SosFetch, Licensing, LicensingSearch, LicensingFetch

LEMMA Archives ==
    /\ WellFormed(Loc) /\ WellFormed(Nara) /\ WellFormed(Gallica) /\ WellFormed(Europeana)
    /\ WellFormed(Dpla) /\ WellFormed(Trove) /\ WellFormed(Ukna) /\ WellFormed(Smithsonian)
    /\ WellFormed(Wikidata) /\ WellFormed(Wikisource) /\ WellFormed(Commons)
    /\ WellFormed(Iarchive)
<1>0. /\ But(Strict, {"bare"}, {"take"}) \in Readings
      /\ But(Strict, {"good"}, {"skip"}) \in Readings
      /\ But(Strict, {"garbled"}, {"take", "none"}) \in Readings
  BY ReadingsTyped, ButTyped DEF Uses
<1>1. WellFormed(Loc)
  <2>1. LocSearch \in SUBSET AllCalls /\ LocFetch \in SUBSET AllCalls
    BY <1>0, ReadingsTyped, PartsTyped DEF LocSearch, LocFetch, LocItem, LocOcr, LocGet
  <2> QED BY <2>1, ConnectorTyped DEF Loc
<1>2. WellFormed(Nara) /\ WellFormed(Gallica) /\ WellFormed(Europeana)
  BY <1>0, ReadingsTyped, PartsTyped, ConnectorTyped
  DEF Nara, NaraSearch, NaraFetch, NaraByNaid, NaraJson,
      Gallica, GallicaSearch, GallicaFetch, GallicaXml,
      Europeana, EuropeanaSearch, EuropeanaFetch, EuropeanaRecord, EuropeanaJson
<1>3. WellFormed(Dpla) /\ WellFormed(Trove) /\ WellFormed(Ukna)
  BY ReadingsTyped, PartsTyped, ConnectorTyped
  DEF Dpla, DplaSearch, DplaFetch, DplaRecord, DplaJson, Trove, TroveSearch, TroveFetch,
      TroveJson, Ukna, UknaSearch, UknaFetch, UknaRecord, UknaJson
<1>4. WellFormed(Smithsonian) /\ WellFormed(Wikidata)
  <2>1. SmithsonianSearch \in SUBSET AllCalls /\ SmithsonianFetch \in SUBSET AllCalls
    BY ReadingsTyped, PartsTyped
    DEF SmithsonianSearch, SmithsonianFetch, SmithsonianRecord, SmithsonianJson
  <2>2. WikidataSearch \in SUBSET AllCalls /\ WikidataFetch \in SUBSET AllCalls
    BY ReadingsTyped, PartsTyped
    DEF WikidataSearch, WikidataFetch, WikidataSparql, WikidataEntity
  <2> QED BY <2>1, <2>2, ConnectorTyped DEF Smithsonian, Wikidata
<1>5. WellFormed(Wikisource) /\ WellFormed(Iarchive)
  BY ReadingsTyped, PartsTyped, ConnectorTyped
  DEF Wikisource, WikisourceSearch, WikisourceFetch, MediawikiJson,
      Iarchive, IarchiveSearch, IarchiveFetch, IarchiveJson
<1>6. WellFormed(Commons)
  <2>1. CommonsSearch \in SUBSET AllCalls /\ CommonsFetch \in SUBSET AllCalls
    BY <1>0, ReadingsTyped, PartsTyped
    DEF CommonsSearch, CommonsFetch, CommonsImageinfo, MediawikiJson
  <2> QED BY <2>1, ConnectorTyped DEF Commons
<1> QED BY <1>1, <1>2, <1>3, <1>4, <1>5, <1>6

LEMMA Libraries ==
    /\ WellFormed(Hathitrust) /\ WellFormed(Openlibrary) /\ WellFormed(Openalex)
    /\ WellFormed(Persee) /\ WellFormed(Bne) /\ WellFormed(Iwm) /\ WellFormed(Cspan)
    /\ WellFormed(Scholar) /\ WellFormed(Arxiv)
<1>0. /\ But(Extra, {"good"}, {"skip"}) \in Readings
      /\ But(Strict, {"down"}, {"none", "raises"}) \in Readings
  BY ReadingsTyped, ButTyped DEF Uses
<1>1. WellFormed(Hathitrust) /\ WellFormed(Openalex)
  BY ReadingsTyped, PartsTyped, ConnectorTyped
  DEF Hathitrust, HathitrustFetch, HathitrustLookup,
      Openalex, OpenalexSearch, OpenalexFetch, OpenalexJson
<1>2. WellFormed(Openlibrary)
  <2>1. OpenlibrarySearch \in SUBSET AllCalls /\ OpenlibraryFetch \in SUBSET AllCalls
    BY ReadingsTyped, PartsTyped DEF OpenlibrarySearch, OpenlibraryFetch, OpenlibraryRequest
  <2> QED BY <2>1, ConnectorTyped DEF Openlibrary
<1>3. WellFormed(Persee) /\ WellFormed(Bne) /\ WellFormed(Iwm) /\ WellFormed(Cspan)
  BY ReadingsTyped, PartsTyped, ConnectorTyped
  DEF Persee, PerseeSearch, PerseeFetch, Bne, BneSearch, BneFetch,
      Iwm, IwmSearch, IwmFetch, Cspan, CspanSearch, CspanFetch
<1>4. WellFormed(Scholar)
  <2>1. ScholarSearch \in SUBSET AllCalls /\ ScholarFetch \in SUBSET AllCalls
    BY <1>0, ReadingsTyped, PartsTyped DEF ScholarSearch, ScholarFetch
  <2> QED BY <2>1, ConnectorTyped DEF Scholar
<1>5. WellFormed(Arxiv)
  <2>1. ArxivSearch \in SUBSET AllCalls /\ ArxivFetch \in SUBSET AllCalls
    BY <1>0, ReadingsTyped, PartsTyped DEF ArxivSearch, ArxivFetch
  <2> QED BY <2>1 DEF Arxiv, Unhosted, Connector, WellFormed
<1> QED BY <1>1, <1>2, <1>3, <1>4, <1>5

LEMMA Platforms == WellFormed(Reddit) /\ WellFormed(Youtube) /\ WellFormed(Linkedin)
<1>0. /\ But(Layer, {"refused"}, {"none"}) \in Readings
      /\ But(Strict, {"good"}, {"skip"}) \in Readings
      /\ But(Strict, {"bare"}, {"take"}) \in Readings
  BY ReadingsTyped, ButTyped DEF Uses
<1>1. WellFormed(Reddit) /\ WellFormed(Linkedin)
  BY <1>0, ReadingsTyped, PartsTyped, ConnectorTyped
  DEF Reddit, RedditSearch, RedditFetch, Linkedin, LinkedinSearch, LinkedinFetch
<1>2. WellFormed(Youtube)
  <2>1. YoutubeSearch \in SUBSET AllCalls
    BY ReadingsTyped, PartsTyped DEF YoutubeSearch, YoutubeDataApi, YoutubeSerp
  <2>2. Captions \in Asks /\ YtdlpAudio \in Asks /\ Backend \in Asks
    BY <1>0, ReadingsTyped, PartsTyped DEF Captions, YtdlpAudio, Backend
  <2>3. YoutubeFetch \in SUBSET AllCalls
    BY <2>2, ListsTyped, CallTyped DEF YoutubeFetch, Endings
  <2> QED BY <2>1, <2>3, ConnectorTyped DEF Youtube
<1> QED BY <1>1, <1>2

\* Whatever search or fetch of whatever connector the plan uses, each of its calls
\* can be made and answered: it has an opening for every state of its credential, a
\* use for every reply and an ending.
LEMMA RegistryTyped == \A c \in Registry : WellFormed(c)
  BY OpenWeb, CongressMoneyCourts, BrowserRegisters, Archives, Libraries, Platforms DEF Registry

===============================================================================
