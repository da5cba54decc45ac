SPECIFICATION FiguresSpec
CONSTANTS
    StockInputs = {}
    PriceInputs <- OddPrices
    OtbInputs = {}
    PaceInputs = {}
    BookInputs = {}
    AlertInputs = {}
    ListInputs = {}
    RadarInputs = {}
    CompsetInputs = {}
    EvidenceInputs = {}
    PageCap = 2
    Window = 1
    MaxLead = 2
    HistoryWeeks = 2
    MaxRefs = 1
INVARIANTS
    TightIsNeverLowered
