SPECIFICATION FrontsSpec
CONSTANTS
    Parts = {"ipc", "gui", "shares", "menu", "reach", "files", "folder"}
    IpcScenarios <- IpcSmall
    GuiScenarios <- GuiSmall
    ShareScenarios <- ShareSmall
    MenuScenarios <- MenuSmall
    FolderScenarios <- FolderSmall
INVARIANTS FrontsSound PasteSound
PROPERTIES IndexAdvances FrontsSettle WorkSettles
CHECK_DEADLOCK FALSE
